------------------------------ MODULE DvbCalls ------------------------------
(* What remote procedure calls promise: a request is carried out at most     *)
(* once; its call returns the result it had there, never before it was       *)
(* carried out, or, once the connection is lost, what it returns then.  That *)
(* is an error, except that three calls hide it.                             *)
EXTENDS Integers

CONSTANTS Callers, Uids, Commands, Seqs, Failure, ENODEV, Prepared

VARIABLES
  job,     \* per caller: the call under way, its request (0: none yet), and
           \* the value returned last
  asked,   \* the requests made
  done,    \* the results of those carried out
  opened,  \* the devices that are open at the server
  lost     \* the connection is lost

vars == <<job, asked, done, opened, lost>>

Idle(val) == [cmd |-> "none", seq |-> 0, val |-> val]

\* fe_get_stats always returns 0; the version is known (1) or it is not (0).
Reported(cmd, val) ==
  CASE cmd = "stats"   -> 0
    [] cmd = "version" -> IF val < 0 THEN 0 ELSE 1
    [] OTHER           -> val

\* A call that made no request returns an error, but fe_set_parms a length.
Unasked(cmd) == IF cmd = "setparms" THEN Prepared ELSE Failure

Init ==
  /\ job = [c \in Callers |-> Idle(0)]
  /\ asked = {}
  /\ done = {}
  /\ opened = {}
  /\ lost = FALSE

Begin(c) ==
  /\ job[c].cmd = "none"
  /\ \E cmd \in Commands : job' = [job EXCEPT ![c] = [cmd |-> cmd, seq |-> 0, val |-> 0]]
  /\ UNCHANGED <<asked, done, opened, lost>>

Refuse(c) ==
  /\ lost
  /\ job[c].cmd = "none"
  /\ job' = [job EXCEPT ![c] = Idle(ENODEV)]
  /\ UNCHANGED <<asked, done, opened, lost>>

Ask(c) ==
  \E n \in Seqs, uid \in Uids \cup {0} :
    /\ job[c].cmd \in Commands
    /\ job[c].seq = 0
    /\ \A r \in asked : r.seq # n
    /\ asked' = asked \cup {[seq |-> n, cmd |-> job[c].cmd, uid |-> uid]}
    /\ job' = [job EXCEPT ![c] = [cmd |-> job[c].cmd, seq |-> n, val |-> 0]]
    /\ UNCHANGED <<done, opened, lost>>

\* The effect of a request on the open devices, and its result.
Effect(r, val) ==
  \/ val = Failure /\ opened' = opened
  \/ r.cmd \notin {"open", "close"} /\ val = 0 /\ opened' = opened
  \/ r.cmd = "open" /\ val \in Uids \ opened /\ opened' = opened \cup {val}
  \/ r.cmd = "close" /\ r.uid \in opened /\ val = 0 /\ opened' = opened \ {r.uid}

CarryOut ==
  \E r \in asked, val \in Uids \cup {0, Failure} :
    /\ \A d \in done : d.seq # r.seq
    /\ Effect(r, val)
    /\ done' = done \cup {[seq |-> r.seq, val |-> val]}
    /\ UNCHANGED <<job, asked, lost>>

Return(c) ==
  \E d \in done :
    /\ d.seq = job[c].seq
    /\ job' = [job EXCEPT ![c] = Idle(Reported(job[c].cmd, d.val))]
    /\ UNCHANGED <<asked, done, opened, lost>>

Fail(c) ==
  /\ lost
  /\ job[c].cmd # "none"
  /\ job' = [job EXCEPT ![c] =
                Idle(IF job[c].seq = 0 THEN Unasked(job[c].cmd)
                     ELSE Reported(job[c].cmd, ENODEV))]
  /\ UNCHANGED <<asked, done, opened, lost>>

Lose == ~lost /\ lost' = TRUE /\ UNCHANGED <<job, asked, done, opened>>

\* After the loss the server closes what was open.
Release == lost /\ opened' = {} /\ UNCHANGED <<job, asked, done, lost>>

Next == \/ \E c \in Callers : Begin(c) \/ Refuse(c) \/ Ask(c) \/ Return(c) \/ Fail(c)
        \/ CarryOut \/ Lose \/ Release

Spec == Init /\ [][Next]_vars
=============================================================================
