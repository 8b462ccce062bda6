----------------------------- MODULE DvbSystem -----------------------------
(* A client of libdvbv5 with a remote device, the connection, and            *)
(* dvbv5-daemon.                                                             *)
EXTENDS DvbRemote, DvbDaemon

vars == <<remote, daemon, link>>

Init == LinkInit /\ RemoteInit /\ DaemonInit

Next == \/ RemoteNext /\ UNCHANGED daemon
        \/ DaemonNext /\ UNCHANGED remote
        \/ Break /\ UNCHANGED <<remote, daemon>>

Spec == Init /\ [][Next]_vars

\* Threads are scheduled and a thread that waits for msg_mutex gets it if it is
\* free again and again; no call has to be made and the connection does not
\* have to break.
Fairness ==
  /\ \A c \in Callers : WF_vars(CallerStep(c) /\ UNCHANGED daemon)
  /\ WF_vars(Receiver /\ UNCHANGED daemon)
  /\ WF_vars(Server /\ UNCHANGED remote)
  /\ SF_vars(LockAnswer /\ UNCHANGED remote)
  /\ WF_vars(Reader /\ UNCHANGED remote)

FairSpec == Spec /\ Fairness

-----------------------------------------------------------------------------

\* Each call is carried out at most once and returns what it makes of its own
\* result or, after the connection was lost, of an error: the queue of
\* messages, the receiver and the daemon implement DvbCalls.
InCall(c) == call[c].pc \in {"posting", "posted", "waiting", "signalled"}
Begun(c) == call[c].pc = "checked" \/ InCall(c)
Jobs == [c \in Callers |-> [cmd |-> IF Begun(c) THEN call[c].cmd ELSE "none",
                           seq |-> IF InCall(c) THEN call[c].seq ELSE 0,
                           val |-> IF Begun(c) THEN 0 ELSE call[c].val]]
Promise == INSTANCE DvbCalls WITH
  job <- Jobs,
  Seqs <- 1..MaxCalls,
  opened <- uids,
  lost <- ~up
ImplementsCalls == Promise!Spec

\* The two threads of the daemon never write to the connection at once, so
\* that a message arrives in one piece, until dev_open() unlocks msg_mutex for
\* a reader that is sending: neither a cancelled reader, nor the mutex it died
\* with, nor an unlock at another moment lets both in.
OneSender == srv.pc = "sending" /\ reader.pc = "sending" => stray

\* A descriptor in open_list that no thread is closing is open at the daemon.
Closing == {call[c].uid : c \in {d \in Callers : call[d].cmd = "close"}}
OpenAtDaemon == up => ToSet(openList) \ Closing \subseteq uids

\* The message queue holds the message of every call from the moment it is
\* queued to the one it is freed, so that its answer finds it, and else only
\* those that successful opens leave behind; no message twice.
Queued == {"posted", "waiting", "signalled", "freeing"}
QueueAccounted ==
  /\ Cardinality(ToSet(msgs)) = Len(msgs)
  /\ \A c \in Callers : call[c].pc \in Queued => call[c].seq \in ToSet(msgs)
  /\ \A n \in ToSet(msgs) :
       \/ \E c \in Callers : call[c].seq = n
       \/ \E r \in asked, d \in done :
            r.seq = n /\ d.seq = n /\ r.cmd = "open" /\ d.val > 0

\* A call that reports 0 or a positive result was carried out with success:
\* what the documentation says of dvb_fe_get_stats() and dvb_fe_set_parms().
\* It fails for both, as README.md tells, so that no run has it.
SuccessTrue ==
  [][\A c \in Callers :
       /\ call[c].cmd \in {"stats", "setparms"}
       /\ call'[c].pc = "idle" /\ call'[c].val >= 0
       => \E d \in done : d.seq = call[c].seq /\ d.val >= 0]_vars

\* A call whose request the daemon knows returns, unless the daemon cancelled
\* the reading thread while it had msg_mutex, or either end has taken a wrong
\* length out of its stream: neither thread of the daemon keeps the other from
\* the mutex, and no answer finds its caller not yet waiting.
KnownCallsReturn ==
  [](mutex # "dead" /\ rcv.pc # "lost" /\ srv.pc # "stuck") =>
    \A c \in Callers : call[c].pc # "idle" /\ call[c].cmd # "filter"
                         ~> call[c].pc = "idle"
=============================================================================
