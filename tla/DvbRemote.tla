----------------------------- MODULE DvbRemote -----------------------------
(***************************************************************************)
(* The client side of a remote DVB device (lib/libdvbv5/dvb-dev-remote.c): *)
(* application threads that make remote procedure calls, and the receiver  *)
(* thread that hands them their answers.                                   *)
(*                                                                         *)
(* A call writes its request and appends its message to the queue under    *)
(* lock_io, holding the lock of the message too; it then waits on the      *)
(* message's condition, which lets go of that lock.  The receiver finds    *)
(* the message by its sequence number under lock_io, lets go of lock_io,   *)
(* and signals under the message's lock.  lock_io and the message locks    *)
(* are held exactly where the program counters say so and need no          *)
(* variables.                                                              *)
(***************************************************************************)
EXTENDS DvbLink, SequencesExt, FiniteSets

CONSTANTS
  Callers,  \* the application's threads
  Calls,    \* the commands each of them uses
  MaxCalls  \* bound: sequence numbers

ASSUME RemoteAssumption ==
  /\ IsFiniteSet(Callers)
  /\ Calls \in [Callers -> SUBSET Commands]
  /\ MaxCalls \in Nat

VARIABLES
  call,          \* what each thread is doing, with its message
  seq,           \* priv->seq
  msgs,          \* priv->msgs: the sequence numbers of the queued messages
  openList,      \* dvb->open_list: the descriptors, by uid
  disconnected,  \* priv->disconnected
  sock,          \* priv->fd is open
  rcv,           \* the receiver thread
  asked          \* history: every request that was sent

remote == <<call, seq, msgs, openList, disconnected, sock, rcv, asked>>

\* val is msg->retval until the thread has read it, and then what it returns.
Returns == Results \cup {ENODEV, 1, Prepared}
CallState ==
  [pc : {"idle", "checked", "posting", "posted", "waiting", "signalled",
         "freeing"},
   cmd : Commands \cup {"none"}, uid : Uids \cup {0}, seq : Nat,
   val : Returns]
Returned(v) == [pc |-> "idle", cmd |-> "none", uid |-> 0, seq |-> 0, val |-> v]

\* The receiver is at "recv", "match", "signal", "data", "walk" or "off", with
\* the message it works on, or "lost" in a stream it can no longer divide into
\* messages; pos is where it is in open_list or in the message queue (0: at
\* the end).
Receiving == [pc |-> "recv", seq |-> 0, cmd |-> "log", val |-> 0, pos |-> 0]

RemoteInit ==
  /\ call = [c \in Callers |-> Returned(0)]
  /\ seq = 0
  /\ msgs = <<>>
  /\ openList = <<>>
  /\ disconnected = FALSE
  /\ sock = TRUE
  /\ rcv = Receiving
  /\ asked = {}

FirstOf(list) == IF list = <<>> THEN 0 ELSE list[1]
AfterIn(list, x) ==
  LET later == {i \in DOMAIN list : i > 1 /\ list[i - 1] = x}
  IN IF later = {} THEN 0 ELSE list[CHOOSE i \in later : TRUE]

\* Where a walk without a lock goes from x: if x was freed meanwhile, its link
\* leads anywhere or to the end.
Follows(list, x) ==
  IF x \in ToSet(list) THEN {AfterIn(list, x)} ELSE ToSet(list) \cup {0}

-----------------------------------------------------------------------------
(* The application's threads.                                               *)

LockIoFree == \A c \in Callers : call[c].pc # "posting"
ListCommands == {"open", "close"}

\* A call begins with a look at priv->disconnected; setting a section filter
\* leaves it out.  The application opens and closes one device at a time.
Begin(c, cmd, uid) ==
  /\ call[c].pc = "idle"
  /\ cmd \in Calls[c]
  /\ seq + Cardinality({d \in Callers : call[d].pc = "checked"}) < MaxCalls
  /\ IF cmd = "close" THEN uid \in ToSet(openList) ELSE uid = 0
  /\ cmd \in ListCommands =>
       \A d \in Callers : call[d].pc # "idle" => call[d].cmd \notin ListCommands
  /\ call' = [call EXCEPT ![c] =
                IF disconnected /\ cmd # "filter" THEN Returned(ENODEV)
                ELSE [@ EXCEPT !.pc = "checked", !.cmd = cmd, !.uid = uid]]
  /\ UNCHANGED <<seq, msgs, openList, disconnected, sock, rcv, asked, link>>

\* send_fmt() and send_buf(): the request is written.
Post(c) ==
  /\ call[c].pc = "checked"
  /\ LockIoFree
  /\ sock
  /\ seq' = seq + 1
  /\ call' = [call EXCEPT ![c] =
                [@ EXCEPT !.pc = "posting", !.seq = seq + 1, !.val = 0]]
  /\ asked' = asked \cup {Request(seq + 1, call[c].cmd, call[c].uid)}
  /\ toServer' = Deliver(toServer, Request(seq + 1, call[c].cmd, call[c].uid))
  /\ UNCHANGED <<msgs, openList, disconnected, sock, rcv, toClient, up>>

\* What a call returns that could not send its request, and what it makes of
\* the result it got.
NotSent(cmd) == IF cmd = "setparms" THEN Prepared ELSE Failure
Reports(cmd, val) ==
  CASE cmd = "stats"                -> 0
    [] cmd = "version" /\ val < 0  -> 0
    [] cmd = "version" /\ val >= 0 -> 1
    [] OTHER                        -> val

\* The write fails: there is no message, and a close frees its descriptor.
PostFails(c) ==
  /\ call[c].pc = "checked"
  /\ LockIoFree
  /\ ~sock \/ ~up
  /\ seq' = seq + 1
  /\ call' = [call EXCEPT ![c] = Returned(NotSent(call[c].cmd))]
  /\ openList' = IF call[c].cmd = "close" THEN RemoveFirst(openList, call[c].uid)
                 ELSE openList
  /\ UNCHANGED <<msgs, disconnected, sock, rcv, asked, link>>

Enqueue(c) ==
  /\ call[c].pc = "posting"
  /\ msgs' = Append(msgs, call[c].seq)
  /\ call' = [call EXCEPT ![c].pc = "posted"]
  /\ UNCHANGED <<seq, openList, disconnected, sock, rcv, asked, link>>

\* pthread_cond_wait(): sleep, and let go of the message's lock.
Wait(c) ==
  /\ call[c].pc = "posted"
  /\ call' = [call EXCEPT ![c].pc = "waiting"]
  /\ UNCHANGED <<seq, msgs, openList, disconnected, sock, rcv, asked, link>>

Opened(me) == me.cmd = "open" /\ me.val >= 0

UnlistedNever(u) == openList   \* mutant: dvb_remote_close() only tells the daemon
Unlisted(u) == RemoveFirst(openList, u)

\* The thread has the message's lock again and reads msg->retval.  A
\* successful open keeps its message queued and locked.
Wake(c) ==
  LET me == call[c]
  IN /\ me.pc = "signalled"
     /\ call' = [call EXCEPT ![c] = IF Opened(me) THEN Returned(me.val)
                                    ELSE [me EXCEPT !.pc = "freeing",
                                            !.val = Reports(me.cmd, me.val)]]
     /\ openList' = IF Opened(me) THEN Append(openList, me.val)
                    ELSE IF me.cmd = "close" THEN Unlisted(me.uid)
                    ELSE openList
     /\ UNCHANGED <<seq, msgs, disconnected, sock, rcv, asked, link>>

UnqueuedNever(n) == msgs   \* mutant: the message stays in the queue
Unqueued(n) == RemoveFirst(msgs, n)

\* free_msg()
FreeMsg(c) ==
  /\ call[c].pc = "freeing"
  /\ LockIoFree
  /\ msgs' = Unqueued(call[c].seq)
  /\ call' = [call EXCEPT ![c] = Returned(@.val)]
  /\ UNCHANGED <<seq, openList, disconnected, sock, rcv, asked, link>>

-----------------------------------------------------------------------------
(* The receiver thread, receive_data().                                     *)

\* The threads whose queued message has sequence number n.  Once a thread has
\* read its result the message's number is 0.
Owners(n) ==
  {c \in Callers : call[c].seq = n
                     /\ call[c].pc \in {"posted", "waiting", "signalled"}}

\* send_fmt() leaves the message locked until its thread waits.
MsgLocked(n) ==
  \E c \in Owners(n) : call[c].pc = "posted" /\ call[c].cmd # "setparms"

\* The messages that may be longer than 127 bytes.
Long == {"get", "stats", "data_read"}
Lost == [Receiving EXCEPT !.pc = "lost"]

\* The length is put together from signed bytes, and is wrong when one of them
\* is above 127.
Receive ==
  /\ rcv.pc = "recv"
  /\ sock
  /\ toClient # <<>>
  /\ LET m == Head(toClient)
     IN \/ m.cmd \in Long \cup {"cut"} /\ rcv' = Lost
        \/ m.cmd # "cut" /\ rcv' =
               CASE m.seq # 0 ->
                      [pc |-> "match", seq |-> m.seq, cmd |-> m.cmd,
                       val |-> m.val, pos |-> 0]
                 [] m.cmd = "data_read" /\ openList # <<>> ->
                      [pc |-> "data", seq |-> 0, cmd |-> m.cmd,
                       val |-> m.val, pos |-> FirstOf(openList)]
                 [] OTHER -> Receiving
  /\ toClient' = Tail(toClient)
  /\ UNCHANGED <<call, seq, msgs, openList, disconnected, sock, asked,
                 toServer, up>>

\* Data: walk the open descriptors, without a lock, and write the ring buffer
\* of the one with this uid.
WalkOpenList ==
  /\ rcv.pc = "data"
  /\ \E next \in Follows(openList, rcv.pos) :
       rcv' = IF next = 0 THEN Receiving ELSE [rcv EXCEPT !.pos = next]
  /\ UNCHANGED <<call, seq, msgs, openList, disconnected, sock, asked, link>>

\* An answer: store it in the message it belongs to.
Match ==
  /\ rcv.pc = "match"
  /\ LockIoFree
  /\ \E c \in Callers :
       /\ c \in Owners(rcv.seq)
       /\ call[c].cmd = rcv.cmd
       /\ call' = [call EXCEPT ![c].val = rcv.val]
       /\ rcv' = [rcv EXCEPT !.pc = "signal", !.pos = rcv.seq]
  /\ UNCHANGED <<seq, msgs, openList, disconnected, sock, asked, link>>

\* A signal wakes a thread that waits, and is lost on one that does not yet.
Signalled(n) ==
  [c \in Callers |-> IF c \in Owners(n) /\ call[c].pc = "waiting"
                     THEN [call[c] EXCEPT !.pc = "signalled"] ELSE call[c]]

MayLockAnyway(n) == TRUE   \* mutant: signals without the message's lock
MayLock(n) == ~MsgLocked(n)

Signal ==
  /\ rcv.pc = "signal"
  /\ MayLock(rcv.pos)
  /\ call' = Signalled(rcv.pos)
  /\ rcv' = Receiving
  /\ UNCHANGED <<seq, msgs, openList, disconnected, sock, asked, link>>

\* recv() fails: dvb_dev_remote_disconnect() begins.
RecvFails ==
  /\ \/ rcv.pc = "recv" /\ toClient = <<>>
     \/ rcv.pc = "lost"
  /\ sock
  /\ ~up
  /\ disconnected' = TRUE
  /\ rcv' = [rcv EXCEPT !.pc = "walk", !.pos = FirstOf(msgs)]
  /\ UNCHANGED <<call, seq, msgs, openList, sock, asked, link>>

ToldNothing(me) == me   \* mutant: the signal alone
Told(me) == [me EXCEPT !.val = ENODEV]

\* It walks the message queue, without lock_io, stores -ENODEV in every message
\* and signals it, without the message's lock.
WalkMsgs ==
  /\ rcv.pc = "walk"
  /\ rcv.pos # 0
  /\ call' = [c \in Callers |-> IF c \in Owners(rcv.pos)
                                THEN Told(Signalled(rcv.pos)[c])
                                ELSE call[c]]
  /\ \E next \in Follows(msgs, rcv.pos) : rcv' = [rcv EXCEPT !.pos = next]
  /\ UNCHANGED <<seq, msgs, openList, disconnected, sock, asked, link>>

\* The socket is closed and the receiver ends.
CloseSocket ==
  /\ rcv.pc = "walk"
  /\ rcv.pos = 0
  /\ sock' = FALSE
  /\ rcv' = [rcv EXCEPT !.pc = "off"]
  /\ UNCHANGED <<call, seq, msgs, openList, disconnected, asked, link>>

-----------------------------------------------------------------------------

CallerStep(c) == \/ Post(c) \/ PostFails(c) \/ Enqueue(c)
                 \/ Wait(c) \/ Wake(c) \/ FreeMsg(c)

Receiver == \/ Receive \/ WalkOpenList \/ Match \/ Signal
            \/ RecvFails \/ WalkMsgs \/ CloseSocket

RemoteNext ==
  \/ \E c \in Callers :
       \/ \E cmd \in Commands, uid \in Uids \cup {0} : Begin(c, cmd, uid)
       \/ CallerStep(c)
  \/ Receiver
=============================================================================
