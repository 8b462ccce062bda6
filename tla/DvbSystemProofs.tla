--------------------------- MODULE DvbSystemProofs ---------------------------
(***************************************************************************)
(* Proofs about the remote DVB device: for any number of calling threads,   *)
(* devices and calls, over a connection that may break, the client and the  *)
(* daemon implement DvbCalls.  The second part is about the client's lists. *)
(***************************************************************************)
EXTENDS DvbSystem, FiniteSetTheorems, TLAPS

-----------------------------------------------------------------------------
(* The inductive invariant.                                                 *)

RequestSet == [seq : Nat, cmd : Commands, uid : Uids \cup {0}]
AnswerSet == [seq : Nat, cmd : Commands \cup {"log", "data_read", "cut"}, val : Results]

Sent == {"posting", "posted", "waiting", "signalled"}

\* What the argument needs of types; open_list and the message queue may hold
\* anything.
Typed ==
  /\ call \in [Callers -> CallState]
  /\ \A c \in Callers : call[c].pc \in Sent \cup {"checked"} => call[c].cmd \in Commands
  /\ seq \in Nat
  /\ toServer \in Seq(RequestSet)
  /\ toClient \in Seq(AnswerSet)
  /\ srv \in ServerState
  /\ uids \subseteq Uids
  /\ rcv = [pc |-> rcv.pc, seq |-> rcv.seq, cmd |-> rcv.cmd, val |-> rcv.val, pos |-> rcv.pos]
  /\ rcv.seq \in Nat /\ rcv.val \in Results
  /\ polled \subseteq Uids
  /\ reader = [pc |-> reader.pc, uid |-> reader.uid]
  /\ reader.uid \in Uids \cup {0}

\* A client that has lost the connection is right about it.
LossKnown == disconnected \/ ~sock \/ rcv.pc = "walk" => ~up

\* Every call that passed its first check has a sequence number left.
Checked == {c \in Callers : call[c].pc = "checked"}
NumbersLeft == seq + Cardinality(Checked) <= MaxCalls

\* Sequence numbers are given out once.
NumbersUsed ==
  /\ \A r \in asked : r.seq \in 1 .. seq
  /\ \A d \in done : d.seq \in 1 .. seq
  /\ \A c \in Callers : call[c].pc \in Sent => call[c].seq \in 1 .. seq
  /\ \A c, d \in Callers :
       call[c].pc \in Sent /\ call[d].pc \in Sent /\ call[c].seq = call[d].seq => c = d

\* Requests arrive in order, none was carried out yet.
RequestsFresh ==
  /\ \A i \in DOMAIN toServer : toServer[i] \in asked
  /\ \A i, j \in DOMAIN toServer : i < j => toServer[i].seq < toServer[j].seq
  /\ \A d \in done, i \in DOMAIN toServer : d.seq < toServer[i].seq

Result(n, v) == [seq |-> n, val |-> v]

\* What is answered was carried out, wherever the answer is: at the daemon, on
\* its way, with the receiver, or with the call it belongs to.
ServerTrue == srv.seq # 0 => Result(srv.seq, srv.val) \in done
StreamTrue ==
  \A i \in DOMAIN toClient :
    toClient[i].seq # 0 => Result(toClient[i].seq, toClient[i].val) \in done
MatchTrue == rcv.pc = "match" => Result(rcv.seq, rcv.val) \in done
SignalTrue ==
  rcv.pc = "signal" =>
    /\ rcv.pos \in 1 .. seq
    /\ \A c \in Callers : call[c].pc \in Sent /\ call[c].seq = rcv.pos =>
                            Result(rcv.pos, call[c].val) \in done
CallTrue ==
  \A c \in Callers : call[c].pc = "signalled" =>
    \/ Result(call[c].seq, call[c].val) \in done
    \/ ~up /\ call[c].val = ENODEV
AnswersTrue == ServerTrue /\ StreamTrue /\ MatchTrue /\ SignalTrue /\ CallTrue

\* A serving thread that waits for the rest of a request is at the first one.
StuckAt ==
  srv.pc = "stuck" =>
    \/ toServer = <<>> /\ ~up
    \/ toServer # <<>> /\ toServer[1].cmd = "setparms"

IInv ==
  /\ Typed
  /\ LossKnown
  /\ NumbersLeft
  /\ NumbersUsed
  /\ RequestsFresh
  /\ AnswersTrue
  /\ StuckAt

-----------------------------------------------------------------------------
(* Sequences.                                                               *)

LEMMA TailOf ==
  ASSUME NEW S, NEW q \in Seq(S), q # <<>>
  PROVE  /\ Tail(q) \in Seq(S)
         /\ 1 \in DOMAIN q /\ Head(q) = q[1] /\ Head(q) \in S
         /\ \A i \in DOMAIN Tail(q) :
              i \in Nat /\ i >= 1 /\ i + 1 \in DOMAIN q /\ Tail(q)[i] = q[i + 1]
  OBVIOUS

\* What the writer of a message finds in the stream afterwards.
LEMMA DeliverTo ==
  ASSUME NEW S, NEW q \in Seq(S), NEW m \in S
  PROVE  /\ Deliver(q, m) \in Seq(S)
         /\ \A i \in DOMAIN Deliver(q, m) :
              \/ i \in DOMAIN q /\ Deliver(q, m)[i] = q[i]
              \/ i = Len(q) + 1 /\ Deliver(q, m)[i] = m
         /\ DOMAIN q = 1 .. Len(q) /\ Len(q) \in Nat
  BY DEF Deliver

\* What arrives of a stream that broke.
LEMMA FrontOf ==
  ASSUME NEW S, NEW q \in Seq(S), NEW k \in 0 .. Len(q)
  PROVE  /\ SubSeq(q, 1, k) \in Seq(S)
         /\ \A i \in DOMAIN SubSeq(q, 1, k) :
              i \in DOMAIN q /\ SubSeq(q, 1, k)[i] = q[i]
  OBVIOUS

LEMMA Members ==
  ASSUME NEW S, NEW q \in Seq(S), NEW i \in DOMAIN q
  PROVE  q[i] \in S
  OBVIOUS



\* Which steps change what.
LEMMA WhoSteps ==
  ASSUME [Next]_vars
  PROVE  \/ UNCHANGED vars
         \/ UNCHANGED daemon /\ \E c \in Callers, cmd \in Commands, uid \in Uids \cup {0} :
                                 Begin(c, cmd, uid)
         \/ UNCHANGED daemon /\ \E c \in Callers : CallerStep(c)
         \/ UNCHANGED daemon /\ Receiver
         \/ UNCHANGED remote /\ Server
         \/ UNCHANGED remote /\ (Reader \/ Killed)
         \/ UNCHANGED <<remote, daemon>> /\ Break
  BY DEF Next, RemoteNext, DaemonNext

\* What a thread's record may become.
LEMMA CallRecords ==
  /\ \A v \in Returns : Returned(v) \in CallState
  /\ ENODEV \in Returns /\ Results \subseteq Returns
  /\ \A cmd : NotSent(cmd) \in Returns
  /\ \A cmd, v : v \in Returns => Reports(cmd, v) \in Returns
  /\ \A r \in CallState :
       /\ r.val \in Returns /\ r.seq \in Nat
       /\ \A q \in {"checked", "posting", "posted", "waiting", "signalled", "freeing"} :
            [r EXCEPT !.pc = q] \in CallState
       /\ \A v \in Returns : [r EXCEPT !.val = v] \in CallState
       /\ \A v \in Returns, cmd \in Commands, uid \in Uids \cup {0} :
            [r EXCEPT !.pc = "checked", !.cmd = cmd, !.uid = uid] \in CallState
       /\ \A n \in Nat : [r EXCEPT !.pc = "posting", !.seq = n, !.val = 0] \in CallState
       /\ \A v \in Returns : [r EXCEPT !.pc = "freeing", !.val = v] \in CallState
  /\ 0 \in Results /\ Failure \in Results
<1>1. \A v \in Returns : Returned(v) \in CallState
  BY DEF Returned, CallState
<1>2. ASSUME NEW r \in CallState
      PROVE  /\ r.val \in Returns /\ r.seq \in Nat
             /\ \A q \in {"checked", "posting", "posted", "waiting", "signalled", "freeing"} :
                  [r EXCEPT !.pc = q] \in CallState
             /\ \A v \in Returns : [r EXCEPT !.val = v] \in CallState
  BY DEF CallState
<1>3. ASSUME NEW r \in CallState
      PROVE  \A v \in Returns, cmd \in Commands, uid \in Uids \cup {0} :
               [r EXCEPT !.pc = "checked", !.cmd = cmd, !.uid = uid] \in CallState
  BY DEF CallState
<1>4. 0 \in Results /\ Failure \in Results /\ 0 \in Returns
  BY DEF Results, Returns
<1>5. ASSUME NEW r \in CallState
      PROVE  \A n \in Nat : [r EXCEPT !.pc = "posting", !.seq = n, !.val = 0] \in CallState
  BY <1>4 DEF CallState
<1>9. ASSUME NEW r \in CallState
      PROVE  \A v \in Returns : [r EXCEPT !.pc = "freeing", !.val = v] \in CallState
  BY DEF CallState
<1>6. ENODEV \in Returns /\ Results \subseteq Returns
  BY DEF Returns
<1>7. ASSUME NEW cmd
      PROVE  NotSent(cmd) \in Returns
  BY DEF NotSent, Results, Returns
<1>8. ASSUME NEW cmd, NEW v \in Returns
      PROVE  Reports(cmd, v) \in Returns
  <2>1. v < 0 \/ v >= 0
    BY LinkAssumption DEF Returns, Results, Failure, ENODEV, Prepared
  <2>2. {0, 1} \subseteq Returns
    BY DEF Results, Returns
  <2>3. CASE cmd \notin {"stats", "version"}
    BY <2>3 DEF Reports
  <2>4. CASE cmd = "stats"
    BY <2>2, <2>4 DEF Reports
  <2>5. CASE cmd = "version"
    BY <2>1, <2>2, <2>5 DEF Reports
  <2>. QED
    BY <2>3, <2>4, <2>5
<1> QED BY <1>1, <1>2, <1>3, <1>4, <1>5, <1>6, <1>7, <1>8, <1>9

\* A thread that was woken is done with its message, or about to free it.
LEMMA WakeLeaves ==
  ASSUME NEW c, c \in DOMAIN call, call[c] \in CallState, Wake(c)
  PROVE  call'[c].pc \in {"idle", "freeing"}
<1>. DEFINE r == [call[c] EXCEPT !.pc = "freeing", !.val = Reports(call[c].cmd, call[c].val)]
<1>1. r.pc = "freeing" /\ Returned(call[c].val).pc = "idle"
  BY DEF CallState, Returned
<1>2. call'[c] \in {r, Returned(call[c].val)}
  BY DEF Wake
<1>. HIDE DEF r
<1>. QED
  BY <1>1, <1>2

LEMMA CallTyped ==
  ASSUME Typed, [Next]_vars
  PROVE  call' \in [Callers -> CallState]
<1>0. seq \in Nat /\ seq + 1 \in Nat
  BY DEF Typed
<1> USE LinkAssumption, CallRecords DEF Typed
<1>1. ASSUME UNCHANGED remote \/ UNCHANGED vars
      PROVE  call' \in [Callers -> CallState]
  BY <1>1 DEF remote, vars
<1>2. ASSUME NEW c \in Callers, NEW r \in CallState, call' = [call EXCEPT ![c] = r]
      PROVE  call' \in [Callers -> CallState]
  BY <1>2
<1>3. ASSUME NEW c \in Callers, NEW cmd \in Commands, NEW uid \in Uids \cup {0}, Begin(c, cmd, uid)
      PROVE  call' \in [Callers -> CallState]
  <2>1. call[c] \in CallState
    OBVIOUS
  <2>2. [call[c] EXCEPT !.pc = "checked", !.cmd = cmd, !.uid = uid] \in CallState
    BY <2>1
  <2>3. Returned(ENODEV) \in CallState
    BY CallRecords
  <2>4. \/ call' = [call EXCEPT ![c] = Returned(ENODEV)]
        \/ call' = [call EXCEPT ![c] =
                      [call[c] EXCEPT !.pc = "checked", !.cmd = cmd, !.uid = uid]]
    BY <1>3 DEF Begin
  <2>. QED
    BY <1>2, <2>2, <2>3, <2>4
<1>4. ASSUME NEW c \in Callers, CallerStep(c)
      PROVE  call' \in [Callers -> CallState]
  <2>1. CASE Post(c)
    <3>2. [call[c] EXCEPT !.pc = "posting", !.seq = seq + 1, !.val = 0] \in CallState
      BY <1>0
    <3>. QED
      BY <1>2, <2>1, <3>2 DEF Post
  <2>2. CASE PostFails(c)
    <3>1. Returned(NotSent(call[c].cmd)) \in CallState
      BY CallRecords
    <3>. QED
      BY <1>2, <2>2, <3>1 DEF PostFails
  <2>3. CASE Enqueue(c) \/ Wait(c)
    <3>1. PICK q \in {"posted", "waiting"} : call' = [call EXCEPT ![c] = [call[c] EXCEPT !.pc = q]]
      BY <2>3 DEF Enqueue, Wait
    <3>2. [call[c] EXCEPT !.pc = q] \in CallState
      OBVIOUS
    <3>. QED
      BY <1>2, <3>1, <3>2
  <2>4. CASE Wake(c)
    <3>1. call[c] \in CallState
      OBVIOUS
    <3>. DEFINE v == Reports(call[c].cmd, call[c].val)
    <3>2. Returned(call[c].val) \in CallState /\ v \in Returns
      BY <3>1
    <3> HIDE DEF v
    <3>3. [call[c] EXCEPT !.pc = "freeing", !.val = v] \in CallState
      BY <3>1, <3>2
    <3> USE DEF v
    <3>4. \/ call' = [call EXCEPT ![c] = Returned(call[c].val)]
          \/ call' = [call EXCEPT ![c] = [call[c] EXCEPT !.pc = "freeing", !.val = v]]
      BY <2>4 DEF Wake
    <3>. QED
      BY <1>2, <3>2, <3>3, <3>4
  <2>5. CASE FreeMsg(c)
    <3>1. Returned(call[c].val) \in CallState
      OBVIOUS
    <3>. QED
      BY <1>2, <2>5, <3>1 DEF FreeMsg
  <2>. QED
    BY <1>4, <2>1, <2>2, <2>3, <2>4, <2>5 DEF CallerStep
<1>5. ASSUME Receiver
      PROVE  call' \in [Callers -> CallState]
  <2>1. CASE Match
    <3>1. PICK c \in Callers : call' = [call EXCEPT ![c] = [call[c] EXCEPT !.val = rcv.val]]
      BY <2>1 DEF Match
    <3>2. rcv.val \in Returns /\ call[c] \in CallState
      OBVIOUS
    <3>3. [call[c] EXCEPT !.val = rcv.val] \in CallState
      BY <3>2
    <3>. QED
      BY <1>2, <3>1, <3>3
  <2>2. \A n : \A c \in Callers : Signalled(n)[c] \in CallState
    BY DEF Signalled
  <2>3. CASE Signal
    BY <2>2, <2>3 DEF Signal, Signalled
  <2>4. CASE WalkMsgs
    <3>1. \A c \in Callers : Told(Signalled(rcv.pos)[c]) \in CallState
      BY <2>2, CallRecords DEF Told
    <3>. QED
      BY <2>4, <3>1 DEF WalkMsgs
  <2>. QED
    BY <1>5, <2>1, <2>3, <2>4 DEF Receiver, Receive, WalkOpenList, RecvFails, CloseSocket
<1>. QED
  BY <1>1, <1>3, <1>4, <1>5, WhoSteps

LEMMA ToServerTyped ==
  ASSUME Typed, [Next]_vars
  PROVE  toServer' \in Seq(RequestSet) /\ seq' \in Nat /\ seq' >= seq
<1> USE LinkAssumption DEF Typed
<1>1. CASE UNCHANGED <<toServer, seq>>
  BY <1>1
<1>2. ASSUME NEW c \in Callers, Post(c)
      PROVE  toServer' \in Seq(RequestSet) /\ seq' \in Nat /\ seq' >= seq
  <2>1. seq + 1 \in Nat /\ seq + 1 >= seq
    OBVIOUS
  <2>2. call[c].cmd \in Commands \cup {"none"} /\ call[c].uid \in Uids \cup {0}
    BY DEF CallState
  <2>3. call[c].cmd \in Commands
    BY <1>2 DEF Post
  <2>4. Request(seq + 1, call[c].cmd, call[c].uid) \in RequestSet
    BY <2>1, <2>2, <2>3 DEF Request, RequestSet
  <2>. QED
    BY <1>2, <2>1, <2>4, DeliverTo DEF Post
<1>3. ASSUME NEW c \in Callers, PostFails(c)
      PROVE  UNCHANGED toServer /\ seq' = seq + 1
  BY <1>3 DEF PostFails, link
<1>4. ASSUME NEW cmd, Take(cmd)
      PROVE  toServer' \in Seq(RequestSet)
  BY <1>4, TailOf DEF Take
<1>5. ASSUME UNCHANGED remote, Server
      PROVE  toServer' \in Seq(RequestSet) /\ UNCHANGED seq
  <2>1. CASE ServeOther \/ ServeUnknown \/ OpenFails \/ OpenDevice \/ CloseDevice
    BY <1>4, <1>5, <2>1
       DEF ServeOther, Misread, ServeLate, ServeUnknown, OpenFails, OpenDevice, Unlocks, UnlockAndInsert, UnlockAgain, CloseDevice, remote
  <2>2. CASE LockAnswer \/ SendAnswer \/ Hangup \/ Misread \/ UnlockAndInsert \/ UnlockAgain
    BY <1>5, <2>2 DEF LockAnswer, SendAnswer, Hangup, Misread, UnlockAndInsert, UnlockAgain,
                      Unlocks, remote, link
  <2>3. CASE ServeLate
    BY <1>5, <2>3 DEF ServeLate, remote
  <2>. QED
    BY <1>5, <2>1, <2>2, <2>3 DEF Server
<1>6. ASSUME UNCHANGED <<remote, daemon>>, Break
      PROVE  toServer' \in Seq(RequestSet) /\ UNCHANGED seq
  BY <1>6, FrontOf DEF Break, remote
<1>7. ASSUME NEW c \in Callers, CallerStep(c)
      PROVE  toServer' \in Seq(RequestSet) /\ seq' \in Nat /\ seq' >= seq
  <2>1. CASE Enqueue(c) \/ Wait(c) \/ Wake(c) \/ FreeMsg(c)
    BY <1>1, <2>1 DEF Enqueue, Wait, Wake, FreeMsg, link
  <2>. QED
    BY <1>2, <1>3, <1>7, <2>1 DEF CallerStep
<1>8. ASSUME NEW c \in Callers, NEW cmd, NEW uid, Begin(c, cmd, uid)
      PROVE  UNCHANGED <<toServer, seq>>
  BY <1>8 DEF Begin, link
<1>9. ASSUME Receiver
      PROVE  UNCHANGED <<toServer, seq>>
  BY <1>9 DEF Receiver, Receive, WalkOpenList, Match, Signal, RecvFails, WalkMsgs, CloseSocket, link
<1>10. ASSUME UNCHANGED remote, Reader \/ Killed
       PROVE  UNCHANGED <<toServer, seq>>
  BY <1>10 DEF Reader, Killed, ReaderEnds, ReaderGone, ReaderReads, ReaderLocks, ReaderSends, ReaderDies, link, remote
<1>11. UNCHANGED vars => UNCHANGED <<toServer, seq>>
  BY DEF vars, remote, link
<1>. QED
  BY <1>1, <1>5, <1>6, <1>7, <1>8, <1>9, <1>10, <1>11, WhoSteps

LEMMA CheckedTyped ==
  ASSUME Typed, [Next]_vars
  PROVE  \A d \in Callers : call'[d].pc \in Sent \cup {"checked"} => call'[d].cmd \in Commands
<1> SUFFICES ASSUME NEW d \in Callers, call'[d].pc \in Sent \cup {"checked"}
             PROVE  call'[d].cmd \in Commands
  OBVIOUS
<1>. DEFINE Same == call'[d].cmd = call[d].cmd /\ call[d].pc \in Sent \cup {"checked"}
<1> USE DEF Sent
<1>1. Same => call'[d].cmd \in Commands
  BY DEF Typed
<1>2. DOMAIN call = Callers /\ call[d] \in CallState
  BY DEF Typed
<1>3. UNCHANGED call => Same
  OBVIOUS
<1>4. UNCHANGED vars \/ UNCHANGED remote => UNCHANGED call
  BY DEF vars, remote
<1>5. ASSUME NEW c \in Callers, NEW cmd \in Commands, NEW uid, Begin(c, cmd, uid)
      PROVE  call'[d].cmd \in Commands
  <2>1. CASE c = d
    BY <1>2, <1>5, <2>1 DEF Begin, CallState, Returned
  <2>2. CASE c # d
    BY <1>1, <1>2, <1>5, <2>2 DEF Begin
  <2>. QED
    BY <2>1, <2>2
<1>6. ASSUME NEW c \in Callers, CallerStep(c)
      PROVE  Same
  <2>1. CASE c = d
    <3> USE DEF CallState, Returned
    <3>1. Post(d) => Same
      BY <1>2 DEF Post
    <3>2. PostFails(d) \/ FreeMsg(d) => call'[d].pc = "idle"
      BY <1>2 DEF PostFails, FreeMsg
    <3>3. Enqueue(d) \/ Wait(d) => Same
      BY <1>2 DEF Enqueue, Wait
    <3>4. Wake(d) => call'[d].pc \in {"idle", "freeing"}
      BY <1>2, WakeLeaves
    <3>. QED
      BY <1>6, <2>1, <3>1, <3>2, <3>3, <3>4 DEF CallerStep
  <2>2. CASE c # d
    BY <1>2, <1>6, <2>2 DEF CallerStep, Post, PostFails, Enqueue, Wait, Wake, FreeMsg
  <2>. QED
    BY <2>1, <2>2
<1>7. ASSUME Receiver
      PROVE  Same
  <2>1. CASE Match
    BY <1>2, <2>1 DEF Match, CallState
  <2>2. CASE Signal
    BY <1>2, <2>2 DEF Signal, Signalled, CallState
  <2>3. CASE WalkMsgs
    <3>1. call'[d] \in {call[d], Signalled(rcv.pos)[d], Told(Signalled(rcv.pos)[d])}
      BY <2>3 DEF WalkMsgs
    <3>2. Signalled(rcv.pos)[d] \in {call[d], [call[d] EXCEPT !.pc = "signalled"]}
      BY DEF Signalled
    <3>3. call[d].pc = "waiting" \/ Signalled(rcv.pos)[d] = call[d]
      BY DEF Signalled
    <3>. QED
      BY <1>2, <3>1, <3>2, <3>3 DEF Told, CallState
  <2>. QED
    BY <1>3, <1>7, <2>1, <2>2, <2>3 DEF Receiver, Receive, WalkOpenList, RecvFails, CloseSocket
<1> HIDE DEF Same
<1>. QED
  BY <1>1, <1>3, <1>4, <1>5, <1>6, <1>7, WhoSteps

LEMMA ReceiverTyped ==
  ASSUME Typed, [Next]_vars
  PROVE  /\ rcv' = [pc |-> rcv'.pc, seq |-> rcv'.seq, cmd |-> rcv'.cmd, val |-> rcv'.val, pos |-> rcv'.pos]
         /\ rcv'.seq \in Nat /\ rcv'.val \in Results
<1>. DEFINE Ok(r) == /\ r = [pc |-> r.pc, seq |-> r.seq, cmd |-> r.cmd, val |-> r.val, pos |-> r.pos]
                     /\ r.seq \in Nat /\ r.val \in Results
<1>1. Ok(rcv) /\ Ok(Receiving)
  BY DEF Typed, Receiving, Results
<1>2. UNCHANGED rcv => Ok(rcv')
  BY <1>1
<1>3. ASSUME Receiver
      PROVE  Ok(rcv')
  <2>1. CASE Receive
    <3>1. Head(toClient) \in AnswerSet
      BY <2>1, TailOf DEF Typed, Receive
    <3>. DEFINE m == Head(toClient)
    <3>2. m.seq \in Nat /\ m.val \in Results
      BY <3>1 DEF AnswerSet
    <3>3. Ok(Lost)
      BY <1>1 DEF Lost, Receiving
    <3>4. \/ rcv' = Lost \/ rcv' = Receiving
          \/ rcv' = [pc |-> "match", seq |-> m.seq, cmd |-> m.cmd, val |-> m.val, pos |-> 0]
          \/ rcv' = [pc |-> "data", seq |-> 0, cmd |-> m.cmd, val |-> m.val, pos |-> FirstOf(openList)]
      BY <2>1 DEF Receive
    <3>. QED
      BY <1>1, <3>2, <3>3, <3>4
  <2>2. CASE WalkOpenList
    BY <1>1, <2>2 DEF WalkOpenList
  <2>3. CASE Match \/ RecvFails
    BY <1>1, <2>3 DEF Match, RecvFails
  <2>4. CASE Signal \/ WalkMsgs \/ CloseSocket
    BY <1>1, <2>4 DEF Signal, WalkMsgs, CloseSocket
  <2>. QED
    BY <1>3, <2>1, <2>2, <2>3, <2>4 DEF Receiver
<1>4. ASSUME NEW c, CallerStep(c)
      PROVE  UNCHANGED rcv
  BY <1>4 DEF CallerStep, Post, PostFails, Enqueue, Wait, Wake, FreeMsg
<1>5. UNCHANGED vars \/ UNCHANGED remote => UNCHANGED rcv
  BY DEF vars, remote
<1>6. Ok(rcv')
  BY <1>2, <1>3, <1>4, <1>5, WhoSteps DEF Begin
<1>. QED
  BY <1>6

LEMMA ToClientTyped ==
  ASSUME Typed, [Next]_vars
  PROVE  toClient' \in Seq(AnswerSet)
<1>1. CASE UNCHANGED toClient
  BY <1>1 DEF Typed
<1>2. ASSUME NEW m \in AnswerSet, toClient' = Deliver(toClient, m)
      PROVE  toClient' \in Seq(AnswerSet)
  BY <1>2, DeliverTo DEF Typed
<1>3. ASSUME NEW u \in Uids \cup {0}
      PROVE  Data(u) \in AnswerSet
  BY DEF Data, Answer, AnswerSet, Results
<1>4. Log \in AnswerSet /\ Cut \in AnswerSet
  BY DEF Log, Cut, Answer, AnswerSet, Results
<1>5. ASSUME srv.seq # 0 => srv.seq \in Nat /\ srv.cmd \in Commands \cup {"log"} /\ srv.val \in Results
      PROVE  SendAnswer => toClient' \in Seq(AnswerSet)
  <2>1. srv.seq # 0 => Answer(srv.seq, srv.cmd, srv.val) \in AnswerSet
    BY <1>5 DEF Answer, AnswerSet
  <2>. QED
    BY <1>2, <1>4, <2>1 DEF SendAnswer
<1>6. CancelReader => toClient' \in Seq(AnswerSet)
  BY <1>1, <1>2, <1>3, <1>4 DEF CancelReader, Typed
<1>14. LockAnswer \/ ReaderLocks => toClient' \in Seq(AnswerSet)
  BY <1>1, <1>2, <1>4 DEF LockAnswer, ReaderLocks, SendLength
<1>7. Reader \/ Killed => toClient' \in Seq(AnswerSet)
  <2>1. ReaderSends => toClient' \in Seq(AnswerSet)
    BY <1>2, <1>3 DEF ReaderSends, Typed
  <2>. QED
    BY <1>1, <1>14, <2>1 DEF Reader, Killed, ReaderEnds, ReaderGone, ReaderReads, ReaderDies, link
<1>8. Server => toClient' \in Seq(AnswerSet)
  <2>1. srv.seq \in Nat /\ srv.cmd \in Commands \cup {"log"} /\ srv.val \in Results
    BY DEF Typed, ServerState
  <2>2. SendAnswer => toClient' \in Seq(AnswerSet)
    BY <1>5, <2>1
  <2>3. CloseDevice \/ Hangup => toClient' \in Seq(AnswerSet)
    BY <1>1, <1>6 DEF CloseDevice, Hangup
  <2>. QED
    BY <1>1, <1>14, <2>2, <2>3
       DEF Server, ServeOther, Misread, ServeLate, ServeUnknown, OpenFails, OpenDevice, Unlocks,
           UnlockAndInsert, UnlockAgain, link
<1>9. Receiver => toClient' \in Seq(AnswerSet)
  <2>1. Receive => toClient' \in Seq(AnswerSet)
    BY TailOf DEF Typed, Receive
  <2>. QED
    BY <1>1, <2>1 DEF Receiver, WalkOpenList, Match, Signal, RecvFails, WalkMsgs, CloseSocket, link
<1>10. Break => toClient' \in Seq(AnswerSet)
  BY FrontOf DEF Break, Typed
<1>11. ASSUME NEW c, CallerStep(c)
       PROVE  UNCHANGED toClient
  BY <1>11 DEF CallerStep, Post, PostFails, Enqueue, Wait, Wake, FreeMsg, link
<1>12. ASSUME NEW c, NEW cmd, NEW uid, Begin(c, cmd, uid)
       PROVE  UNCHANGED toClient
  BY <1>12 DEF Begin, link
<1>13. UNCHANGED vars => UNCHANGED toClient
  BY DEF vars, link
<1>. QED
  BY <1>1, <1>7, <1>8, <1>9, <1>10, <1>11, <1>12, <1>13, WhoSteps

LEMMA ServerTyped ==
  ASSUME Typed, [Next]_vars
  PROVE  srv' \in ServerState /\ uids' \subseteq Uids
<1>1. srv \in ServerState /\ Serving \in ServerState /\ uids \subseteq Uids
  BY DEF Typed, Serving, ServerState, Results
<1>2. ASSUME NEW cmd \in Commands, NEW v \in Results, Take(cmd), AnswerWith(v)
      PROVE  srv' \in ServerState
  <2>1. Head(toServer) \in RequestSet
    BY <1>2, TailOf DEF Take, Typed
  <2>. QED
    BY <1>2, <2>1 DEF Take, AnswerWith, RequestSet, ServerState
<1>3. {"get", "version", "stats", "open", "close", "setparms", "filter"} \subseteq Commands
      /\ 0 \in Results /\ Failure \in Results /\ Uids \subseteq Results
  BY DEF Commands, Results
<1>4. ServeOther \/ OpenFails \/ OpenDevice \/ CloseDevice => srv' \in ServerState
  <2>1. ServeOther => srv' \in ServerState
    BY <1>2, <1>3 DEF ServeOther
  <2>2. OpenFails => srv' \in ServerState
    BY <1>2, <1>3 DEF OpenFails
  <2>3. OpenDevice => srv' \in ServerState
    <3>2. Take("open") => Head(toServer) \in RequestSet
      BY TailOf DEF Take, Typed
    <3>1. Take("open") => Head(toServer).seq \in Nat
      BY <3>2 DEF RequestSet
    <3>. QED
      BY <1>3, <3>1 DEF OpenDevice, ServerState
  <2>4. CloseDevice => srv' \in ServerState
    BY <1>2, <1>3 DEF CloseDevice
  <2>. QED
    BY <2>1, <2>2, <2>3, <2>4
<1>5. ServeUnknown \/ SendAnswer => srv' \in ServerState
  BY <1>1 DEF ServeUnknown, SendAnswer, ServerState
<1>6. LockAnswer \/ Hangup \/ Killed \/ Misread => srv' \in ServerState
  BY <1>1 DEF LockAnswer, Hangup, Killed, Misread, ServerState
<1>11. UnlockAndInsert \/ UnlockAgain => srv' \in ServerState
  BY <1>1 DEF UnlockAndInsert, UnlockAgain, Unlocks, ServerState
<1>12. ServeLate => srv' \in ServerState
  <2>1. ServeLate => Head(toServer) \in RequestSet
    BY TailOf DEF ServeLate, Typed
  <2>. QED
    BY <1>3, <2>1 DEF ServeLate, AnswerWith, RequestSet, ServerState
<1>7. Server \/ Killed => srv' \in ServerState
  BY <1>4, <1>5, <1>6, <1>11, <1>12 DEF Server
<1>8. Server \/ Killed => uids' \subseteq Uids
  BY <1>1 DEF Server, Killed, ServeOther, Misread, ServeLate, ServeUnknown, OpenFails, OpenDevice, Unlocks, UnlockAndInsert, UnlockAgain, CloseDevice,
              LockAnswer, SendLength, SendAnswer, Hangup
<1>9. Reader => UNCHANGED <<srv, uids>>
  BY DEF Reader, ReaderEnds, ReaderGone, ReaderReads, ReaderLocks, ReaderSends, ReaderDies
<1>10. UNCHANGED vars \/ UNCHANGED daemon => UNCHANGED <<srv, uids>>
  BY DEF vars, daemon
<1>. QED
  BY <1>1, <1>7, <1>8, <1>9, <1>10, WhoSteps

LEMMA ReaderTyped ==
  ASSUME Typed, [Next]_vars
  PROVE  /\ polled' \subseteq Uids
         /\ reader' = [pc |-> reader'.pc, uid |-> reader'.uid]
         /\ reader'.uid \in Uids \cup {0}
<1>. DEFINE Ok(r) == r = [pc |-> r.pc, uid |-> r.uid] /\ r.uid \in Uids \cup {0}
<1>1. Ok(reader) /\ Ok(Off) /\ Ok(Polling) /\ polled \subseteq Uids
  BY DEF Typed, Off, Polling
<1>2. CancelReader => Ok(reader')
  BY <1>1 DEF CancelReader
<1>3. Server \/ Killed => Ok(reader')
  BY <1>1, <1>2 DEF Server, Killed, ServeOther, Misread, ServeLate, ServeUnknown, OpenFails, OpenDevice, Unlocks, UnlockAndInsert, UnlockAgain, CloseDevice,
                    LockAnswer, SendLength, SendAnswer, Hangup
<1>4. Server \/ Killed => polled' \subseteq Uids
  BY <1>1 DEF Server, Killed, ServeOther, Misread, ServeLate, ServeUnknown, OpenFails, OpenDevice, Unlocks, UnlockAndInsert, UnlockAgain, CloseDevice,
              LockAnswer, SendLength, SendAnswer, Hangup
<1>5. Reader => Ok(reader')
  BY <1>1 DEF Reader, ReaderEnds, ReaderGone, ReaderReads, ReaderLocks, ReaderSends, ReaderDies
<1>6. Reader => UNCHANGED polled
  BY DEF Reader, ReaderEnds, ReaderGone, ReaderReads, ReaderLocks, ReaderSends, ReaderDies
<1>7. UNCHANGED vars \/ UNCHANGED daemon => UNCHANGED <<reader, polled>>
  BY DEF vars, daemon
<1>8. Ok(reader') /\ polled' \subseteq Uids
  BY <1>1, <1>3, <1>4, <1>5, <1>6, <1>7, WhoSteps
<1>. QED
  BY <1>8

LEMMA TypedStep ==
  ASSUME Typed, [Next]_vars
  PROVE  Typed'
BY CallTyped, CheckedTyped, ToServerTyped, ToClientTyped, ServerTyped, ReceiverTyped, ReaderTyped
   DEF Typed

-----------------------------------------------------------------------------
(* What a loss is known by.                                                 *)

LEMMA LossStep ==
  ASSUME Typed, LossKnown, [Next]_vars
  PROVE  LossKnown'
<1> USE DEF LossKnown
<1>1. CASE UNCHANGED <<disconnected, sock, rcv, up>>
  BY <1>1
<1>2. CASE Receiver
  <2>1. CASE Receive
    BY <2>1 DEF Receive, Receiving, Lost
  <2>2. CASE WalkOpenList \/ Signal
    BY <2>2 DEF WalkOpenList, Signal, Receiving, link, Typed
  <2>3. CASE Match
    BY <2>3 DEF Match, link, Typed
  <2>4. CASE RecvFails \/ WalkMsgs \/ CloseSocket
    BY <2>4 DEF RecvFails, WalkMsgs, CloseSocket, link, Typed
  <2>. QED
    BY <1>2, <2>1, <2>2, <2>3, <2>4 DEF Receiver
<1>3. CASE UNCHANGED remote /\ Break
  BY <1>3 DEF Break, remote
<1>4. ASSUME NEW c, CallerStep(c)
      PROVE  UNCHANGED <<disconnected, sock, rcv, up>>
  BY <1>4 DEF CallerStep, Post, PostFails, Enqueue, Wait, Wake, FreeMsg, link
<1>5. ASSUME NEW c, NEW cmd, NEW uid, Begin(c, cmd, uid)
      PROVE  UNCHANGED <<disconnected, sock, rcv, up>>
  BY <1>5 DEF Begin, link
<1>6. Server \/ Reader \/ Killed => UNCHANGED up
  BY DEF Server, ServeOther, Misread, ServeLate, ServeUnknown, OpenFails, OpenDevice, Unlocks, UnlockAndInsert, UnlockAgain, CloseDevice, LockAnswer, SendLength,
         SendAnswer, Hangup, Reader, ReaderEnds, ReaderGone, ReaderReads, ReaderLocks, ReaderSends,
         ReaderDies, Killed, Take, link
<1>7. UNCHANGED remote => UNCHANGED <<disconnected, sock, rcv>>
  BY DEF remote
<1>8. UNCHANGED vars => UNCHANGED <<disconnected, sock, rcv, up>>
  BY DEF vars, remote, link
<1>9. UNCHANGED <<remote, daemon>> => UNCHANGED remote
  OBVIOUS
<1>. QED
  BY <1>1, <1>2, <1>3, <1>4, <1>5, <1>6, <1>7, <1>8, <1>9, WhoSteps

-----------------------------------------------------------------------------
(* Sequence numbers.                                                        *)

LEMMA CheckedFinite ==
  IsFiniteSet(Checked) /\ Cardinality(Checked) \in Nat
<1>1. Checked \subseteq Callers
  BY DEF Checked
<1>2. IsFiniteSet(Checked)
  BY <1>1, RemoteAssumption, FS_Subset
<1>. QED
  BY <1>2, FS_CardinalityType

\* Only a thread that begins a call adds to the checked ones, and only one that
\* gets its sequence number leaves them.
LEMMA CheckedStep ==
  ASSUME Typed, [Next]_vars
  PROVE  \/ Checked' = Checked /\ UNCHANGED seq
         \/ /\ \E c \in Callers : Checked' = Checked \cup {c}
            /\ seq + Cardinality(Checked) < MaxCalls
            /\ UNCHANGED seq
         \/ /\ \E c \in Checked : Checked' = Checked \ {c}
            /\ seq' = seq + 1
<1>1. DOMAIN call = Callers /\ DOMAIN call' = Callers /\ \A c \in Callers : call[c] \in CallState
  BY CallTyped DEF Typed
<1>2. UNCHANGED call /\ UNCHANGED seq => Checked' = Checked /\ UNCHANGED seq
  BY DEF Checked
<1>3. ASSUME NEW c \in Callers, NEW cmd \in Commands, NEW uid, Begin(c, cmd, uid)
      PROVE  /\ Checked' = Checked \/ Checked' = Checked \cup {c}
             /\ seq + Cardinality(Checked) < MaxCalls
             /\ UNCHANGED seq
  <2>1. \A d \in Callers : d # c => call'[d] = call[d]
    BY <1>1, <1>3 DEF Begin
  <2>2. call[c].pc # "checked"
    BY <1>3 DEF Begin
  <2>3. Checked' = Checked \/ Checked' = Checked \cup {c}
    BY <1>1, <2>1, <2>2 DEF Checked
  <2>4. seq + Cardinality(Checked) < MaxCalls /\ UNCHANGED seq
    BY <1>3 DEF Begin, Checked
  <2>. QED
    BY <2>3, <2>4
<1>4. ASSUME NEW c \in Callers, Post(c) \/ PostFails(c)
      PROVE  c \in Checked /\ Checked' = Checked \ {c} /\ seq' = seq + 1
  <2>1. \A d \in Callers : d # c => call'[d] = call[d]
    BY <1>1, <1>4 DEF Post, PostFails
  <2>2. call[c].pc = "checked" /\ call'[c].pc # "checked"
    <3>1. Post(c) => call[c].pc = "checked" /\ call'[c].pc # "checked"
      BY <1>1 DEF Post, CallState
    <3>2. PostFails(c) => call[c].pc = "checked" /\ call'[c].pc # "checked"
      BY <1>1 DEF PostFails, Returned
    <3>. QED
      BY <1>4, <3>1, <3>2
  <2>3. seq' = seq + 1
    BY <1>4 DEF Post, PostFails
  <2>. QED
    BY <1>1, <2>1, <2>2, <2>3 DEF Checked
<1>5. ASSUME NEW c \in Callers, Enqueue(c) \/ Wait(c) \/ Wake(c) \/ FreeMsg(c)
      PROVE  Checked' = Checked /\ UNCHANGED seq
  <2>1. \A d \in Callers : d # c => call'[d] = call[d]
    BY <1>1, <1>5 DEF Enqueue, Wait, Wake, FreeMsg
  <2>2. call[c].pc # "checked"
    BY <1>5 DEF Enqueue, Wait, Wake, FreeMsg
  <2>3. call'[c].pc # "checked"
    <3>1. Enqueue(c) \/ Wait(c) => call'[c].pc # "checked"
      BY <1>1 DEF Enqueue, Wait, CallState
    <3>2. FreeMsg(c) => call'[c].pc # "checked"
      BY <1>1 DEF FreeMsg, Returned
    <3>3. Wake(c) => call'[c].pc # "checked"
      BY <1>1, WakeLeaves
    <3>. QED
      BY <1>5, <3>1, <3>2, <3>3
  <2>4. UNCHANGED seq
    BY <1>5 DEF Enqueue, Wait, Wake, FreeMsg
  <2>. QED
    BY <1>1, <2>1, <2>2, <2>3, <2>4 DEF Checked
<1>6. ASSUME Receiver
      PROVE  Checked' = Checked /\ UNCHANGED seq
  <2>1. UNCHANGED seq
    BY <1>6 DEF Receiver, Receive, WalkOpenList, Match, Signal, RecvFails, WalkMsgs, CloseSocket
  <2>2. \A c \in Callers : call'[c].pc = "checked" <=> call[c].pc = "checked"
    <3>1. CASE Match
      BY <1>1, <3>1 DEF Match, CallState
    <3>2. CASE Signal
      BY <1>1, <3>2 DEF Signal, Signalled, CallState
    <3>3. CASE WalkMsgs
      BY <1>1, <3>3 DEF WalkMsgs, Told, Signalled, CallState
    <3>. QED
      BY <1>6, <3>1, <3>2, <3>3 DEF Receiver, Receive, WalkOpenList, RecvFails, CloseSocket
  <2>. QED
    BY <2>1, <2>2 DEF Checked
<1>7. UNCHANGED vars \/ UNCHANGED remote => UNCHANGED call /\ UNCHANGED seq
  BY DEF vars, remote
<1>8. CASE \E c \in Callers : CallerStep(c)
  BY <1>4, <1>5, <1>8 DEF CallerStep
<1>. QED
  BY <1>2, <1>3, <1>6, <1>7, <1>8, WhoSteps

LEMMA NumbersLeftStep ==
  ASSUME Typed, NumbersLeft, [Next]_vars
  PROVE  NumbersLeft'
<1>1. IsFiniteSet(Checked) /\ Cardinality(Checked) \in Nat /\ seq \in Nat /\ MaxCalls \in Nat
  BY CheckedFinite, RemoteAssumption DEF Typed
<1>2. CASE Checked' = Checked /\ UNCHANGED seq
  BY <1>2 DEF NumbersLeft
<1>3. ASSUME NEW c \in Callers, Checked' = Checked \cup {c}, seq + Cardinality(Checked) < MaxCalls, UNCHANGED seq
      PROVE  NumbersLeft'
  <2>0. \/ Cardinality(Checked \cup {c}) = Cardinality(Checked)
        \/ Cardinality(Checked \cup {c}) = Cardinality(Checked) + 1
    BY <1>1, FS_AddElement
  <2>1. Cardinality(Checked \cup {c}) <= Cardinality(Checked) + 1
    BY <1>1, <2>0
  <2>2. Cardinality(Checked \cup {c}) \in Nat
    BY <1>1, FS_AddElement, FS_CardinalityType
  <2>3. Cardinality(Checked') = Cardinality(Checked \cup {c})
    BY <1>3
  <2>. QED
    BY <1>1, <1>3, <2>1, <2>2, <2>3 DEF NumbersLeft
<1>4. ASSUME NEW c \in Checked, Checked' = Checked \ {c}, seq' = seq + 1
      PROVE  NumbersLeft'
  <2>1. Cardinality(Checked \ {c}) = Cardinality(Checked) - 1
    BY <1>1, FS_RemoveElement
  <2>2. Cardinality(Checked') = Cardinality(Checked \ {c})
    BY <1>4
  <2>. QED
    BY <1>1, <1>4, <2>1, <2>2 DEF NumbersLeft
<1>. QED
  BY <1>2, <1>3, <1>4, CheckedStep

\* A request under way keeps its number; a new one gets the next.
LEMMA SentStep ==
  ASSUME Typed, [Next]_vars, NEW d \in Callers, call'[d].pc \in Sent
  PROVE  \/ /\ call[d].pc \in Sent /\ call'[d].seq = call[d].seq
            /\ call'[d].val = call[d].val \/ rcv.pc \in {"match", "walk"}
         \/ Post(d) /\ call'[d].seq = seq + 1
<1>. DEFINE Kept == /\ call[d].pc \in Sent /\ call'[d].seq = call[d].seq
                    /\ call'[d].val = call[d].val \/ rcv.pc \in {"match", "walk"}
<1>1. DOMAIN call = Callers /\ call[d] \in CallState
  BY DEF Typed
<1>2. UNCHANGED call => Kept
  OBVIOUS
<1>3. UNCHANGED vars \/ UNCHANGED remote => UNCHANGED call
  BY DEF vars, remote
<1>4. ASSUME NEW c \in Callers, NEW cmd, NEW uid, Begin(c, cmd, uid)
      PROVE  Kept
  <2>1. c # d
    BY <1>1, <1>4 DEF Begin, Returned, CallState, Sent
  <2>. QED
    BY <1>1, <1>4, <2>1 DEF Begin
<1>5. ASSUME NEW c \in Callers, CallerStep(c)
      PROVE  Kept \/ (Post(d) /\ call'[d].seq = seq + 1)
  <2>1. CASE c # d
    <3>1. call'[d] = call[d]
      BY <1>1, <1>5, <2>1 DEF CallerStep, Post, PostFails, Enqueue, Wait, Wake, FreeMsg
    <3>2. Kept
      BY <3>1
    <3>. QED
      BY <3>2
  <2>2. CASE c = d
    <3>1. Post(d) => call'[d].seq = seq + 1
      BY <1>1 DEF Post, CallState
    <3>2. Enqueue(d) \/ Wait(d) => Kept
      BY <1>1 DEF Enqueue, Wait, CallState, Sent
    <3>3. ~PostFails(d) /\ ~FreeMsg(d)
      BY <1>1 DEF PostFails, FreeMsg, Returned, Sent
    <3>4. ~Wake(d)
      BY <1>1, WakeLeaves DEF Sent
    <3>5. Post(d) \/ Enqueue(d) \/ Wait(d)
      BY <1>5, <2>2, <3>3, <3>4 DEF CallerStep
    <3> HIDE DEF Kept
    <3>. QED
      BY <3>1, <3>2, <3>5
  <2>. QED
    BY <2>1, <2>2
<1>6. ASSUME Receiver
      PROVE  Kept
  <2>1. CASE Match
    BY <1>1, <2>1 DEF Match, CallState
  <2>2. CASE Signal
    BY <1>1, <2>2 DEF Signal, Signalled, CallState, Sent
  <2>3. CASE WalkMsgs
    BY <1>1, <2>3 DEF WalkMsgs, Told, Signalled, CallState, Sent
  <2>. QED
    BY <1>2, <1>6, <2>1, <2>2, <2>3 DEF Receiver, Receive, WalkOpenList, RecvFails, CloseSocket
<1>. QED
  BY <1>2, <1>3, <1>4, <1>5, <1>6, WhoSteps

\* Requests are made by Post alone, and carried out from the front of the
\* stream.
CarriesOut(v) ==
  /\ srv.pc = "recv" \/ ~up
  /\ toServer # <<>>
  /\ toServer' \in {Tail(toServer), <<>>}
  /\ \/ done' = done \cup {Result(Head(toServer).seq, v)}
        /\ srv'.seq = Head(toServer).seq /\ srv'.val = v
     \/ UNCHANGED done /\ srv'.seq = 0

LEMMA HistoryStep ==
  ASSUME Typed, [Next]_vars
  PROVE  \/ UNCHANGED <<asked, toServer, done>>
         \/ \E c \in Callers : Post(c) /\ UNCHANGED <<daemon, toClient, rcv>>
         \/ UNCHANGED remote /\ \E v \in Results : CarriesOut(v)
         \/ UNCHANGED <<remote, daemon>> /\ Break
<1>1. ASSUME NEW c \in Callers, CallerStep(c), UNCHANGED daemon
      PROVE  \/ UNCHANGED <<asked, toServer, done>>
             \/ Post(c) /\ UNCHANGED <<daemon, toClient, rcv>>
  BY <1>1 DEF CallerStep, Post, PostFails, Enqueue, Wait, Wake, FreeMsg, link, daemon
<1>2. ASSUME NEW c, NEW cmd, NEW uid, Begin(c, cmd, uid), UNCHANGED daemon
      PROVE  UNCHANGED <<asked, toServer, done>>
  BY <1>2 DEF Begin, link, daemon
<1>3. Receiver /\ UNCHANGED daemon => UNCHANGED <<asked, toServer, done>>
  BY DEF Receiver, Receive, WalkOpenList, Match, Signal, RecvFails, WalkMsgs, CloseSocket, link, daemon
<1>4. UNCHANGED vars => UNCHANGED <<asked, toServer, done>>
  BY DEF vars, remote, daemon, link
<1>5. ASSUME NEW cmd, NEW v, Take(cmd), AnswerWith(v)
      PROVE  CarriesOut(v)
  BY <1>5 DEF Take, AnswerWith, CarriesOut, Result
<1>6. 0 \in Results /\ Failure \in Results /\ Uids \subseteq Results
  BY DEF Results
<1>7. ServeOther \/ OpenFails \/ CloseDevice => \E v \in Results : CarriesOut(v)
  BY <1>5, <1>6 DEF ServeOther, OpenFails, CloseDevice
<1>12. OpenDevice => \E v \in Results : CarriesOut(v)
  <2>1. ASSUME NEW u \in Uids, Take("open"),
               srv' = [pc |-> "opening", seq |-> Head(toServer).seq, cmd |-> "open", val |-> u],
               done' = done \cup {[seq |-> Head(toServer).seq, val |-> u]}
        PROVE  CarriesOut(u)
    BY <2>1 DEF Take, CarriesOut, Result
  <2>. QED
    BY <1>6, <2>1 DEF OpenDevice
<1>13. ServeLate => \E v \in Results : CarriesOut(v)
  BY <1>6 DEF ServeLate, AnswerWith, CarriesOut, Result
<1>8. ServeUnknown => CarriesOut(0)
  BY DEF ServeUnknown, Take, Serving, CarriesOut
<1>9. LockAnswer \/ SendAnswer \/ Hangup \/ Misread \/ UnlockAndInsert \/ UnlockAgain \/ Reader \/ Killed
        => UNCHANGED <<toServer, done>>
  BY DEF LockAnswer, SendAnswer, Hangup, Misread, UnlockAndInsert, UnlockAgain, Unlocks, Reader, Killed, ReaderEnds, ReaderGone, ReaderReads, ReaderLocks,
         ReaderSends, ReaderDies, link
<1>10. UNCHANGED remote => UNCHANGED asked
  BY DEF remote
<1>11. Server => UNCHANGED <<toServer, done>> \/ \E v \in Results : CarriesOut(v)
  BY <1>6, <1>7, <1>8, <1>9, <1>12, <1>13 DEF Server
<1>. QED
  BY <1>1, <1>2, <1>3, <1>4, <1>9, <1>10, <1>11, WhoSteps

LEMMA NumbersUsedStep ==
  ASSUME Typed, NumbersUsed, RequestsFresh, [Next]_vars
  PROVE  NumbersUsed'
<1>1. seq \in Nat /\ seq' \in Nat /\ seq' >= seq
  BY ToServerTyped DEF Typed
<1>2. 1 .. seq \subseteq 1 .. seq'
  BY <1>1
<1>3. \A c \in Callers : Post(c) => seq' = seq + 1 /\ seq + 1 \in 1 .. seq'
  BY <1>1 DEF Post
<1>4. \A r \in asked' : r.seq \in 1 .. seq'
  <2>1. ASSUME NEW c \in Callers, Post(c)
        PROVE  asked' = asked \cup {Request(seq + 1, call[c].cmd, call[c].uid)}
    BY <2>1 DEF Post
  <2>2. (\A c \in Callers : ~Post(c)) => asked' = asked
    BY HistoryStep DEF remote
  <2>. QED
    BY <1>2, <1>3, <2>1, <2>2 DEF NumbersUsed, Request
<1>5. \A d \in done' : d.seq \in 1 .. seq'
  <2>1. CASE UNCHANGED done
    BY <1>2, <2>1 DEF NumbersUsed
  <2>2. ASSUME NEW v, CarriesOut(v)
        PROVE  \A d \in done' : d.seq \in 1 .. seq'
    <3>1. Head(toServer).seq \in 1 .. seq
      BY <2>2, TailOf DEF CarriesOut, Typed, RequestsFresh, NumbersUsed
    <3>. QED
      BY <1>2, <2>2, <3>1 DEF NumbersUsed, CarriesOut, Result
  <2>. QED
    BY <2>1, <2>2, HistoryStep DEF daemon
<1>6. ASSUME NEW c \in Callers, call'[c].pc \in Sent
      PROVE  call'[c].seq \in 1 .. seq'
  BY <1>2, <1>3, <1>6, SentStep DEF NumbersUsed
<1>7. ASSUME NEW c \in Callers, NEW d \in Callers, call'[c].pc \in Sent, call'[d].pc \in Sent,
             call'[c].seq = call'[d].seq
      PROVE  c = d
  <2>1. seq + 1 \notin 1 .. seq
    BY <1>1
  <2>2. Post(c) /\ Post(d) => c = d
    <3>1. DOMAIN call = Callers /\ call[d] \in CallState
      BY DEF Typed
    <3>2. ASSUME Post(c), Post(d), c # d
          PROVE  FALSE
      <4>1. call'[d] = call[d]
        BY <3>1, <3>2 DEF Post
      <4>2. call[d].pc = "checked"
        BY <3>2 DEF Post
      <4>. QED
        BY <1>7, <4>1, <4>2 DEF Sent
    <3>. QED
      BY <3>2
  <2>. DEFINE From(e) == \/ call[e].pc \in Sent /\ call'[e].seq = call[e].seq
                         \/ Post(e) /\ call'[e].seq = seq + 1
  <2>0. \A e \in Callers : call'[e].pc \in Sent => From(e)
    BY SentStep
  <2>3. From(c) /\ From(d)
    BY <1>7, <2>0
  <2>. QED
    BY <1>7, <2>1, <2>2, <2>3 DEF NumbersUsed
<1>. QED
  BY <1>4, <1>5, <1>6, <1>7 DEF NumbersUsed

-----------------------------------------------------------------------------
(* Requests on their way.                                                   *)

LEMMA RequestsFreshStep ==
  ASSUME Typed, NumbersUsed, RequestsFresh, [Next]_vars
  PROVE  RequestsFresh'
<1>1. seq \in Nat
  BY DEF Typed
<1>2. CASE UNCHANGED <<asked, toServer, done>>
  BY <1>2 DEF RequestsFresh
<1>3. ASSUME NEW c \in Callers, Post(c), UNCHANGED daemon
      PROVE  RequestsFresh'
  <2>. DEFINE m == Request(seq + 1, call[c].cmd, call[c].uid)
  <2>1. m \in RequestSet /\ m.seq = seq + 1
    BY <1>1, <1>3 DEF Post, Typed, Request, RequestSet, CallState
  <2>. HIDE DEF m
  <2>2. toServer' = Deliver(toServer, m) /\ asked' = asked \cup {m} /\ done' = done
    BY <1>3 DEF Post, daemon, m
  <2>3. \A i \in DOMAIN toServer' :
          \/ i \in DOMAIN toServer /\ toServer'[i] = toServer[i]
          \/ i = Len(toServer) + 1 /\ toServer'[i] = m
    BY <2>1, <2>2, DeliverTo DEF Typed
  <2>4. DOMAIN toServer = 1 .. Len(toServer) /\ Len(toServer) \in Nat
    BY DEF Typed
  <2>5. \A i \in DOMAIN toServer : toServer[i] \in asked /\ toServer[i].seq \in 1 .. seq
    BY DEF RequestsFresh, NumbersUsed
  <2>6. \A d \in done : d.seq \in 1 .. seq
    BY DEF NumbersUsed
  <2>7. \A i \in DOMAIN toServer' : toServer'[i] \in asked'
    BY <2>2, <2>3, <2>5
  <2>8. \A i, j \in DOMAIN toServer' : i < j => toServer'[i].seq < toServer'[j].seq
    BY <1>1, <2>1, <2>3, <2>4, <2>5 DEF RequestsFresh
  <2>9. \A d \in done', i \in DOMAIN toServer' : d.seq < toServer'[i].seq
    BY <1>1, <2>1, <2>2, <2>3, <2>6 DEF RequestsFresh
  <2>. QED
    BY <2>7, <2>8, <2>9 DEF RequestsFresh
<1>4. ASSUME NEW v, CarriesOut(v), UNCHANGED asked
      PROVE  RequestsFresh'
  <2>1. \A i \in DOMAIN toServer' :
          i \in Nat /\ i >= 1 /\ i + 1 \in DOMAIN toServer /\ toServer'[i] = toServer[i + 1]
    <3>1. CASE toServer' = <<>>
      BY <3>1
    <3>2. CASE toServer' # <<>>
      <4>1. toServer \in Seq(RequestSet) /\ toServer # <<>> /\ toServer' = Tail(toServer)
        BY <1>4, <3>2 DEF CarriesOut, Typed
      <4>. QED
        BY <4>1, TailOf
    <3>. QED
      BY <3>1, <3>2
  <2>2. 1 \in DOMAIN toServer /\ Head(toServer) = toServer[1]
    BY <1>4, TailOf DEF CarriesOut, Typed
  <2>3. \A i \in DOMAIN toServer' : toServer'[i] \in asked'
    BY <1>4, <2>1 DEF RequestsFresh
  <2>4. \A i, j \in DOMAIN toServer' : i < j => toServer'[i].seq < toServer'[j].seq
    BY <2>1 DEF RequestsFresh
  <2>5. \A i \in DOMAIN toServer' : Head(toServer).seq < toServer'[i].seq
    BY <2>1, <2>2 DEF RequestsFresh
  <2>6. \A d \in done' : d \in done \/ d.seq = Head(toServer).seq
    BY <1>4 DEF CarriesOut, Result
  <2>7. \A d \in done, i \in DOMAIN toServer' : d.seq < toServer'[i].seq
    BY <2>1 DEF RequestsFresh
  <2>8. \A d \in done', i \in DOMAIN toServer' : d.seq < toServer'[i].seq
    BY <2>5, <2>6, <2>7
  <2>. QED
    BY <2>3, <2>4, <2>8 DEF RequestsFresh
<1>5. ASSUME Break, UNCHANGED <<asked, done>>
      PROVE  RequestsFresh'
  <2>1. \A i \in DOMAIN toServer' : i \in DOMAIN toServer /\ toServer'[i] = toServer[i]
    BY <1>5, FrontOf DEF Break, Typed
  <2>. QED
    BY <1>5, <2>1 DEF RequestsFresh
<1>6. UNCHANGED remote => UNCHANGED asked
  BY DEF remote
<1>7. UNCHANGED <<remote, daemon>> => UNCHANGED <<asked, done>>
  BY DEF remote, daemon
<1>. QED
  BY <1>2, <1>3, <1>4, <1>5, <1>6, <1>7, HistoryStep

-----------------------------------------------------------------------------
(* Answers.                                                                 *)

LEMMA DoneGrows ==
  ASSUME Typed, [Next]_vars
  PROVE  done \subseteq done'
BY HistoryStep DEF CarriesOut, daemon

LEMMA StaysDown ==
  ASSUME [Next]_vars, ~up
  PROVE  ~up'
<1>1. ASSUME NEW c, CallerStep(c)
      PROVE  UNCHANGED up
  BY <1>1 DEF CallerStep, Post, PostFails, Enqueue, Wait, Wake, FreeMsg, link
<1>2. ASSUME NEW c, NEW cmd, NEW uid, Begin(c, cmd, uid)
      PROVE  UNCHANGED up
  BY <1>2 DEF Begin, link
<1>3. Server \/ Reader \/ Killed => UNCHANGED up
  BY DEF Server, ServeOther, Misread, ServeLate, ServeUnknown, OpenFails, OpenDevice, Unlocks, UnlockAndInsert, UnlockAgain, CloseDevice, LockAnswer, SendLength,
         SendAnswer, Hangup, Reader, ReaderEnds, ReaderGone, ReaderReads, ReaderLocks, ReaderSends,
         ReaderDies, Killed, Take, link
<1>4. Receiver => UNCHANGED up
  BY DEF Receiver, Receive, WalkOpenList, Match, Signal, RecvFails, WalkMsgs, CloseSocket, link
<1>5. ~Break
  BY DEF Break
<1>6. UNCHANGED vars => UNCHANGED up
  BY DEF vars, link
<1>. QED
  BY <1>1, <1>2, <1>3, <1>4, <1>5, <1>6, WhoSteps

LEMMA ServerTrueStep ==
  ASSUME Typed, ServerTrue, [Next]_vars
  PROVE  ServerTrue'
<1>1. done \subseteq done'
  BY DoneGrows
<1>. DEFINE Same == srv'.seq = srv.seq /\ srv'.val = srv.val
<1>2. Same \/ srv'.seq = 0 => ServerTrue'
  BY <1>1 DEF ServerTrue
<1>3. LockAnswer \/ Hangup \/ Killed \/ Misread \/ UnlockAndInsert \/ UnlockAgain => Same
  BY DEF LockAnswer, Hangup, Killed, Misread, UnlockAndInsert, UnlockAgain, Unlocks, Typed, ServerState
<1>4. ServeUnknown \/ SendAnswer => srv'.seq = 0
  BY DEF ServeUnknown, SendAnswer, Serving
<1>5. ASSUME NEW v, AnswerWith(v)
      PROVE  ServerTrue'
  BY <1>5 DEF AnswerWith, ServerTrue, Result
<1>6. ServeOther \/ ServeLate \/ OpenFails \/ CloseDevice => ServerTrue'
  BY <1>5 DEF ServeOther, ServeLate, OpenFails, CloseDevice
<1>8. OpenDevice => ServerTrue'
  BY DEF OpenDevice, ServerTrue, Result
<1>7. UNCHANGED vars \/ UNCHANGED daemon \/ Reader => Same
  BY DEF vars, daemon, Reader, ReaderEnds, ReaderGone, ReaderReads, ReaderLocks, ReaderSends, ReaderDies
<1> HIDE DEF Same
<1>. QED
  BY <1>2, <1>3, <1>4, <1>6, <1>7, <1>8, WhoSteps DEF Server

LEMMA StreamTrueStep ==
  ASSUME Typed, ServerTrue, StreamTrue, [Next]_vars
  PROVE  StreamTrue'
<1>1. done \subseteq done'
  BY DoneGrows
<1>2. CASE UNCHANGED toClient
  BY <1>1, <1>2 DEF StreamTrue
<1>3. ASSUME NEW m, toClient' = Deliver(toClient, m),
             m \in AnswerSet, m.seq # 0 => Result(m.seq, m.val) \in done
      PROVE  StreamTrue'
  <2>1. \A i \in DOMAIN toClient' :
          \/ toClient'[i] = m
          \/ i \in DOMAIN toClient /\ toClient'[i] = toClient[i]
    <3>1. toClient \in Seq(AnswerSet)
      BY DEF Typed
    <3>2. \A i \in DOMAIN Deliver(toClient, m) :
            \/ i \in DOMAIN toClient /\ Deliver(toClient, m)[i] = toClient[i]
            \/ i = Len(toClient) + 1 /\ Deliver(toClient, m)[i] = m
      BY <1>3, <3>1, DeliverTo
    <3>. QED
      BY <1>3, <3>2
  <2>. QED
    BY <1>1, <1>3, <2>1 DEF StreamTrue
<1>4. \A u \in Uids \cup {0} : Data(u) \in AnswerSet /\ Data(u).seq = 0
  BY DEF Data, Answer, AnswerSet, Results
<1>5. Log \in AnswerSet /\ Log.seq = 0 /\ Cut \in AnswerSet /\ Cut.seq = 0
  BY DEF Log, Cut, Answer, AnswerSet, Results
<1>6. CancelReader \/ ReaderSends \/ ReaderLocks \/ LockAnswer =>
        \/ UNCHANGED toClient
        \/ toClient' = Deliver(toClient, Data(reader.uid))
        \/ toClient' = Deliver(toClient, Cut)
  BY DEF CancelReader, ReaderSends, ReaderLocks, LockAnswer, SendLength
<1>7. reader.uid \in Uids \cup {0}
  BY DEF Typed
<1>8. CancelReader \/ ReaderSends \/ ReaderLocks \/ LockAnswer => StreamTrue'
  BY <1>2, <1>3, <1>4, <1>5, <1>6, <1>7
<1>9. SendAnswer => StreamTrue'
  <2>1. srv.seq # 0 => /\ Answer(srv.seq, srv.cmd, srv.val) \in AnswerSet
                       /\ Result(Answer(srv.seq, srv.cmd, srv.val).seq,
                                 Answer(srv.seq, srv.cmd, srv.val).val) \in done
    BY DEF Answer, AnswerSet, Typed, ServerState, ServerTrue
  <2>. QED
    BY <1>3, <1>5, <2>1 DEF SendAnswer
<1>10. Server => StreamTrue'
  BY <1>2, <1>8, <1>9 DEF Server, ServeOther, Misread, ServeLate, ServeUnknown, OpenFails, OpenDevice,
                          Unlocks, UnlockAndInsert, UnlockAgain, CloseDevice, Hangup, link
<1>11. Reader \/ Killed => StreamTrue'
  BY <1>2, <1>8 DEF Reader, Killed, ReaderEnds, ReaderGone, ReaderReads, ReaderDies, link
<1>12. Receiver => StreamTrue'
  <2>1. CASE Receive
    <3>1. \A i \in DOMAIN toClient' : i + 1 \in DOMAIN toClient /\ toClient'[i] = toClient[i + 1]
      BY <2>1, TailOf DEF Receive, Typed
    <3>. QED
      BY <1>1, <3>1 DEF StreamTrue
  <2>. QED
    BY <1>2, <2>1 DEF Receiver, WalkOpenList, Match, Signal, RecvFails, WalkMsgs, CloseSocket, link
<1>13. Break => StreamTrue'
  <2>1. ASSUME Break
        PROVE  \A i \in DOMAIN toClient' : i \in DOMAIN toClient /\ toClient'[i] = toClient[i]
    BY <2>1, FrontOf DEF Break, Typed
  <2>. QED
    BY <1>1, <2>1 DEF StreamTrue
<1>14. ASSUME NEW c, CallerStep(c)
       PROVE  UNCHANGED toClient
  BY <1>14 DEF CallerStep, Post, PostFails, Enqueue, Wait, Wake, FreeMsg, link
<1>15. ASSUME NEW c, NEW cmd, NEW uid, Begin(c, cmd, uid)
       PROVE  UNCHANGED toClient
  BY <1>15 DEF Begin, link
<1>16. UNCHANGED vars => UNCHANGED toClient
  BY DEF vars, link
<1>. QED
  BY <1>2, <1>10, <1>11, <1>12, <1>13, <1>14, <1>15, <1>16, WhoSteps

\* Only the receiver changes what it is at.
LEMMA ReceiverStep ==
  ASSUME Typed, [Next]_vars
  PROVE  Receiver \/ UNCHANGED rcv
<1>1. ASSUME NEW c, CallerStep(c)
      PROVE  UNCHANGED rcv
  BY <1>1 DEF CallerStep, Post, PostFails, Enqueue, Wait, Wake, FreeMsg
<1>2. UNCHANGED vars \/ UNCHANGED remote => UNCHANGED rcv
  BY DEF vars, remote
<1>. QED
  BY <1>1, <1>2, WhoSteps DEF Begin

LEMMA MatchTrueStep ==
  ASSUME Typed, StreamTrue, MatchTrue, [Next]_vars
  PROVE  MatchTrue'
<1>1. done \subseteq done'
  BY DoneGrows
<1>2. CASE UNCHANGED rcv
  BY <1>1, <1>2 DEF MatchTrue
<1>3. CASE Receive
  <2>1. Head(toClient) = toClient[1] /\ 1 \in DOMAIN toClient
    BY <1>3, TailOf DEF Receive, Typed
  <2>2. Head(toClient).seq # 0 => Result(Head(toClient).seq, Head(toClient).val) \in done
    BY <2>1 DEF StreamTrue
  <2>. QED
    BY <1>1, <1>3, <2>2 DEF Receive, Receiving, Lost, MatchTrue
<1>4. Receiver /\ ~Receive => rcv'.pc # "match"
  <2>1. WalkOpenList \/ Signal => rcv'.pc # "match"
    BY DEF WalkOpenList, Signal, Receiving, Typed
  <2>2. Match \/ RecvFails => rcv'.pc # "match"
    BY DEF Match, RecvFails, Typed
  <2>3. WalkMsgs \/ CloseSocket => rcv'.pc # "match"
    BY DEF WalkMsgs, CloseSocket, Typed
  <2>. QED
    BY <2>1, <2>2, <2>3 DEF Receiver
<1>. QED
  BY <1>2, <1>3, <1>4, ReceiverStep DEF MatchTrue

LEMMA SignalTrueStep ==
  ASSUME Typed, NumbersUsed, MatchTrue, SignalTrue, [Next]_vars
  PROVE  SignalTrue'
<1>1. done \subseteq done' /\ 1 .. seq \subseteq 1 .. seq' /\ seq \in Nat
  BY DoneGrows, ToServerTyped DEF Typed
<1>2. ASSUME rcv.pc = "signal", UNCHANGED rcv
      PROVE  SignalTrue'
  <2>1. rcv.pos \in 1 .. seq /\ rcv.pos # seq + 1
    BY <1>1, <1>2 DEF SignalTrue
  <2>2. ASSUME NEW c \in Callers, call'[c].pc \in Sent, call'[c].seq = rcv.pos
        PROVE  Result(rcv.pos, call'[c].val) \in done'
    <3>1. call[c].pc \in Sent /\ call'[c].seq = call[c].seq /\ call'[c].val = call[c].val
      BY <1>2, <2>1, <2>2, SentStep
    <3>2. Result(rcv.pos, call[c].val) \in done
      BY <1>2, <2>2, <3>1 DEF SignalTrue
    <3>. QED
      BY <1>1, <3>1, <3>2
  <2>. QED
    BY <1>1, <1>2, <2>1, <2>2 DEF SignalTrue
<1>3. ASSUME Match, UNCHANGED daemon
      PROVE  SignalTrue'
  <2>1. PICK e \in Callers :
          /\ e \in Owners(rcv.seq)
          /\ call' = [call EXCEPT ![e].val = rcv.val]
          /\ rcv' = [rcv EXCEPT !.pc = "signal", !.pos = rcv.seq]
    BY <1>3 DEF Match
  <2>2. rcv'.pos = rcv.seq /\ rcv.pc = "match"
    BY <1>3, <2>1 DEF Typed, Match
  <2>3. call[e].pc \in Sent /\ call[e].seq = rcv.seq
    BY <2>1 DEF Owners, Sent
  <2>4. rcv.seq \in 1 .. seq
    BY <2>3 DEF NumbersUsed
  <2>5. Result(rcv.seq, rcv.val) \in done
    BY <2>2 DEF MatchTrue
  <2>6. ASSUME NEW c \in Callers, call'[c].pc \in Sent, call'[c].seq = rcv.seq
        PROVE  Result(rcv.seq, call'[c].val) \in done'
    <3>1. call[c].pc \in Sent /\ call[c].seq = rcv.seq
      BY <2>1, <2>6 DEF Typed, CallState
    <3>2. c = e
      BY <2>3, <3>1 DEF NumbersUsed
    <3>3. call'[e].val = rcv.val
      BY <2>1 DEF Typed, CallState
    <3>. QED
      BY <1>1, <2>5, <3>2, <3>3
  <2>. QED
    BY <1>1, <2>2, <2>4, <2>6 DEF SignalTrue
<1>4. Receiver /\ ~Match => rcv'.pc # "signal"
  <2>1. WalkOpenList \/ Signal => rcv'.pc # "signal"
    BY DEF WalkOpenList, Signal, Receiving, Typed
  <2>2. Receive => rcv'.pc # "signal"
    BY DEF Receive, Receiving, Lost
  <2>4. RecvFails => rcv'.pc # "signal"
    BY DEF RecvFails, Typed
  <2>3. WalkMsgs \/ CloseSocket => rcv'.pc # "signal"
    BY DEF WalkMsgs, CloseSocket, Typed
  <2>. QED
    BY <2>1, <2>2, <2>3, <2>4 DEF Receiver
<1>5. rcv'.pc # "signal" => SignalTrue'
  BY DEF SignalTrue
<1>6. Match => rcv # rcv'
  BY DEF Match, Typed
<1>7. CASE UNCHANGED rcv
  BY <1>2, <1>5, <1>7
<1>8. CASE ~UNCHANGED rcv
  <2>1. Receiver /\ UNCHANGED daemon
    <3>1. ASSUME NEW c, CallerStep(c)
          PROVE  UNCHANGED rcv
      BY <3>1 DEF CallerStep, Post, PostFails, Enqueue, Wait, Wake, FreeMsg
    <3>2. UNCHANGED vars \/ UNCHANGED remote => UNCHANGED rcv
      BY DEF vars, remote
    <3>. QED
      BY <1>8, <3>1, <3>2, WhoSteps DEF Begin
  <2>. QED
    BY <1>3, <1>4, <1>5, <2>1
<1>. QED
  BY <1>7, <1>8

LEMMA CallTrueStep ==
  ASSUME Typed, LossKnown, MatchTrue, SignalTrue, CallTrue, [Next]_vars
  PROVE  CallTrue'
<1> SUFFICES ASSUME NEW d \in Callers, call'[d].pc = "signalled"
             PROVE  \/ Result(call'[d].seq, call'[d].val) \in done'
                    \/ ~up' /\ call'[d].val = ENODEV
  BY DEF CallTrue
<1>1. DOMAIN call = Callers /\ call[d] \in CallState
  BY DEF Typed
<1>2. done \subseteq done'
  BY DoneGrows
<1>3. CASE call'[d] = call[d]
  BY <1>2, <1>3, StaysDown DEF CallTrue
<1>4. ASSUME Match
      PROVE  \/ call'[d] = call[d]
             \/ Result(call'[d].seq, call'[d].val) \in done'
  <2>1. PICK e \in Callers :
          /\ e \in Owners(rcv.seq)
          /\ call' = [call EXCEPT ![e].val = rcv.val]
    BY <1>4 DEF Match
  <2>2. CASE d # e
    BY <1>1, <2>1, <2>2
  <2>3. CASE d = e
    <3>1. call'[d].seq = rcv.seq /\ call'[d].val = rcv.val
      BY <1>1, <2>1, <2>3 DEF Owners, CallState
    <3>2. Result(rcv.seq, rcv.val) \in done
      BY <1>4 DEF Match, MatchTrue
    <3>. QED
      BY <1>2, <3>1, <3>2
  <2>. QED
    BY <2>2, <2>3
<1>5. ASSUME Signal
      PROVE  \/ call'[d] = call[d]
             \/ Result(call'[d].seq, call'[d].val) \in done'
  <2>1. call'[d] = IF d \in Owners(rcv.pos) /\ call[d].pc = "waiting"
                   THEN [call[d] EXCEPT !.pc = "signalled"] ELSE call[d]
    BY <1>5 DEF Signal, Signalled
  <2>2. CASE d \in Owners(rcv.pos) /\ call[d].pc = "waiting"
    <3>1. call'[d].seq = rcv.pos /\ call'[d].val = call[d].val
      BY <1>1, <2>1, <2>2 DEF Owners, CallState
    <3>2. Result(rcv.pos, call[d].val) \in done
      BY <1>5, <2>2 DEF Signal, SignalTrue, Owners, Sent
    <3>. QED
      BY <1>2, <3>1, <3>2
  <2>. QED
    BY <2>1, <2>2
<1>6. ASSUME WalkMsgs
      PROVE  \/ call'[d] = call[d]
             \/ ~up' /\ call'[d].val = ENODEV
  <2>1. ~up'
    BY <1>6 DEF WalkMsgs, LossKnown, link
  <2>2. call'[d] = IF d \in Owners(rcv.pos) THEN [Signalled(rcv.pos)[d] EXCEPT !.val = ENODEV]
                   ELSE call[d]
    BY <1>6 DEF WalkMsgs, Told
  <2>3. d \in Owners(rcv.pos) => call'[d].val = ENODEV
    <3>1. Signalled(rcv.pos)[d] \in CallState
      BY <1>1 DEF Signalled, CallState
    <3>. QED
      BY <2>2, <3>1 DEF CallState
  <2>. QED
    BY <2>1, <2>2, <2>3
<1>7. ASSUME NEW c \in Callers, CallerStep(c)
      PROVE  call'[d] = call[d]
  <2>1. CASE c # d
    BY <1>1, <1>7, <2>1 DEF CallerStep, Post, PostFails, Enqueue, Wait, Wake, FreeMsg
  <2>2. CASE c = d
    <3>1. ~Post(d) /\ ~Enqueue(d) /\ ~Wait(d)
      BY <1>1 DEF Post, Enqueue, Wait, CallState
    <3>2. ~PostFails(d) /\ ~FreeMsg(d)
      BY <1>1 DEF PostFails, FreeMsg, Returned
    <3>3. ~Wake(d)
      BY <1>1, WakeLeaves
    <3>. QED
      BY <1>7, <2>2, <3>1, <3>2, <3>3 DEF CallerStep
  <2>. QED
    BY <2>1, <2>2
<1>8. ASSUME NEW c \in Callers, NEW cmd, NEW uid, Begin(c, cmd, uid)
      PROVE  call'[d] = call[d]
  <2>1. c # d
    BY <1>1, <1>8 DEF Begin, Returned, CallState
  <2>. QED
    BY <1>1, <1>8, <2>1 DEF Begin
<1>9. UNCHANGED vars \/ UNCHANGED remote => call'[d] = call[d]
  BY DEF vars, remote
<1>10. Receive \/ WalkOpenList \/ RecvFails \/ CloseSocket => call'[d] = call[d]
  BY DEF Receive, WalkOpenList, RecvFails, CloseSocket
<1>. QED
  BY <1>3, <1>4, <1>5, <1>6, <1>7, <1>8, <1>9, <1>10, WhoSteps DEF Receiver

-----------------------------------------------------------------------------

LEMMA IInvInit ==
  ASSUME Init
  PROVE  IInv
<1> USE LinkAssumption, RemoteAssumption DEF Init, LinkInit, RemoteInit, DaemonInit
<1>1. Typed
  <2>1. call \in [Callers -> CallState]
    BY CallRecords
  <2>2. \A c \in Callers : call[c].pc \notin Sent \cup {"checked"}
    BY DEF Returned, Sent
  <2>3. srv \in ServerState /\ 0 \in Results
    BY DEF Serving, ServerState, Results
  <2>4. /\ rcv = [pc |-> rcv.pc, seq |-> rcv.seq, cmd |-> rcv.cmd, val |-> rcv.val, pos |-> rcv.pos]
        /\ rcv.seq \in Nat /\ rcv.val \in Results
    BY <2>3 DEF Receiving
  <2>5. reader = [pc |-> reader.pc, uid |-> reader.uid] /\ reader.uid \in Uids \cup {0}
    BY DEF Off
  <2>6. /\ toServer \in Seq(RequestSet) /\ toClient \in Seq(AnswerSet)
        /\ seq \in Nat /\ uids \subseteq Uids /\ polled \subseteq Uids
    OBVIOUS
  <2>. QED
    BY <2>1, <2>2, <2>3, <2>4, <2>5, <2>6 DEF Typed
<1>2. LossKnown
  BY DEF LossKnown, Receiving
<1>3. NumbersLeft
  <2>1. Checked = {}
    BY DEF Checked, Returned
  <2>2. Cardinality(Checked) = 0
    BY <2>1, FS_EmptySet
  <2>. QED
    BY <2>2 DEF NumbersLeft
<1>4. NumbersUsed
  BY DEF NumbersUsed, Sent, Returned
<1>5. RequestsFresh
  BY DEF RequestsFresh
<1>6. AnswersTrue
  BY DEF AnswersTrue, ServerTrue, StreamTrue, MatchTrue, SignalTrue, CallTrue, Serving,
         Receiving, Returned
<1>7. StuckAt
  BY DEF StuckAt, Serving
<1>. QED
  BY <1>1, <1>2, <1>3, <1>4, <1>5, <1>6, <1>7 DEF IInv

LEMMA StuckStep ==
  ASSUME Typed, StuckAt, [Next]_vars
  PROVE  StuckAt'
<1>1. CASE UNCHANGED <<toServer, up>> /\ (UNCHANGED srv \/ srv'.pc # "stuck")
  BY <1>1 DEF StuckAt
<1>2. ASSUME NEW c \in Callers, Post(c), UNCHANGED srv
      PROVE  StuckAt'
  <2>1. toServer \in Seq(RequestSet)
    BY DEF Typed
  <2>2. toServer' = toServer \/ (up /\ \E m : toServer' = Append(toServer, m))
    BY <1>2 DEF Post, Deliver
  <2>3. UNCHANGED up
    BY <1>2 DEF Post
  <2>4. CASE toServer' = toServer
    BY <1>2, <2>3, <2>4 DEF StuckAt
  <2>5. ASSUME NEW m, up, toServer' = Append(toServer, m)
        PROVE  StuckAt'
    <3>1. toServer # <<>> => toServer' # <<>> /\ toServer'[1] = toServer[1]
      BY <2>1, <2>5
    <3>. QED
      BY <1>2, <2>5, <3>1 DEF StuckAt
  <2>. QED
    BY <2>2, <2>4, <2>5
<1>3. ASSUME Break, UNCHANGED srv
      PROVE  StuckAt'
  <2>1. PICK k \in 0 .. Len(toServer) : toServer' = SubSeq(toServer, 1, k)
    BY <1>3 DEF Break
  <2>2. toServer \in Seq(RequestSet)
    BY DEF Typed
  <2>3. toServer' # <<>> => toServer # <<>> /\ toServer'[1] = toServer[1]
    BY <2>1, <2>2
  <2>4. ~up'
    BY <1>3 DEF Break
  <2>. QED
    BY <1>3, <2>3, <2>4 DEF StuckAt
<1>4. CASE Misread
  <2>1. toServer # <<>> /\ toServer[1].cmd = "setparms" /\ UNCHANGED toServer
    BY <1>4, TailOf DEF Misread, Typed, link
  <2>. QED
    BY <2>1 DEF StuckAt
<1>5. ServeOther \/ ServeUnknown \/ OpenFails \/ CloseDevice => srv'.pc # "stuck"
  BY DEF ServeOther, ServeUnknown, OpenFails, CloseDevice, AnswerWith, Serving
<1>6. ServeLate \/ OpenDevice => srv'.pc # "stuck"
  BY DEF ServeLate, OpenDevice, AnswerWith
<1>7. UnlockAndInsert \/ UnlockAgain \/ LockAnswer => srv'.pc # "stuck"
  BY DEF UnlockAndInsert, UnlockAgain, Unlocks, LockAnswer, Typed, ServerState
<1>8. SendAnswer \/ Hangup \/ Killed => srv'.pc # "stuck"
  BY DEF SendAnswer, Hangup, Killed, Serving, Typed, ServerState
<1>9. srv'.pc # "stuck" => StuckAt'
  BY DEF StuckAt
<1>10. Reader => UNCHANGED <<srv, toServer, up>>
  BY DEF Reader, ReaderEnds, ReaderGone, ReaderReads, ReaderLocks, ReaderSends, ReaderDies, link
<1>11. Receiver => UNCHANGED <<toServer, up>>
  BY DEF Receiver, Receive, WalkOpenList, Match, Signal, RecvFails, WalkMsgs, CloseSocket, link
<1>12. ASSUME NEW c \in Callers, CallerStep(c)
       PROVE  Post(c) \/ UNCHANGED <<toServer, up>>
  BY <1>12 DEF CallerStep, PostFails, Enqueue, Wait, Wake, FreeMsg, link
<1>13. ASSUME NEW c, NEW cmd, NEW uid, Begin(c, cmd, uid)
       PROVE  UNCHANGED <<toServer, up>>
  BY <1>13 DEF Begin, link
<1>14. UNCHANGED vars => UNCHANGED <<srv, toServer, up>>
  BY DEF vars, daemon, link
<1>15. UNCHANGED daemon \/ UNCHANGED <<remote, daemon>> => UNCHANGED srv
  BY DEF daemon
<1>16. Server => StuckAt'
  BY <1>4, <1>5, <1>6, <1>7, <1>8, <1>9 DEF Server
<1>. QED
  BY <1>1, <1>2, <1>3, <1>8, <1>9, <1>10, <1>11, <1>12, <1>13, <1>14, <1>15, <1>16, WhoSteps

LEMMA IInvStep ==
  ASSUME IInv, [Next]_vars
  PROVE  IInv'
BY TypedStep, LossStep, NumbersLeftStep, NumbersUsedStep, RequestsFreshStep, ServerTrueStep,
   StreamTrueStep, MatchTrueStep, SignalTrueStep, CallTrueStep, StuckStep
   DEF IInv, AnswersTrue

\* What a client and the daemon know of each other, for any number of threads and
\* devices and any number of calls: the types, numbers given out once, and
\* answers that are true wherever they are.
THEOREM InvHolds == Spec => []IInv
<1>1. Init => IInv
  BY IInvInit
<1>2. IInv /\ [Next]_vars => IInv'
  BY IInvStep
<1>. QED
  BY <1>1, <1>2, PTL DEF Spec

-----------------------------------------------------------------------------
(* The calls as DvbCalls sees them.                                         *)

JobOf(r) == [cmd |-> IF r.pc \in Sent \cup {"checked"} THEN r.cmd ELSE "none",
             seq |-> IF r.pc \in Sent THEN r.seq ELSE 0,
             val |-> IF r.pc \in Sent \cup {"checked"} THEN 0 ELSE r.val]
Job == [c \in Callers |-> JobOf(call[c])]
Done(v) == [cmd |-> "none", seq |-> 0, val |-> v]

LEMMA JobIs == Jobs = Job /\ Jobs' = Job'
BY DEF Jobs, Job, JobOf, InCall, Begun, Sent

\* The steps of DvbCalls in terms of Job.
LEMMA PromiseInit ==
  ASSUME Job = [c \in Callers |-> Done(0)], asked = {}, done = {}, uids = {}, up
  PROVE  Promise!Init
BY JobIs DEF Promise!Init, Promise!Idle, Done

LEMMA PromiseStutters ==
  ASSUME Job' = Job, UNCHANGED <<asked, done, uids, up>>
  PROVE  UNCHANGED Promise!vars
BY JobIs DEF Promise!vars

LEMMA PromiseBegin ==
  ASSUME NEW c \in Callers, NEW cmd \in Commands, Job[c].cmd = "none",
         Job' = [Job EXCEPT ![c] = [cmd |-> cmd, seq |-> 0, val |-> 0]],
         UNCHANGED <<asked, done, uids, up>>
  PROVE  Promise!Begin(c)
BY JobIs DEF Promise!Begin

LEMMA PromiseRefuse ==
  ASSUME NEW c \in Callers, ~up, Job[c].cmd = "none",
         Job' = [Job EXCEPT ![c] = Done(ENODEV)],
         UNCHANGED <<asked, done, uids, up>>
  PROVE  Promise!Refuse(c)
BY JobIs DEF Promise!Refuse, Promise!Idle, Done

LEMMA PromiseAsk ==
  ASSUME NEW c \in Callers, NEW n \in 1 .. MaxCalls, NEW cmd \in Commands, NEW uid \in Uids \cup {0},
         Job[c].seq = 0, Job[c].cmd = cmd, \A r \in asked : r.seq # n,
         asked' = asked \cup {[seq |-> n, cmd |-> cmd, uid |-> uid]},
         Job' = [Job EXCEPT ![c] = [cmd |-> cmd, seq |-> n, val |-> 0]],
         UNCHANGED <<done, uids, up>>
  PROVE  Promise!Ask(c)
BY JobIs DEF Promise!Ask

LEMMA PromiseCarryOut ==
  ASSUME NEW r \in asked, NEW val \in Results,
         \A d \in done : d.seq # r.seq,
         \/ val = Failure /\ uids' = uids
         \/ r.cmd \notin {"open", "close"} /\ val = 0 /\ uids' = uids
         \/ r.cmd = "open" /\ val \in Uids \ uids /\ uids' = uids \cup {val}
         \/ r.cmd = "close" /\ r.uid \in uids /\ val = 0 /\ uids' = uids \ {r.uid},
         done' = done \cup {Result(r.seq, val)},
         Job' = Job, UNCHANGED <<asked, up>>
  PROVE  Promise!CarryOut
BY JobIs DEF Promise!CarryOut, Promise!Effect, Result, Results

LEMMA PromiseReturn ==
  ASSUME NEW c \in Callers, NEW n, NEW v, Result(n, v) \in done, Job[c].seq = n,
         Job' = [Job EXCEPT ![c] = Done(Promise!Reported(Job[c].cmd, v))],
         UNCHANGED <<asked, done, uids, up>>
  PROVE  Promise!Return(c)
BY JobIs DEF Promise!Return, Promise!Idle, Done, Result

LEMMA PromiseFail ==
  ASSUME NEW c \in Callers, ~up, Job[c].cmd # "none",
         Job' = [Job EXCEPT ![c] =
                   Done(IF Job[c].seq = 0 THEN Promise!Unasked(Job[c].cmd)
                        ELSE Promise!Reported(Job[c].cmd, ENODEV))],
         UNCHANGED <<asked, done, uids, up>>
  PROVE  Promise!Fail(c)
BY JobIs DEF Promise!Fail, Promise!Idle, Done

LEMMA PromiseLose ==
  ASSUME up, up' = FALSE, Job' = Job, UNCHANGED <<asked, done, uids>>
  PROVE  Promise!Lose
BY JobIs DEF Promise!Lose

LEMMA PromiseRelease ==
  ASSUME ~up, uids' = {}, Job' = Job, UNCHANGED <<asked, done, up>>
  PROVE  Promise!Release
BY JobIs DEF Promise!Release

\* DvbCalls has the client's two tables of what a call returns.
LEMMA SameReports ==
  /\ \A cmd, v : v \in Returns => Reports(cmd, v) = Promise!Reported(cmd, v)
  /\ \A cmd : NotSent(cmd) = Promise!Unasked(cmd)
<1>1. ASSUME NEW cmd, NEW v \in Returns
      PROVE  Reports(cmd, v) = Promise!Reported(cmd, v)
  <2>1. v < 0 \/ v >= 0
    BY LinkAssumption DEF Returns, Results, Failure, ENODEV, Prepared
  <2>2. v < 0 => ~(v >= 0)
    BY LinkAssumption DEF Returns, Results, Failure, ENODEV, Prepared
  <2>3. CASE cmd \notin {"stats", "version"}
    BY <2>3 DEF Reports, Promise!Reported
  <2>4. CASE cmd = "stats"
    BY <2>4 DEF Reports, Promise!Reported
  <2>5. CASE cmd = "version"
    BY <2>1, <2>2, <2>5 DEF Reports, Promise!Reported
  <2>. QED
    BY <2>3, <2>4, <2>5
<1>2. ASSUME NEW cmd
      PROVE  NotSent(cmd) = Promise!Unasked(cmd)
  BY DEF NotSent, Promise!Unasked
<1>. QED
  BY <1>1, <1>2

\* What a thread's step does to its job.
LEMMA JobChange ==
  ASSUME NEW c \in Callers, call \in [Callers -> CallState], NEW r, call' = [call EXCEPT ![c] = r]
  PROVE  Job' = [Job EXCEPT ![c] = JobOf(r)]
BY DEF Job

LEMMA JobStays ==
  ASSUME \A c \in Callers : JobOf(call'[c]) = JobOf(call[c])
  PROVE  Job' = Job
BY DEF Job

\* A caller's step asks, returns or fails, or shows nothing.
LEMMA CallerImplements ==
  ASSUME IInv, NEW c \in Callers, CallerStep(c), UNCHANGED daemon
  PROVE  \/ UNCHANGED Promise!vars
         \/ Promise!Ask(c) \/ Promise!Return(c) \/ Promise!Fail(c)
<1>1. call \in [Callers -> CallState] /\ call[c] \in CallState
  BY DEF IInv, Typed
<1>2. UNCHANGED <<done, uids>>
  BY DEF daemon
<1>8. Job[c] = JobOf(call[c])
  BY DEF Job
<1>9. call[c].pc = "checked" => call[c].cmd \in Commands
  BY DEF IInv, Typed
<1>3. CASE Post(c)
  <2>1. Job' = [Job EXCEPT ![c] = [cmd |-> call[c].cmd, seq |-> seq + 1, val |-> 0]]
    <3>. DEFINE r == [call[c] EXCEPT !.pc = "posting", !.seq = seq + 1, !.val = 0]
    <3>1. call' = [call EXCEPT ![c] = r]
      BY <1>3 DEF Post
    <3>2. JobOf(r) = [cmd |-> call[c].cmd, seq |-> seq + 1, val |-> 0]
      BY <1>1 DEF JobOf, Sent, CallState
    <3> HIDE DEF r
    <3>. QED
      BY <1>1, <3>1, <3>2, JobChange
  <2>2. Job[c].seq = 0 /\ Job[c].cmd = call[c].cmd
    BY <1>3, <1>8 DEF Post, JobOf, Sent
  <2>3. seq + 1 \in 1 .. MaxCalls
    <3>1. c \in Checked
      BY <1>3 DEF Post, Checked
    <3>2. Cardinality(Checked) # 0
      BY <3>1, CheckedFinite, FS_EmptySet
    <3>3. seq + Cardinality(Checked) <= MaxCalls /\ seq \in Nat
      BY DEF IInv, NumbersLeft, Typed
    <3>4. Cardinality(Checked) \in Nat /\ MaxCalls \in Nat
      BY CheckedFinite, RemoteAssumption
    <3>. QED
      BY <3>2, <3>3, <3>4
  <2>4. \A r \in asked : r.seq # seq + 1
    BY DEF IInv, NumbersUsed, Typed
  <2>5. call[c].cmd \in Commands
    BY <1>3, <1>9 DEF Post
  <2>6. call[c].uid \in Uids \cup {0}
    BY <1>1 DEF CallState
  <2>7. asked' = asked \cup {[seq |-> seq + 1, cmd |-> call[c].cmd, uid |-> call[c].uid]}
    BY <1>3 DEF Post, Request
  <2>8. UNCHANGED up
    BY <1>3 DEF Post
  <2>. QED
    BY <1>2, <2>1, <2>2, <2>3, <2>4, <2>5, <2>6, <2>7, <2>8, PromiseAsk
<1>4. CASE PostFails(c)
  <2>1. Job' = [Job EXCEPT ![c] = Done(NotSent(call[c].cmd))]
    <3>1. call' = [call EXCEPT ![c] = Returned(NotSent(call[c].cmd))]
      BY <1>4 DEF PostFails
    <3>2. JobOf(Returned(NotSent(call[c].cmd))) = Done(NotSent(call[c].cmd))
      BY DEF JobOf, Done, Returned, Sent
    <3>. QED
      BY <1>1, <3>1, <3>2, JobChange
  <2>2. ~up
    BY <1>4 DEF PostFails, IInv, LossKnown
  <2>3. UNCHANGED <<asked, up>>
    BY <1>4 DEF PostFails, link
  <2>4. Job[c].seq = 0 /\ Job[c].cmd = call[c].cmd
    BY <1>4, <1>8 DEF PostFails, JobOf, Sent
  <2>5. Job[c].cmd # "none"
    BY <1>4, <1>9, <2>4 DEF PostFails, Commands
  <2>6. NotSent(call[c].cmd) = Promise!Unasked(Job[c].cmd)
    BY <2>4, SameReports
  <2>. QED
    BY <1>2, <2>1, <2>2, <2>3, <2>4, <2>5, <2>6, PromiseFail
<1>5. CASE Enqueue(c) \/ Wait(c)
  <2>1. \A d \in Callers : JobOf(call'[d]) = JobOf(call[d])
    <3>1. Enqueue(c) => JobOf(call'[c]) = JobOf(call[c])
      BY <1>1 DEF Enqueue, JobOf, Sent, CallState
    <3>2. Wait(c) => JobOf(call'[c]) = JobOf(call[c])
      BY <1>1 DEF Wait, JobOf, Sent, CallState
    <3>3. \A d \in Callers \ {c} : call'[d] = call[d]
      BY <1>1, <1>5 DEF Enqueue, Wait
    <3>. QED
      BY <1>5, <3>1, <3>2, <3>3
  <2>2. UNCHANGED <<asked, up>>
    BY <1>5 DEF Enqueue, Wait, link
  <2>. QED
    BY <1>2, <2>1, <2>2, JobStays, PromiseStutters
<1>6. CASE FreeMsg(c)
  <2>1. \A d \in Callers : JobOf(call'[d]) = JobOf(call[d])
    BY <1>1, <1>6 DEF FreeMsg, JobOf, Sent, Returned
  <2>2. UNCHANGED <<asked, up>>
    BY <1>6 DEF FreeMsg, link
  <2>. QED
    BY <1>2, <2>1, <2>2, JobStays, PromiseStutters
<1>7. CASE Wake(c)
  <2>. DEFINE v == Reports(call[c].cmd, call[c].val)
              r == [call[c] EXCEPT !.pc = "freeing", !.val = v]
  <2>1. Job' = [Job EXCEPT ![c] = Done(v)]
    <3>1. Opened(call[c]) => v = call[c].val
      BY DEF Opened, Reports
    <3>2. JobOf(Returned(v)) = Done(v)
      BY DEF JobOf, Done, Returned, Sent
    <3>3. r.pc = "freeing" /\ r.val = v
      BY <1>1 DEF CallState
    <3>4. JobOf(r) = Done(v)
      BY <3>3 DEF JobOf, Done, Sent
    <3>5. \/ Opened(call[c]) /\ call' = [call EXCEPT ![c] = Returned(call[c].val)]
          \/ call' = [call EXCEPT ![c] = r]
      BY <1>7 DEF Wake
    <3> HIDE DEF r, v
    <3>6. call' = [call EXCEPT ![c] = Returned(v)] \/ call' = [call EXCEPT ![c] = r]
      BY <3>1, <3>5
    <3>7. Job' = [Job EXCEPT ![c] = JobOf(Returned(v))] \/ Job' = [Job EXCEPT ![c] = JobOf(r)]
      BY <1>1, <3>6, JobChange
    <3>. QED
      BY <3>2, <3>4, <3>7
  <2>2. UNCHANGED <<asked, up>>
    BY <1>7 DEF Wake, link
  <2>3. Job[c].seq = call[c].seq /\ Job[c].cmd = call[c].cmd
    BY <1>7, <1>8 DEF Wake, JobOf, Sent
  <2>4. \/ Result(call[c].seq, call[c].val) \in done
        \/ ~up /\ call[c].val = ENODEV
    BY <1>7 DEF Wake, IInv, AnswersTrue, CallTrue
  <2>7. v = Promise!Reported(Job[c].cmd, call[c].val)
    BY <1>1, <2>3, SameReports DEF CallState
  <2> HIDE DEF v, r
  <2>5. CASE Result(call[c].seq, call[c].val) \in done
    BY <1>2, <2>1, <2>2, <2>3, <2>5, <2>7, PromiseReturn
  <2>6. CASE ~up /\ call[c].val = ENODEV
    <3>0. call[c].pc \in Sent
      BY <1>7 DEF Wake, Sent
    <3>2. call[c].cmd \in Commands
      BY <3>0 DEF IInv, Typed
    <3>3. call[c].seq \in 1 .. seq /\ seq \in Nat
      BY <3>0 DEF IInv, Typed, NumbersUsed
    <3>1. call[c].seq # 0 /\ call[c].cmd # "none"
      BY <3>2, <3>3 DEF Commands
    <3>. QED
      BY <1>2, <2>1, <2>2, <2>3, <2>6, <2>7, <3>1, PromiseFail
  <2>. QED
    BY <2>4, <2>5, <2>6
<1>. QED
  BY <1>3, <1>4, <1>5, <1>6, <1>7, CallerStep(c) DEF CallerStep

LEMMA BeginImplements ==
  ASSUME IInv, NEW c \in Callers, NEW cmd \in Commands, NEW uid, Begin(c, cmd, uid), UNCHANGED daemon
  PROVE  Promise!Begin(c) \/ Promise!Refuse(c)
<1>1. call \in [Callers -> CallState] /\ call[c] \in CallState
  BY DEF IInv, Typed
<1>2. UNCHANGED <<asked, done, uids, up>>
  BY DEF Begin, daemon, link
<1>5. call[c].pc = "idle" /\ Job[c].cmd = "none"
  BY DEF Begin, Job, JobOf, Sent
<1>3. CASE disconnected /\ cmd # "filter"
  <2>1. call' = [call EXCEPT ![c] = Returned(ENODEV)]
    BY <1>3 DEF Begin
  <2>2. JobOf(Returned(ENODEV)) = Done(ENODEV)
    BY DEF JobOf, Done, Returned, Sent
  <2>3. ~up
    BY <1>3 DEF IInv, LossKnown
  <2>4. Job' = [Job EXCEPT ![c] = Done(ENODEV)]
    BY <1>1, <2>1, <2>2, JobChange
  <2>. QED
    BY <1>2, <1>5, <2>3, <2>4, PromiseRefuse
<1>4. CASE ~(disconnected /\ cmd # "filter")
  <2>. DEFINE r == [call[c] EXCEPT !.pc = "checked", !.cmd = cmd, !.uid = uid]
  <2>1. call' = [call EXCEPT ![c] = r]
    BY <1>4 DEF Begin
  <2>2. JobOf(r) = [cmd |-> cmd, seq |-> 0, val |-> 0]
    BY <1>1 DEF JobOf, Sent, CallState
  <2> HIDE DEF r
  <2>3. Job' = [Job EXCEPT ![c] = [cmd |-> cmd, seq |-> 0, val |-> 0]]
    BY <1>1, <2>1, <2>2, JobChange
  <2>. QED
    BY <1>2, <1>5, <2>3, PromiseBegin
<1>. QED
  BY <1>3, <1>4

LEMMA ReceiverImplements ==
  ASSUME IInv, Receiver, UNCHANGED daemon
  PROVE  UNCHANGED Promise!vars
<1>1. \A c \in Callers : call[c] \in CallState
  BY DEF IInv, Typed
<1>2. UNCHANGED <<asked, done, uids, up>>
  BY DEF Receiver, Receive, WalkOpenList, Match, Signal, RecvFails, WalkMsgs, CloseSocket, link, daemon
<1>3. \A c \in Callers : JobOf(call'[c]) = JobOf(call[c])
  <2>1. CASE Match
    BY <1>1, <2>1 DEF Match, IInv, Typed, CallState, Owners, JobOf, Sent
  <2>2. CASE Signal
    BY <1>1, <2>2 DEF Signal, Signalled, CallState, JobOf, Sent
  <2>3. CASE WalkMsgs
    <3>1. ASSUME NEW c \in Callers
          PROVE  JobOf(call'[c]) = JobOf(call[c])
      <4>1. CASE c \in Owners(rcv.pos)
        <5>1. call[c].pc \in {"posted", "waiting", "signalled"}
          BY <4>1 DEF Owners
        <5>2. call'[c] = [Signalled(rcv.pos)[c] EXCEPT !.val = ENODEV]
          BY <2>3, <4>1 DEF WalkMsgs, Told
        <5>3. Signalled(rcv.pos)[c] \in {call[c], [call[c] EXCEPT !.pc = "signalled"]}
          BY DEF Signalled
        <5>4. call'[c].pc \in Sent /\ call'[c].seq = call[c].seq /\ call'[c].cmd = call[c].cmd
          BY <1>1, <5>1, <5>2, <5>3 DEF CallState, Sent
        <5>. QED
          BY <5>1, <5>4 DEF JobOf, Sent
      <4>2. CASE c \notin Owners(rcv.pos)
        BY <2>3, <4>2 DEF WalkMsgs
      <4>. QED
        BY <4>1, <4>2
    <3>. QED
      BY <3>1
  <2>. QED
    BY <2>1, <2>2, <2>3 DEF Receiver, Receive, WalkOpenList, RecvFails, CloseSocket
<1>. QED
  BY <1>2, <1>3, JobStays, PromiseStutters

LEMMA ServerImplements ==
  ASSUME IInv, UNCHANGED remote, Server \/ Reader \/ Killed
  PROVE  UNCHANGED Promise!vars \/ Promise!CarryOut \/ Promise!Release
<1>1. UNCHANGED <<asked, up>> /\ Job' = Job
  BY DEF remote, Job, Server, ServeOther, Misread, ServeLate, ServeUnknown, OpenFails, OpenDevice, Unlocks, UnlockAndInsert, UnlockAgain, CloseDevice,
         LockAnswer, SendLength, SendAnswer, Hangup, Reader, ReaderEnds, ReaderGone, ReaderReads, ReaderLocks,
         ReaderSends, ReaderDies, Killed, Take, link
<1>12. ASSUME toServer # <<>>
       PROVE  /\ Head(toServer) = toServer[1] /\ Head(toServer) \in asked
              /\ \A d \in done : d.seq # Head(toServer).seq
  <2>1. Head(toServer) = toServer[1] /\ 1 \in DOMAIN toServer
    BY <1>12, TailOf DEF IInv, Typed
  <2>2. \A d \in done : d.seq < toServer[1].seq
    BY <2>1 DEF IInv, RequestsFresh
  <2>3. toServer[1] \in asked
    BY <2>1 DEF IInv, RequestsFresh
  <2>4. \A d \in done : d.seq \in Nat /\ toServer[1].seq \in Nat
    BY <2>3 DEF IInv, NumbersUsed
  <2>. QED
    BY <2>1, <2>2, <2>3, <2>4
<1>2. ASSUME NEW cmd, Take(cmd)
      PROVE  /\ Head(toServer) \in asked /\ Head(toServer).cmd = cmd
             /\ \A d \in done : d.seq # Head(toServer).seq
  BY <1>2, <1>12 DEF Take
<1>3. ASSUME NEW v, AnswerWith(v)
      PROVE  done' = done \cup {Result(Head(toServer).seq, v)}
  BY <1>3 DEF AnswerWith, Result
<1>4. Failure \in Results /\ 0 \in Results /\ Uids \subseteq Results
  BY DEF Results
<1>5. CASE ServeOther
  <2>1. PICK cmd \in {"get", "version", "stats", "setparms"} : Take(cmd)
    BY <1>5 DEF ServeOther
  <2>2. PICK v \in {0, Failure} : AnswerWith(v)
    BY <1>5 DEF ServeOther
  <2>3. UNCHANGED uids
    BY <1>5 DEF ServeOther
  <2>4. Head(toServer).cmd \notin {"open", "close"}
    BY <1>2, <2>1
  <2>. QED
    BY <1>1, <1>2, <1>3, <1>4, <2>1, <2>2, <2>3, <2>4, PromiseCarryOut
<1>6. CASE OpenFails
  BY <1>1, <1>2, <1>3, <1>4, <1>6, PromiseCarryOut DEF OpenFails
<1>7. CASE OpenDevice
  <2>1. PICK u \in Uids \ uids : /\ done' = done \cup {Result(Head(toServer).seq, u)}
                                /\ uids' = uids \cup {u}
    BY <1>7 DEF OpenDevice, Result
  <2>2. Take("open")
    BY <1>7 DEF OpenDevice
  <2>. QED
    BY <1>1, <1>2, <1>3, <1>4, <2>1, <2>2, PromiseCarryOut
<1>8. CASE CloseDevice
  <2>1. /\ Take("close") /\ Head(toServer).uid \in uids /\ AnswerWith(0)
        /\ uids' = uids \ {Head(toServer).uid}
    BY <1>8 DEF CloseDevice
  <2>. QED
    BY <1>1, <1>2, <1>3, <1>4, <2>1, PromiseCarryOut
<1>11. CASE ServeLate
  <2>1. PICK v \in {0, Failure} : AnswerWith(v)
    BY <1>11 DEF ServeLate
  <2>2. UNCHANGED uids /\ srv.pc = "stuck" /\ toServer # <<>>
    BY <1>11 DEF ServeLate
  <2>3. Head(toServer) \in asked /\ \A d \in done : d.seq # Head(toServer).seq
    BY <1>12, <2>2
  <2>4. Head(toServer).cmd \notin {"open", "close"}
    BY <1>12, <2>2 DEF IInv, StuckAt
  <2>. QED
    BY <1>1, <1>3, <1>4, <2>1, <2>2, <2>3, <2>4, PromiseCarryOut
<1>9. CASE Hangup \/ Killed
  <2>1. ~up /\ uids' = {} /\ UNCHANGED done
    BY <1>9 DEF Hangup, Killed
  <2>. QED
    BY <1>1, <2>1, PromiseRelease
<1>10. CASE \/ ServeUnknown \/ Misread \/ UnlockAndInsert \/ UnlockAgain
            \/ LockAnswer \/ SendAnswer \/ Reader
  <2>1. UNCHANGED <<done, uids>>
    BY <1>10 DEF ServeUnknown, Misread, UnlockAndInsert, UnlockAgain, Unlocks, LockAnswer, SendLength, SendAnswer, Reader, ReaderEnds, ReaderGone, ReaderReads,
                 ReaderLocks, ReaderSends, ReaderDies
  <2>. QED
    BY <1>1, <2>1, PromiseStutters
<1>. QED
  BY <1>5, <1>6, <1>7, <1>8, <1>9, <1>10, <1>11, Server \/ Reader \/ Killed DEF Server

LEMMA StepImplements ==
  ASSUME IInv, [Next]_vars
  PROVE  [Promise!Next]_(Promise!vars)
<1>1. ASSUME NEW c \in Callers,
             \/ Promise!Begin(c) \/ Promise!Refuse(c)
             \/ Promise!Ask(c) \/ Promise!Return(c) \/ Promise!Fail(c)
      PROVE  Promise!Next
  BY <1>1 DEF Promise!Next
<1>2. Promise!CarryOut \/ Promise!Lose \/ Promise!Release => Promise!Next
  BY DEF Promise!Next
<1>3. UNCHANGED vars => UNCHANGED Promise!vars
  BY PromiseStutters DEF vars, remote, daemon, link, Job
<1>4. ASSUME UNCHANGED <<remote, daemon>>, Break
      PROVE  Promise!Lose
  BY <1>4, PromiseLose DEF Break, remote, daemon, Job
<1>5. ASSUME NEW c \in Callers, NEW cmd \in Commands, NEW uid, Begin(c, cmd, uid), UNCHANGED daemon
      PROVE  UNCHANGED Promise!vars \/ Promise!Next
  BY <1>1, <1>5, BeginImplements
<1>6. ASSUME NEW c \in Callers, CallerStep(c), UNCHANGED daemon
      PROVE  UNCHANGED Promise!vars \/ Promise!Next
  BY <1>1, <1>6, CallerImplements
<1>7. Receiver /\ UNCHANGED daemon => UNCHANGED Promise!vars
  BY ReceiverImplements
<1>8. UNCHANGED remote /\ (Server \/ Reader \/ Killed) => UNCHANGED Promise!vars \/ Promise!Next
  BY <1>2, ServerImplements
<1>9. UNCHANGED Promise!vars \/ Promise!Next
  BY <1>2, <1>3, <1>4, <1>5, <1>6, <1>7, <1>8, WhoSteps
<1>. QED
  BY <1>9

\* For any number of threads and devices, and however the connection breaks: a
\* request is carried out at most once, and its call returns what it gave
\* there, or an error after the connection was lost.
THEOREM CallsImplemented == Spec => ImplementsCalls
<1>1. Init => Promise!Init
  <2>1. ASSUME Init
        PROVE  Job = [c \in Callers |-> Done(0)]
    BY <2>1 DEF Init, RemoteInit, Job, JobOf, Done, Returned, Sent
  <2>. QED
    BY <2>1, PromiseInit DEF Init, RemoteInit, DaemonInit, LinkInit
<1>2. IInv /\ [Next]_vars => [Promise!Next]_(Promise!vars)
  BY StepImplements
<1>. QED
  BY <1>1, <1>2, InvHolds, PTL DEF Spec, ImplementsCalls, Promise!Spec

-----------------------------------------------------------------------------
(* msg_mutex.  dev_open() unlocks it without having locked it; until it does *)
(* so beside a reader that is sending, the mutex tells who sends.            *)

MutexTold ==
  /\ ~stray /\ srv.pc = "sending" => mutex = "server"
  /\ ~stray /\ reader.pc = "sending" => mutex = "reader"

LEMMA MutexToldStep ==
  ASSUME Typed, MutexTold, [Next]_vars
  PROVE  MutexTold'
<1> USE DEF MutexTold
<1>1. CASE UNCHANGED daemon
  BY <1>1 DEF daemon
<1>2. CASE ServeOther \/ ServeUnknown \/ OpenFails \/ ServeLate
  <2>1. UNCHANGED <<mutex, reader, stray>>
    BY <1>2 DEF ServeOther, ServeUnknown, OpenFails, ServeLate
  <2>2. srv'.pc # "sending"
    BY <1>2 DEF ServeOther, ServeUnknown, OpenFails, ServeLate, AnswerWith, Serving
  <2>. QED
    BY <2>1, <2>2
<1>3. CASE OpenDevice
  <2>1. UNCHANGED <<mutex, stray>> /\ srv'.pc = "opening" /\ (reader' = reader \/ reader' = Polling)
    BY <1>3 DEF OpenDevice
  <2>. QED
    BY <2>1 DEF Polling
<1>14. CASE Misread
  BY <1>14 DEF Misread, Typed, ServerState
<1>15. CASE UnlockAndInsert \/ UnlockAgain
  <2>1. /\ srv'.pc # "sending" /\ UNCHANGED reader
        /\ stray' = (stray \/ reader.pc = "sending")
    BY <1>15 DEF UnlockAndInsert, UnlockAgain, Unlocks, Typed, ServerState
  <2>. QED
    BY <2>1
<1>4. ASSUME CancelReader
      PROVE  reader'.pc = "off"
  BY <1>4 DEF CancelReader, Off
<1>5. CASE CloseDevice
  <2>1. srv'.pc = "answer" /\ UNCHANGED stray
    BY <1>5 DEF CloseDevice, AnswerWith
  <2>2. reader'.pc = "off" \/ UNCHANGED <<mutex, reader>>
    BY <1>4, <1>5 DEF CloseDevice
  <2>. QED
    BY <2>1, <2>2
<1>6. CASE LockAnswer
  BY <1>6 DEF LockAnswer
<1>7. CASE SendAnswer
  <2>1. UNCHANGED <<reader, stray>> /\ srv'.pc = "recv" /\ srv.pc = "sending"
    BY <1>7 DEF SendAnswer, Serving
  <2>. QED
    BY <2>1
<1>8. CASE Hangup
  <2>1. reader'.pc = "off" /\ srv'.pc # "sending"
    BY <1>4, <1>8 DEF Hangup, Typed, ServerState
  <2>. QED
    BY <2>1
<1>9. CASE ReaderEnds \/ ReaderGone \/ ReaderReads
  <2>1. UNCHANGED <<srv, mutex, stray>> /\ reader'.pc # "sending"
    BY <1>9 DEF ReaderEnds, ReaderGone, ReaderReads, Off, Typed
  <2>. QED
    BY <2>1
<1>10. CASE ReaderLocks
  BY <1>10 DEF ReaderLocks, MutexFree
<1>16. CASE ReaderSends
  <2>1. UNCHANGED <<srv, stray>> /\ reader'.pc = "poll" /\ reader.pc = "sending"
    BY <1>16 DEF ReaderSends, Polling
  <2>. QED
    BY <2>1
<1>11. CASE ReaderDies
  BY <1>11 DEF ReaderDies
<1>12. CASE Killed
  <2>1. srv'.pc = "off" /\ reader'.pc = "off"
    BY <1>12 DEF Killed, Off, Typed, ServerState
  <2>. QED
    BY <2>1
<1>13. UNCHANGED vars \/ UNCHANGED <<remote, daemon>> => UNCHANGED daemon
  BY DEF vars
<1>. QED
  BY <1>1, <1>2, <1>3, <1>5, <1>6, <1>7, <1>8, <1>9, <1>10, <1>11, <1>12, <1>13, <1>14,
     <1>15, <1>16, WhoSteps DEF Server, Reader

\* For any number of devices and callers: as long as dev_open() has not unlocked
\* msg_mutex for a reader that was sending, the two threads of the daemon never
\* write to the connection at once.
THEOREM OneSenderHolds == Spec => []OneSender
<1>1. Init => MutexTold
  BY DEF Init, DaemonInit, MutexTold, Serving, Off
<1>2. Typed /\ MutexTold /\ [Next]_vars => MutexTold'
  BY MutexToldStep
<1>3. MutexTold => OneSender
  BY DEF MutexTold, OneSender
<1>4. IInv => Typed
  BY DEF IInv
<1>. QED
  BY <1>1, <1>2, <1>3, <1>4, InvHolds, PTL DEF Spec

-----------------------------------------------------------------------------
(***************************************************************************)
(* The two lists of the client, its message queue and its open descriptors: *)
(* what they hold is accounted for, on either side of the connection.       *)
(***************************************************************************)

\* The message queue holds numbers that were given out, each once.
QueueDistinct ==
  /\ msgs \in Seq(Nat)
  /\ IsInjective(msgs)
  /\ \A n \in ToSet(msgs) : n \in 1 .. seq

\* What a thread holds between its calls, and before it has a number.
Blank ==
  \A c \in Callers :
    /\ call[c].pc = "idle" => call[c].cmd = "none"
    /\ call[c].pc \in {"idle", "checked"} => call[c].seq = 0

\* One thread at a time opens or closes.
OneAtATime ==
  \A c, d \in Callers :
    call[c].cmd \in ListCommands /\ call[d].cmd \in ListCommands => c = d

\* A call that has a number made the request with this number.
AskedTrue ==
  /\ \A c \in Callers : call[c].pc \in Sent =>
       Request(call[c].seq, call[c].cmd, call[c].uid) \in asked
  /\ \A r, s \in asked : r.seq = s.seq => r = s

\* A request has one result, and that of an open is no success without a
\* descriptor.
DoneTrue ==
  /\ \A d, e \in done : d.seq = e.seq => d = e
  /\ \A r \in asked, d \in done :
       r.seq = d.seq /\ r.cmd = "open" => d.val \in Uids \cup {Failure}

\* Whom a queued message belongs to.
Owned(n) ==
  \/ \E c \in Callers : call[c].seq = n
  \/ \E r \in asked, d \in done :
       r.seq = n /\ d.seq = n /\ r.cmd = "open" /\ d.val > 0
QueueOwned ==
  /\ \A c \in Callers : call[c].pc = "posting" => call[c].seq \notin ToSet(msgs)
  /\ \A n \in ToSet(msgs) : Owned(n)

\* The number a thread holds is its own, and while its message is queued it is
\* in the queue.
Apart ==
  /\ \A c \in Callers : call[c].seq \in 0 .. seq
  /\ \A c, d \in Callers : call[c].seq = call[d].seq /\ call[c].seq # 0 => c = d
CallQueued == \A c \in Callers : call[c].pc \in Queued => call[c].seq \in ToSet(msgs)

\* As long as the connection holds: a request to open or close that is under
\* way is that of a call which waits for it; ...
ListRequests ==
  \A i \in DOMAIN toServer : toServer[i].cmd \in ListCommands =>
    \E c \in Callers : call[c].pc \in Sent /\ call[c].seq = toServer[i].seq

\* ... what the daemon opened for a call is open there and not yet in
\* open_list; and what was closed is not there any more.
OpenedAside ==
  \A c \in Callers : call[c].cmd = "open" /\ call[c].pc \in Sent =>
    \A u \in Uids : Result(call[c].seq, u) \in done => u \in uids \ ToSet(openList)
ClosedAway ==
  \A c \in Callers : call[c].cmd = "close" /\ call[c].pc = "freeing" =>
    call[c].uid \notin ToSet(openList)

ListTrue == up =>
  /\ openList \in Seq(Uids) /\ IsInjective(openList)
  /\ ListRequests
  /\ OpenedAside
  /\ ClosedAway
  /\ OpenAtDaemon

QInv == /\ QueueDistinct /\ Blank /\ OneAtATime /\ AskedTrue /\ DoneTrue
        /\ QueueOwned /\ Apart /\ CallQueued /\ ListTrue

-----------------------------------------------------------------------------
(* Lists.                                                                   *)

LEMMA InjectiveCounted ==
  ASSUME NEW S, NEW q \in Seq(S), IsInjective(q)
  PROVE  Cardinality(ToSet(q)) = Len(q)
<1>1. q \in Bijection(1 .. Len(q), ToSet(q))
  <2>1. DOMAIN q = 1 .. Len(q) /\ q \in [1 .. Len(q) -> ToSet(q)]
    BY DEF ToSet
  <2>2. q \in Injection(1 .. Len(q), ToSet(q))
    BY <2>1 DEF Injection, IsInjective
  <2>3. q \in Surjection(1 .. Len(q), ToSet(q))
    BY <2>1 DEF Surjection, ToSet
  <2>. QED
    BY <2>2, <2>3 DEF Bijection
<1>2. Len(q) \in Nat /\ IsFiniteSet(1 .. Len(q)) /\ Cardinality(1 .. Len(q)) = Len(q)
  <2>1. Len(q) \in Int /\ 1 \in Int /\ Len(q) \in Nat
    OBVIOUS
  <2>2. IsFiniteSet(1 .. Len(q))
    BY <2>1, FS_Interval
  <2>3. Cardinality(1 .. Len(q)) = IF 1 > Len(q) THEN 0 ELSE Len(q) - 1 + 1
    BY <2>1, FS_Interval
  <2>. QED
    BY <2>1, <2>2, <2>3
<1>. QED
  BY <1>1, <1>2, FS_Bijection DEF ExistsBijection

LEMMA AppendOne ==
  ASSUME NEW S, NEW q \in Seq(S), NEW x \in S
  PROVE  /\ Append(q, x) \in Seq(S)
         /\ ToSet(Append(q, x)) = ToSet(q) \cup {x}
         /\ IsInjective(q) /\ x \notin ToSet(q) => IsInjective(Append(q, x))
<1>. DEFINE r == Append(q, x)
<1>1. /\ r \in Seq(S) /\ Len(q) \in Nat
      /\ DOMAIN q = 1 .. Len(q) /\ DOMAIN r = 1 .. Len(q) + 1
      /\ \A i \in 1 .. Len(q) : r[i] = q[i]
      /\ r[Len(q) + 1] = x
  OBVIOUS
<1>. HIDE DEF r
<1>2. \A i \in DOMAIN r : i \in DOMAIN q \/ i = Len(q) + 1
  BY <1>1
<1>3. \A i \in DOMAIN q : i \in DOMAIN r /\ i # Len(q) + 1
  BY <1>1
<1>4. Len(q) + 1 \in DOMAIN r
  BY <1>1
<1>5. ToSet(r) = ToSet(q) \cup {x}
  BY <1>1, <1>2, <1>3, <1>4 DEF ToSet
<1>6. IsInjective(q) /\ x \notin ToSet(q) => IsInjective(r)
  BY <1>1, <1>2, <1>3, <1>4 DEF ToSet, IsInjective
<1>. QED
  BY <1>1, <1>5, <1>6 DEF r

\* What unlinking an element leaves of a list without repetitions.
LEMMA UnlinkOne ==
  ASSUME NEW S, NEW q \in Seq(S), IsInjective(q), NEW x
  PROVE  /\ RemoveFirst(q, x) \in Seq(S)
         /\ ToSet(RemoveFirst(q, x)) = ToSet(q) \ {x}
         /\ IsInjective(RemoveFirst(q, x))
<1>1. CASE x \notin ToSet(q)
  <2>1. RemoveFirst(q, x) = q
    BY <1>1 DEF RemoveFirst, ToSet
  <2>. QED
    BY <1>1, <2>1
<1>2. ASSUME NEW k \in 1 .. Len(q), q[k] = x
      PROVE  /\ RemoveFirst(q, x) \in Seq(S)
             /\ ToSet(RemoveFirst(q, x)) = ToSet(q) \ {x}
             /\ IsInjective(RemoveFirst(q, x))
  <2>1. {i \in 1 .. Len(q) : q[i] = x} = {k}
    BY <1>2 DEF IsInjective
  <2>2. Min({k}) = k
    BY DEF Min
  <2>3. RemoveFirst(q, x) = RemoveAt(q, k)
    BY <1>2, <2>1, <2>2 DEF RemoveFirst, SelectInSeq
  <2>. DEFINE a == SubSeq(q, 1, k - 1)
              b == SubSeq(q, k + 1, Len(q))
  <2>4. /\ a \in Seq(S) /\ Len(a) = k - 1 /\ \A i \in 1 .. k - 1 : a[i] = q[i]
        /\ b \in Seq(S) /\ Len(b) = Len(q) - k /\ \A i \in 1 .. Len(q) - k : b[i] = q[k + i]
    OBVIOUS
  <2>5. RemoveAt(q, k) = a \o b
    BY DEF RemoveAt
  <2>. HIDE DEF a, b
  <2>6. /\ a \o b \in Seq(S) /\ Len(a \o b) = Len(q) - 1
        /\ \A i \in 1 .. Len(q) - 1 : (a \o b)[i] = IF i < k THEN q[i] ELSE q[i + 1]
    <3>0. a \in Seq(S) /\ b \in Seq(S)
      BY <2>4
    <3>1. a \o b \in Seq(S) /\ Len(a \o b) = Len(a) + Len(b)
      BY <3>0
    <3>2. Len(q) \in Nat /\ k \in Nat
      OBVIOUS
    <3>3. Len(a \o b) = Len(q) - 1
      BY <2>4, <3>1, <3>2
    <3>4. \A i \in 1 .. Len(q) - 1 : (a \o b)[i] = IF i <= Len(a) THEN a[i] ELSE b[i - Len(a)]
      BY <2>4, <3>1, <3>3
    <3>5. ASSUME NEW i \in 1 .. Len(q) - 1
          PROVE  (a \o b)[i] = IF i < k THEN q[i] ELSE q[i + 1]
      <4>1. CASE i < k
        <5>1. i \in 1 .. k - 1 /\ i <= Len(a)
          BY <2>4, <3>2, <4>1
        <5>. QED
          BY <2>4, <3>4, <4>1, <5>1
      <4>2. CASE ~(i < k)
        <5>1. i - Len(a) = i - k + 1 /\ i - k + 1 \in 1 .. Len(q) - k /\ ~(i <= Len(a))
          BY <2>4, <3>2, <4>2
        <5>2. b[i - k + 1] = q[k + (i - k + 1)] /\ k + (i - k + 1) = i + 1
          BY <2>4, <3>2, <5>1
        <5>. QED
          BY <3>4, <4>2, <5>1, <5>2
      <4>. QED
        BY <4>1, <4>2
    <3>. QED
      BY <3>1, <3>3, <3>5
  <2>. DEFINE r == RemoveFirst(q, x)
  <2>7. /\ r \in Seq(S) /\ DOMAIN r = 1 .. Len(q) - 1
        /\ \A i \in 1 .. Len(q) - 1 : r[i] = IF i < k THEN q[i] ELSE q[i + 1]
    BY <2>3, <2>5, <2>6
  <2>. HIDE DEF r
  <2>8. IsInjective(r)
    <3>. DEFINE At(i) == IF i < k THEN i ELSE i + 1
    <3>1. \A i \in DOMAIN r : At(i) \in DOMAIN q /\ r[i] = q[At(i)]
      BY <2>7
    <3>2. \A i, j \in DOMAIN r : At(i) = At(j) => i = j
      BY <2>7
    <3>. HIDE DEF At
    <3>. QED
      BY <3>1, <3>2 DEF IsInjective
  <2>9. ToSet(r) \subseteq ToSet(q) \ {x}
    BY <1>2, <2>7 DEF IsInjective, ToSet
  <2>10. ASSUME NEW y \in ToSet(q) \ {x}
         PROVE  y \in ToSet(r)
    <3>1. PICK j \in 1 .. Len(q) : q[j] = y
      BY DEF ToSet
    <3>2. CASE j < k
      <4>1. j \in DOMAIN r /\ r[j] = y
        BY <2>7, <3>1, <3>2
      <4>. QED
        BY <4>1 DEF ToSet
    <3>3. CASE j > k
      <4>1. j - 1 \in DOMAIN r /\ r[j - 1] = y
        BY <2>7, <3>1, <3>3
      <4>. QED
        BY <4>1 DEF ToSet
    <3>. QED
      BY <1>2, <3>1, <3>2, <3>3
  <2>. QED
    BY <2>7, <2>8, <2>9, <2>10 DEF r
<1>3. x \in ToSet(q) => \E k \in 1 .. Len(q) : q[k] = x
  BY DEF ToSet
<1>. QED
  BY <1>1, <1>2, <1>3

-----------------------------------------------------------------------------
(* What a step does to the calls and the lists.                             *)

\* A thread's steps, but for those that only wait.
Acts(c) ==
  \/ \E cmd, uid : Begin(c, cmd, uid)
  \/ Post(c) \/ PostFails(c) \/ Enqueue(c) \/ Wake(c) \/ FreeMsg(c)

LEMMA ReturnedIs ==
  ASSUME NEW v
  PROVE  Returned(v).pc = "idle" /\ Returned(v).cmd = "none" /\ Returned(v).seq = 0
BY DEF Returned

LEMMA OthersStay ==
  ASSUME Typed, NEW c \in Callers, NEW d \in Callers \ {c}, Acts(c)
  PROVE  call'[d] = call[d]
BY DEF Typed, Acts, Post, PostFails, Enqueue, Wake, FreeMsg, Begin

LEMMA BeginDoes ==
  ASSUME Typed, NEW c \in Callers, NEW cmd, NEW uid, Begin(c, cmd, uid)
  PROVE  /\ call[c].pc = "idle"
         /\ UNCHANGED <<seq, msgs, openList, asked, toServer, up>>
         /\ \/ call'[c] = Returned(ENODEV)
            \/ /\ call'[c].pc = "checked" /\ call'[c].seq = call[c].seq
               /\ call'[c].cmd \in ListCommands =>
                    \A d \in Callers : call[d].pc # "idle" => call[d].cmd \notin ListCommands
<1>1. call \in [Callers -> CallState] /\ call[c] \in CallState
  BY DEF Typed
<1>2. CASE disconnected /\ cmd # "filter"
  BY <1>1, <1>2 DEF Begin, link
<1>3. CASE ~(disconnected /\ cmd # "filter")
  <2>1. call' = [call EXCEPT ![c] = [call[c] EXCEPT !.pc = "checked", !.cmd = cmd, !.uid = uid]]
    BY <1>3 DEF Begin
  <2>2. call'[c].pc = "checked" /\ call'[c].seq = call[c].seq /\ call'[c].cmd = cmd
    BY <1>1, <2>1 DEF CallState
  <2>. QED
    BY <2>2 DEF Begin, link
<1>. QED
  BY <1>2, <1>3

LEMMA PostDoes ==
  ASSUME Typed, NEW c \in Callers, Post(c)
  PROVE  /\ call[c].pc = "checked"
         /\ UNCHANGED <<msgs, openList, up>> /\ seq' = seq + 1
         /\ call'[c].pc = "posting" /\ call'[c].seq = seq + 1
         /\ call'[c].cmd = call[c].cmd /\ call'[c].uid = call[c].uid
         /\ asked' = asked \cup {Request(seq + 1, call[c].cmd, call[c].uid)}
         /\ toServer' = Deliver(toServer, Request(seq + 1, call[c].cmd, call[c].uid))
BY DEF Typed, CallState, Post

LEMMA PostFailsDoes ==
  ASSUME Typed, LossKnown, NEW c \in Callers, PostFails(c)
  PROVE  /\ call[c].pc = "checked" /\ ~up
         /\ UNCHANGED <<msgs, asked, toServer, up>>
         /\ call'[c] = Returned(NotSent(call[c].cmd))
BY DEF Typed, LossKnown, PostFails, link

LEMMA EnqueueDoes ==
  ASSUME Typed, NEW c \in Callers, Enqueue(c)
  PROVE  /\ call[c].pc = "posting"
         /\ UNCHANGED <<seq, openList, asked, toServer, up>>
         /\ msgs' = Append(msgs, call[c].seq)
         /\ call'[c].pc = "posted" /\ call'[c].seq = call[c].seq
         /\ call'[c].cmd = call[c].cmd /\ call'[c].uid = call[c].uid
BY DEF Typed, CallState, Enqueue, link

LEMMA WakeDoes ==
  ASSUME Typed, NEW c \in Callers, Wake(c)
  PROVE  /\ call[c].pc = "signalled"
         /\ UNCHANGED <<seq, msgs, asked, toServer, up>>
         /\ \/ /\ call[c].cmd = "open" /\ call[c].val >= 0
               /\ call'[c] = Returned(call[c].val)
               /\ openList' = Append(openList, call[c].val)
            \/ /\ call'[c].pc = "freeing" /\ call'[c].seq = call[c].seq
               /\ call'[c].cmd = call[c].cmd /\ call'[c].uid = call[c].uid
               /\ openList' = IF call[c].cmd = "close"
                              THEN RemoveFirst(openList, call[c].uid) ELSE openList
<1>1. CASE Opened(call[c])
  BY <1>1 DEF Typed, Wake, Opened, link
<1>2. CASE ~Opened(call[c])
  BY <1>2 DEF Typed, CallState, Wake, Unlisted, link
<1>. QED
  BY <1>1, <1>2

LEMMA FreeMsgDoes ==
  ASSUME Typed, NEW c \in Callers, FreeMsg(c)
  PROVE  /\ call[c].pc = "freeing"
         /\ UNCHANGED <<seq, openList, asked, toServer, up>>
         /\ call'[c] = Returned(call[c].val)
         /\ msgs' = RemoveFirst(msgs, call[c].seq)
BY DEF Typed, FreeMsg, Unqueued, link

\* A call that waits, or stays as it is.
Alike(c) ==
  /\ call'[c].cmd = call[c].cmd /\ call'[c].uid = call[c].uid /\ call'[c].seq = call[c].seq
  /\ \/ call'[c].pc = call[c].pc
     \/ {call[c].pc, call'[c].pc} \subseteq {"posted", "waiting", "signalled"}
Quiet == (\A c \in Callers : Alike(c)) /\ UNCHANGED <<seq, msgs, openList, asked>>

LEMMA QuietSteps ==
  ASSUME Typed, \/ UNCHANGED remote \/ UNCHANGED vars \/ Receiver
                \/ \E c \in Callers : Wait(c)
  PROVE  Quiet
<1>1. \A c \in Callers : call[c] \in CallState
  BY DEF Typed
<1>2. CASE UNCHANGED remote \/ UNCHANGED vars
  BY <1>2 DEF Quiet, Alike, remote, vars
<1>3. CASE Receiver
  <2>1. UNCHANGED <<seq, msgs, openList, asked>>
    BY <1>3 DEF Receiver, Receive, WalkOpenList, Match, Signal, RecvFails, WalkMsgs, CloseSocket
  <2>2. CASE Match
    BY <1>1, <2>1, <2>2 DEF Match, CallState, Quiet, Alike, Typed
  <2>. DEFINE Like(r, c) ==
         /\ r.cmd = call[c].cmd /\ r.uid = call[c].uid /\ r.seq = call[c].seq
         /\ r.pc = call[c].pc \/ (call[c].pc = "waiting" /\ r.pc = "signalled")
  <2>3. ASSUME NEW c \in Callers, NEW n
        PROVE  Signalled(n)[c] \in CallState /\ Like(Signalled(n)[c], c)
    <3>1. \/ Signalled(n)[c] = call[c]
          \/ /\ call[c].pc = "waiting"
             /\ Signalled(n)[c] = [call[c] EXCEPT !.pc = "signalled"]
      BY DEF Signalled
    <3>. DEFINE r == [call[c] EXCEPT !.pc = "signalled"]
    <3>2. call[c] \in CallState
      BY <1>1
    <3>5. Like(call[c], c)
      OBVIOUS
    <3>3. r \in CallState
      BY <1>1 DEF CallState
    <3>4. /\ r.cmd = call[c].cmd /\ r.uid = call[c].uid /\ r.seq = call[c].seq
          /\ r.pc = "signalled"
      BY <1>1 DEF CallState
    <3>. HIDE DEF r
    <3>. QED
      BY <3>1, <3>2, <3>3, <3>4, <3>5 DEF r
  <2>4. CASE Signal
    <3>1. \A c \in Callers : Alike(c)
      <4>1. \A c \in Callers : call'[c] = Signalled(rcv.pos)[c]
        BY <2>4 DEF Signal
      <4>. QED
        BY <2>3, <4>1 DEF Alike
    <3>. QED
      BY <2>1, <3>1 DEF Quiet
  <2>5. CASE WalkMsgs
    <3>1. ASSUME NEW c \in Callers
          PROVE  Alike(c)
      <4>1. CASE c \in Owners(rcv.pos)
        <5>1. call'[c] = [Signalled(rcv.pos)[c] EXCEPT !.val = ENODEV]
          BY <2>5, <4>1 DEF WalkMsgs, Told
        <5>2. Signalled(rcv.pos)[c] \in CallState /\ Like(Signalled(rcv.pos)[c], c)
          BY <2>3
        <5>. DEFINE r == Signalled(rcv.pos)[c]
        <5>3. r \in CallState /\ Like(r, c) /\ call'[c] = [r EXCEPT !.val = ENODEV]
          BY <5>1, <5>2
        <5>. HIDE DEF r
        <5>. QED
          BY <5>3 DEF CallState, Alike
      <4>2. CASE c \notin Owners(rcv.pos)
        BY <2>5, <4>2 DEF WalkMsgs, Alike
      <4>. QED
        BY <4>1, <4>2
    <3>. QED
      BY <2>1, <3>1 DEF Quiet
  <2>6. CASE Receive \/ WalkOpenList \/ RecvFails \/ CloseSocket
    BY <2>1, <2>6 DEF Receive, WalkOpenList, RecvFails, CloseSocket, Quiet, Alike
  <2>. QED
    BY <1>3, <2>2, <2>4, <2>5, <2>6 DEF Receiver
<1>4. ASSUME NEW c \in Callers, Wait(c)
      PROVE  Quiet
  <2>1. \A d \in Callers : Alike(d)
    BY <1>1, <1>4 DEF Wait, CallState, Alike, Typed
  <2>. QED
    BY <1>4, <2>1 DEF Wait, Quiet
<1>. QED
  BY <1>2, <1>3, <1>4

\* The daemon carries out the first request, or knows no method for it.
Effects(v) ==
  LET r == Head(toServer)
  IN  /\ toServer # <<>> /\ toServer' \in {Tail(toServer), <<>>}
      /\ \/ UNCHANGED <<done, uids>>
         \/ /\ done' = done \cup {Result(r.seq, v)}
            /\ \/ r.cmd \notin ListCommands /\ UNCHANGED uids
               \/ r.cmd = "open" /\ v = Failure /\ UNCHANGED uids
               \/ r.cmd = "open" /\ v \in Uids \ uids /\ uids' = uids \cup {v}
               \/ r.cmd = "close" /\ v = 0 /\ r.uid \in uids /\ uids' = uids \ {r.uid}

LEMMA ServerDoes ==
  ASSUME Typed, StuckAt, Server \/ Reader \/ Killed
  PROVE  \/ UNCHANGED <<uids, done, toServer>>
         \/ ~up /\ UNCHANGED done
         \/ \E v : Effects(v)
<1>1. ASSUME NEW v, AnswerWith(v)
      PROVE  done' = done \cup {Result(Head(toServer).seq, v)}
  BY <1>1 DEF AnswerWith, Result
<1>2. CASE ServeOther
  BY <1>1, <1>2 DEF ServeOther, Take, ListCommands, Effects
<1>3. CASE ServeUnknown
  BY <1>3 DEF ServeUnknown, Take, Effects
<1>4. CASE OpenFails
  BY <1>1, <1>4 DEF OpenFails, Take, Effects
<1>5. CASE OpenDevice
  <2>1. PICK u \in Uids \ uids : /\ done' = done \cup {Result(Head(toServer).seq, u)}
                                 /\ uids' = uids \cup {u}
    BY <1>5 DEF OpenDevice, Result
  <2>2. toServer # <<>> /\ toServer' = Tail(toServer) /\ Head(toServer).cmd = "open"
    BY <1>5 DEF OpenDevice, Take
  <2>. QED
    BY <2>1, <2>2 DEF Effects
<1>6. CASE CloseDevice
  BY <1>1, <1>6 DEF CloseDevice, Take, Effects
<1>9. CASE ServeLate
  <2>1. toServer # <<>> /\ Head(toServer).cmd = "setparms"
    BY <1>9, TailOf DEF ServeLate, StuckAt, Typed
  <2>. QED
    BY <1>1, <1>9, <2>1 DEF ServeLate, ListCommands, Effects
<1>7. CASE LockAnswer \/ SendAnswer \/ Reader
  BY <1>7 DEF LockAnswer, SendLength, SendAnswer, Reader, ReaderEnds, ReaderGone, ReaderReads, ReaderLocks,
              ReaderSends, ReaderDies, link
<1>10. CASE Misread \/ UnlockAndInsert \/ UnlockAgain
  BY <1>10 DEF Misread, UnlockAndInsert, UnlockAgain, Unlocks, link
<1>8. CASE Hangup \/ Killed
  BY <1>8 DEF Hangup, Killed
<1>. QED
  BY <1>2, <1>3, <1>4, <1>5, <1>6, <1>7, <1>8, <1>9, <1>10 DEF Server

LEMMA Steps ==
  ASSUME Typed, StuckAt, [Next]_vars
  PROVE  \/ Quiet /\ UNCHANGED <<uids, done>> /\ (up' => UNCHANGED toServer)
         \/ Quiet /\ ~up /\ UNCHANGED done
         \/ Quiet /\ UNCHANGED remote /\ \E v : Effects(v)
         \/ \E c \in Callers : UNCHANGED daemon /\ Acts(c)
<1>1. CASE UNCHANGED vars
  BY <1>1, QuietSteps DEF vars, daemon, link
<1>2. CASE UNCHANGED daemon /\ Receiver
  <2>1. UNCHANGED toServer
    BY <1>2 DEF Receiver, Receive, WalkOpenList, Match, Signal, RecvFails, WalkMsgs,
                CloseSocket, link
  <2>. QED
    BY <1>2, <2>1, QuietSteps DEF daemon
<1>3. CASE UNCHANGED remote /\ (Server \/ Reader \/ Killed)
  BY <1>3, QuietSteps, ServerDoes
<1>4. CASE UNCHANGED <<remote, daemon>> /\ Break
  <2>1. UNCHANGED remote /\ UNCHANGED <<uids, done>>
    BY <1>4 DEF daemon
  <2>. QED
    BY <1>4, <2>1, QuietSteps DEF Break
<1>5. ASSUME NEW c \in Callers, Wait(c), UNCHANGED daemon
      PROVE  Quiet /\ UNCHANGED <<uids, done>> /\ UNCHANGED toServer
  BY <1>5, QuietSteps DEF Wait, daemon, link
<1>. QED
  BY <1>1, <1>2, <1>3, <1>4, <1>5, WhoSteps DEF CallerStep, Acts

\* A result that a request has does not change, and new ones are of the request
\* that is first in line.
LEMMA DoneDoes ==
  ASSUME Typed, StuckAt, [Next]_vars
  PROVE  \/ UNCHANGED done
         \/ Quiet /\ \E v : Effects(v)
BY Steps DEF daemon

-----------------------------------------------------------------------------
(* What each part needs.                                                    *)

LEMMA BlankStep ==
  ASSUME Typed, LossKnown, StuckAt, Blank, [Next]_vars
  PROVE  Blank'
<1>. DEFINE Ok(r) == /\ r.pc = "idle" => r.cmd = "none"
                     /\ r.pc \in {"idle", "checked"} => r.seq = 0
<1>1. \A c \in Callers : Ok(call[c])
  BY DEF Blank
<1>2. \A v : Ok(Returned(v))
  BY DEF Returned
<1>3. CASE Quiet
  BY <1>1, <1>3 DEF Quiet, Alike, Blank
<1>4. ASSUME NEW c \in Callers, Acts(c)
      PROVE  Ok(call'[c])
  BY <1>1, <1>2, <1>4, BeginDoes, PostDoes, PostFailsDoes, EnqueueDoes, WakeDoes, FreeMsgDoes
     DEF Acts
<1>5. ASSUME NEW c \in Callers, Acts(c)
      PROVE  \A d \in Callers : Ok(call'[d])
  <2>1. ASSUME NEW d \in Callers \ {c}
        PROVE  call'[d] = call[d]
    BY <1>5, OthersStay
  <2>. HIDE DEF Ok
  <2>. QED
    BY <1>1, <1>4, <1>5, <2>1
<1>6. (\A d \in Callers : Ok(call'[d])) => Blank'
  BY DEF Blank
<1>. HIDE DEF Ok
<1>. QED
  BY <1>3, <1>5, <1>6, Steps

LEMMA OneAtATimeStep ==
  ASSUME Typed, LossKnown, StuckAt, Blank, OneAtATime, [Next]_vars
  PROVE  OneAtATime'
<1>1. CASE Quiet
  BY <1>1 DEF Quiet, Alike, OneAtATime
<1>2. ASSUME NEW c \in Callers, Acts(c)
      PROVE  OneAtATime'
  <2>1. \A d \in Callers \ {c} : call'[d] = call[d]
    BY <1>2, OthersStay
  <2>2. CASE call'[c].cmd = call[c].cmd \/ call'[c].cmd \notin ListCommands
    BY <2>1, <2>2 DEF OneAtATime
  <2>3. CASE \E cmd, uid : Begin(c, cmd, uid)
    <3>1. \/ call'[c] = Returned(ENODEV)
          \/ call'[c].cmd \in ListCommands =>
               \A d \in Callers : call[d].pc # "idle" => call[d].cmd \notin ListCommands
      BY <2>3, BeginDoes
    <3>2. \A d \in Callers : call[d].pc = "idle" => call[d].cmd \notin ListCommands
      BY DEF Blank, ListCommands
    <3>3. Returned(ENODEV).cmd \notin ListCommands
      BY DEF Returned, ListCommands
    <3>. QED
      BY <2>1, <2>2, <3>1, <3>2, <3>3 DEF OneAtATime
  <2>4. \A v : Returned(v).cmd \notin ListCommands
    BY DEF Returned, ListCommands
  <2>. QED
    BY <1>2, <2>2, <2>3, <2>4, PostDoes, PostFailsDoes, EnqueueDoes, WakeDoes, FreeMsgDoes
       DEF Acts
<1>. QED
  BY <1>1, <1>2, Steps

LEMMA AskedTrueStep ==
  ASSUME Typed, LossKnown, StuckAt, NumbersUsed, AskedTrue, [Next]_vars
  PROVE  AskedTrue'
<1>1. seq \in Nat /\ \A r \in asked : r.seq \in 1 .. seq
  BY DEF Typed, NumbersUsed
<1>2. ASSUME UNCHANGED asked,
             \A c \in Callers : call'[c].pc \in Sent =>
               /\ call[c].pc \in Sent
               /\ call'[c].seq = call[c].seq /\ call'[c].cmd = call[c].cmd
               /\ call'[c].uid = call[c].uid
      PROVE  AskedTrue'
  BY <1>2 DEF AskedTrue
<1>3. CASE Quiet
  BY <1>2, <1>3 DEF Quiet, Alike, Sent
<1>4. ASSUME NEW c \in Callers, Acts(c)
      PROVE  AskedTrue'
  <2>1. \A d \in Callers \ {c} : call'[d] = call[d]
    BY <1>4, OthersStay
  <2>2. CASE Post(c)
    <3>. DEFINE m == Request(seq + 1, call[c].cmd, call[c].uid)
    <3>1. m.seq = seq + 1
      BY DEF Request
    <3>2. asked' = asked \cup {m}
      BY <2>2, PostDoes
    <3>3. Request(call'[c].seq, call'[c].cmd, call'[c].uid) = m
      BY <2>2, PostDoes
    <3>. HIDE DEF m
    <3>4. \A r, s \in asked' : r.seq = s.seq => r = s
      BY <1>1, <3>1, <3>2 DEF AskedTrue
    <3>5. \A d \in Callers : call'[d].pc \in Sent =>
            Request(call'[d].seq, call'[d].cmd, call'[d].uid) \in asked'
      BY <2>1, <3>2, <3>3 DEF AskedTrue
    <3>. QED
      BY <3>4, <3>5 DEF AskedTrue
  <2>3. \A v : Returned(v).pc \notin Sent
    BY DEF Returned, Sent
  <2>4. CASE \E cmd, uid : Begin(c, cmd, uid)
    <3>1. UNCHANGED asked /\ call'[c].pc \notin Sent
      BY <2>3, <2>4, BeginDoes DEF Sent
    <3>. QED
      BY <1>2, <2>1, <3>1
  <2>5. CASE PostFails(c) \/ FreeMsg(c)
    <3>1. UNCHANGED asked /\ call'[c].pc \notin Sent
      BY <2>3, <2>5, PostFailsDoes, FreeMsgDoes
    <3>. QED
      BY <1>2, <2>1, <3>1
  <2>6. CASE Enqueue(c)
    <3>1. /\ UNCHANGED asked /\ call[c].pc \in Sent
          /\ call'[c].seq = call[c].seq /\ call'[c].cmd = call[c].cmd
          /\ call'[c].uid = call[c].uid
      BY <2>6, EnqueueDoes DEF Sent
    <3>. QED
      BY <1>2, <2>1, <3>1
  <2>7. CASE Wake(c)
    <3>1. UNCHANGED asked /\ call'[c].pc \notin Sent
      BY <2>3, <2>7, WakeDoes DEF Sent
    <3>. QED
      BY <1>2, <2>1, <3>1
  <2>. QED
    BY <1>4, <2>2, <2>4, <2>5, <2>6, <2>7 DEF Acts
<1>. QED
  BY <1>3, <1>4, Steps

\* The request that is carried out is one that was made and has no result yet.
LEMMA FirstAsked ==
  ASSUME Typed, NumbersUsed, RequestsFresh, toServer # <<>>
  PROVE  /\ Head(toServer) \in asked
         /\ 1 \in DOMAIN toServer /\ Head(toServer) = toServer[1]
         /\ \A d \in done : d.seq # Head(toServer).seq
<1>1. Head(toServer) = toServer[1] /\ 1 \in DOMAIN toServer
  BY TailOf DEF Typed
<1>2. toServer[1] \in asked /\ \A d \in done : d.seq < toServer[1].seq
  BY <1>1 DEF RequestsFresh
<1>3. \A d \in done : d.seq \in Nat /\ toServer[1].seq \in Nat
  BY <1>2 DEF NumbersUsed
<1>. QED
  BY <1>1, <1>2, <1>3

LEMMA AskedGrows ==
  ASSUME Typed, StuckAt, [Next]_vars
  PROVE  asked \subseteq asked'
BY HistoryStep, PostDoes DEF remote

LEMMA DoneTrueStep ==
  ASSUME Typed, LossKnown, StuckAt, NumbersUsed, RequestsFresh, AskedTrue, DoneTrue, [Next]_vars
  PROVE  DoneTrue'
<1>1. \A d \in done : d.seq \in 1 .. seq /\ d.seq # seq + 1
  BY DEF NumbersUsed, Typed
<1>2. CASE UNCHANGED done
  <2>1. CASE UNCHANGED asked
    BY <1>2, <2>1 DEF DoneTrue
  <2>2. ASSUME NEW c \in Callers, Post(c)
        PROVE  DoneTrue'
    <3>. DEFINE m == Request(seq + 1, call[c].cmd, call[c].uid)
    <3>1. m.seq = seq + 1 /\ asked' = asked \cup {m}
      BY <2>2, PostDoes DEF Request
    <3>. HIDE DEF m
    <3>. QED
      BY <1>1, <1>2, <3>1 DEF DoneTrue
  <2>. QED
    BY <2>1, <2>2, HistoryStep DEF remote
<1>3. ASSUME Quiet, NEW v, Effects(v)
      PROVE  DoneTrue'
  <2>1. /\ Head(toServer) \in asked
        /\ \A d \in done : d.seq # Head(toServer).seq
    BY <1>3, FirstAsked DEF Effects
  <2>2. \/ UNCHANGED done
        \/ \E r \in asked : \E e :
             /\ done' = done \cup {e}
             /\ e.seq = r.seq /\ \A d \in done : d.seq # e.seq
             /\ r.cmd = "open" => e.val \in Uids \cup {Failure}
    <3>. DEFINE r == Head(toServer)
                e == Result(r.seq, v)
    <3>1. \/ UNCHANGED done
          \/ done' = done \cup {e} /\ (r.cmd = "open" => v \in Uids \cup {Failure})
      BY <1>3 DEF Effects, ListCommands
    <3>2. e.seq = r.seq /\ e.val = v
      BY DEF Result
    <3>. HIDE DEF e
    <3>. QED
      BY <2>1, <3>1, <3>2
  <2>3. UNCHANGED asked
    BY <1>3 DEF Quiet
  <2>4. ASSUME NEW r \in asked, NEW e, done' = done \cup {e}, e.seq = r.seq,
               \A d \in done : d.seq # e.seq,
               r.cmd = "open" => e.val \in Uids \cup {Failure}
        PROVE  DoneTrue'
    <3>1. \A d, f \in done' : d.seq = f.seq => d = f
      BY <2>4 DEF DoneTrue
    <3>2. ASSUME NEW q \in asked, NEW d \in done', q.seq = d.seq, q.cmd = "open"
          PROVE  d.val \in Uids \cup {Failure}
      <4>1. CASE d \in done
        BY <3>2, <4>1 DEF DoneTrue
      <4>2. CASE d = e
        <5>1. q = r
          BY <2>4, <3>2, <4>2 DEF AskedTrue
        <5>. QED
          BY <2>4, <3>2, <4>2, <5>1
      <4>. QED
        BY <2>4, <4>1, <4>2
    <3>. QED
      BY <2>3, <3>1, <3>2 DEF DoneTrue
  <2>. QED
    BY <1>2, <2>2, <2>4
<1>. QED
  BY <1>2, <1>3, DoneDoes

LEMMA QueueDistinctStep ==
  ASSUME Typed, LossKnown, StuckAt, NumbersUsed, QueueDistinct, QueueOwned, [Next]_vars
  PROVE  QueueDistinct'
<1>1. seq \in Nat /\ seq' \in Nat /\ seq' >= seq
  BY ToServerTyped DEF Typed
<1>2. CASE UNCHANGED msgs
  BY <1>1, <1>2 DEF QueueDistinct
<1>3. ASSUME NEW c \in Callers, Enqueue(c)
      PROVE  QueueDistinct'
  <2>1. call[c].seq \in 1 .. seq /\ call[c].seq \in Nat
    BY <1>3, EnqueueDoes DEF NumbersUsed, Sent
  <2>2. call[c].seq \notin ToSet(msgs) /\ msgs' = Append(msgs, call[c].seq)
    BY <1>3, EnqueueDoes DEF QueueOwned
  <2>3. /\ msgs' \in Seq(Nat) /\ IsInjective(msgs')
        /\ ToSet(msgs') = ToSet(msgs) \cup {call[c].seq}
    BY <2>1, <2>2, AppendOne DEF QueueDistinct
  <2>. QED
    BY <1>1, <2>1, <2>3 DEF QueueDistinct
<1>4. ASSUME NEW c \in Callers, FreeMsg(c)
      PROVE  QueueDistinct'
  <2>1. msgs' = RemoveFirst(msgs, call[c].seq)
    BY <1>4, FreeMsgDoes
  <2>2. /\ msgs' \in Seq(Nat) /\ IsInjective(msgs')
        /\ ToSet(msgs') = ToSet(msgs) \ {call[c].seq}
    BY <2>1, UnlinkOne DEF QueueDistinct
  <2>. QED
    BY <1>1, <2>2 DEF QueueDistinct
<1>5. Quiet => UNCHANGED msgs
  BY DEF Quiet
<1>6. ASSUME NEW c \in Callers, Acts(c)
      PROVE  UNCHANGED msgs \/ Enqueue(c) \/ FreeMsg(c)
  BY <1>6, BeginDoes, PostDoes, PostFailsDoes, WakeDoes DEF Acts
<1>. QED
  BY <1>2, <1>3, <1>4, <1>5, <1>6, Steps

LEMMA QueueOwnedStep ==
  ASSUME Typed, LossKnown, StuckAt, NumbersUsed, CallTrue, QueueDistinct, Blank, AskedTrue, DoneTrue,
         QueueOwned, [Next]_vars
  PROVE  QueueOwned'
<1>1. seq \in Nat /\ \A n \in ToSet(msgs) : n \in Nat /\ n # 0 /\ n # seq + 1
  BY DEF Typed, QueueDistinct
<1>2. done \subseteq done' /\ asked \subseteq asked'
  BY DoneGrows, AskedGrows
<1>3. CASE Quiet
  <2>1. \A c \in Callers : /\ call'[c].seq = call[c].seq
                           /\ call'[c].pc = "posting" => call[c].pc = "posting"
    BY <1>3 DEF Quiet, Alike
  <2>2. UNCHANGED msgs
    BY <1>3 DEF Quiet
  <2>. QED
    BY <1>2, <2>1, <2>2 DEF QueueOwned, Owned
<1>4. ASSUME NEW c \in Callers, Acts(c)
      PROVE  QueueOwned'
  <2>1. \A d \in Callers \ {c} : call'[d] = call[d]
    BY <1>4, OthersStay
  <2>2. ASSUME UNCHANGED msgs, call'[c].pc # "posting",
               \A n : n = call[c].seq /\ n \in ToSet(msgs) => Owned(n)'
        PROVE  QueueOwned'
    <3>1. ASSUME NEW n \in ToSet(msgs), n # call[c].seq
          PROVE  Owned(n)'
      BY <1>2, <2>1, <3>1 DEF QueueOwned, Owned
    <3>. QED
      BY <2>1, <2>2, <3>1 DEF QueueOwned
  <2>3. CASE (\E cmd, uid : Begin(c, cmd, uid)) \/ PostFails(c)
    <3>1. call[c].seq = 0 /\ UNCHANGED msgs
      BY <2>3, BeginDoes, PostFailsDoes DEF Blank
    <3>2. call'[c].pc # "posting"
      BY <2>3, ReturnedIs, BeginDoes, PostFailsDoes
    <3>. QED
      BY <1>1, <2>2, <3>1, <3>2
  <2>4. CASE Post(c)
    <3>1. call[c].seq = 0 /\ UNCHANGED msgs /\ call'[c].seq = seq + 1
      BY <2>4, PostDoes DEF Blank
    <3>2. \A n \in ToSet(msgs) : Owned(n)'
      BY <1>1, <1>2, <2>1, <3>1 DEF QueueOwned, Owned
    <3>. QED
      BY <1>1, <2>1, <3>1, <3>2 DEF QueueOwned
  <2>5. CASE Enqueue(c)
    <3>1. /\ call[c].pc = "posting" /\ call[c].seq \in Nat
          /\ call'[c].pc = "posted" /\ call'[c].seq = call[c].seq
          /\ msgs' = Append(msgs, call[c].seq)
      BY <2>5, EnqueueDoes DEF Typed, CallState
    <3>2. ToSet(msgs') = ToSet(msgs) \cup {call[c].seq}
      BY <3>1, AppendOne DEF QueueDistinct
    <3>3. ASSUME NEW d \in Callers, call'[d].pc = "posting"
          PROVE  call'[d].seq \notin ToSet(msgs')
      <4>1. d # c /\ call'[d] = call[d]
        BY <2>1, <3>1, <3>3
      <4>2. call[d].seq # call[c].seq
        BY <3>1, <3>3, <4>1 DEF NumbersUsed, Sent
      <4>. QED
        BY <3>2, <3>3, <4>1, <4>2 DEF QueueOwned
    <3>4. ASSUME NEW n \in ToSet(msgs')
          PROVE  Owned(n)'
      BY <1>2, <2>1, <3>1, <3>2 DEF QueueOwned, Owned
    <3>. QED
      BY <3>3, <3>4 DEF QueueOwned
  <2>6. CASE Wake(c)
    <3>1. call[c].pc = "signalled" /\ UNCHANGED <<msgs, asked>>
      BY <2>6, WakeDoes
    <3>2. CASE call'[c].seq = call[c].seq /\ call'[c].pc = "freeing"
      <4>1. \A n : n = call[c].seq => Owned(n)'
        BY <3>2 DEF Owned
      <4>. QED
        BY <2>2, <3>1, <3>2, <4>1
    <3>3. CASE call[c].cmd = "open" /\ call[c].val >= 0 /\ call'[c] = Returned(call[c].val)
      <4>. DEFINE d == Result(call[c].seq, call[c].val)
                  r == Request(call[c].seq, call[c].cmd, call[c].uid)
      <4>1. d \in done
        BY <3>1, <3>3 DEF CallTrue, ENODEV
      <4>2. r \in asked
        BY <3>1 DEF AskedTrue, Sent
      <4>3. d.seq = call[c].seq /\ d.val = call[c].val /\ r.seq = call[c].seq /\ r.cmd = "open"
        BY <3>3 DEF Result, Request
      <4>. HIDE DEF d, r
      <4>4. call[c].val \in Uids \cup {Failure}
        BY <4>1, <4>2, <4>3 DEF DoneTrue
      <4>5. d.val > 0
        <5>1. call[c].val \in Uids => call[c].val \in Nat /\ call[c].val # 0
          BY LinkAssumption
        <5>2. call[c].val # Failure
          BY <3>3 DEF Failure
        <5>. QED
          BY <4>3, <4>4, <5>1, <5>2
      <4>6. \A n : n = call[c].seq => Owned(n)'
        BY <1>2, <4>1, <4>2, <4>3, <4>5 DEF Owned
      <4>7. call'[c].pc # "posting"
        BY <3>3 DEF Returned
      <4>. QED
        BY <2>2, <3>1, <4>6, <4>7
    <3>. QED
      BY <2>6, <3>2, <3>3, WakeDoes
  <2>7. CASE FreeMsg(c)
    <3>0. Returned(call[c].val).pc # "posting"
      BY DEF Returned
    <3>1. msgs' = RemoveFirst(msgs, call[c].seq) /\ call'[c].pc # "posting"
      BY <2>7, <3>0, FreeMsgDoes
    <3>2. ToSet(msgs') = ToSet(msgs) \ {call[c].seq}
      BY <3>1, UnlinkOne DEF QueueDistinct
    <3>3. \A d \in Callers : call'[d].pc = "posting" => call'[d].seq \notin ToSet(msgs')
      BY <2>1, <3>1, <3>2 DEF QueueOwned
    <3>4. \A n \in ToSet(msgs') : Owned(n)'
      BY <1>2, <2>1, <3>2 DEF QueueOwned, Owned
    <3>. QED
      BY <3>3, <3>4 DEF QueueOwned
  <2>. QED
    BY <1>4, <2>3, <2>4, <2>5, <2>6, <2>7 DEF Acts
<1>. QED
  BY <1>3, <1>4, Steps

\* Numbers are given out once; a thread keeps its number until it has freed the
\* message.
LEMMA ApartStep ==
  ASSUME Typed, LossKnown, StuckAt, Apart, [Next]_vars
  PROVE  Apart'
<1>1. seq \in Nat /\ seq' \in Nat /\ seq' >= seq
  BY ToServerTyped DEF Typed
<1>2. CASE Quiet
  BY <1>1, <1>2 DEF Quiet, Alike, Apart
<1>3. ASSUME NEW c \in Callers, Acts(c)
      PROVE  Apart'
  <2>1. \A d \in Callers \ {c} : call'[d] = call[d]
    BY <1>3, OthersStay
  <2>2. CASE call'[c].seq \in {0, call[c].seq}
    BY <1>1, <2>1, <2>2 DEF Apart
  <2>3. CASE call'[c].seq = seq + 1 /\ seq' = seq + 1
    BY <1>1, <2>1, <2>3 DEF Apart
  <2>. QED
    BY <1>3, <2>2, <2>3, ReturnedIs, BeginDoes, PostDoes, PostFailsDoes, EnqueueDoes, WakeDoes,
       FreeMsgDoes DEF Acts
<1>. QED
  BY <1>2, <1>3, Steps

\* A message stays in the queue until its own thread takes it out.
LEMMA CallQueuedStep ==
  ASSUME Typed, LossKnown, StuckAt, QueueDistinct, Apart, CallQueued, [Next]_vars
  PROVE  CallQueued'
<1>1. CASE Quiet
  BY <1>1 DEF Quiet, Alike, CallQueued, Queued
<1>2. ASSUME NEW c \in Callers, Acts(c)
      PROVE  CallQueued'
  <2>1. \A d \in Callers \ {c} : call'[d] = call[d]
    BY <1>2, OthersStay
  <2>2. ASSUME ToSet(msgs) \subseteq ToSet(msgs'),
               call'[c].pc \in Queued => call'[c].seq \in ToSet(msgs')
        PROVE  CallQueued'
    BY <2>1, <2>2 DEF CallQueued
  <2>3. \A v : Returned(v).pc \notin Queued
    BY DEF Returned, Queued
  <2>4. CASE (\E cmd, uid : Begin(c, cmd, uid)) \/ Post(c) \/ PostFails(c)
    <3>1. UNCHANGED msgs
      BY <2>4, BeginDoes, PostDoes, PostFailsDoes
    <3>2. call'[c].pc \notin Queued
      BY <2>3, <2>4, BeginDoes, PostDoes, PostFailsDoes DEF Queued
    <3>. QED
      BY <2>2, <3>1, <3>2
  <2>5. CASE Enqueue(c)
    <3>1. /\ msgs' = Append(msgs, call[c].seq)
          /\ call'[c].seq = call[c].seq /\ call[c].seq \in Nat
      BY <2>5, EnqueueDoes DEF Typed, CallState
    <3>2. ToSet(msgs') = ToSet(msgs) \cup {call[c].seq}
      BY <3>1, AppendOne DEF QueueDistinct
    <3>. QED
      BY <2>2, <3>1, <3>2
  <2>6. CASE Wake(c)
    <3>1. call[c].pc \in Queued /\ UNCHANGED msgs
      BY <2>6, WakeDoes DEF Queued
    <3>2. call'[c].pc \notin Queued \/ call'[c].seq = call[c].seq
      BY <2>3, <2>6, WakeDoes
    <3>. QED
      BY <2>2, <3>1, <3>2 DEF CallQueued
  <2>7. CASE FreeMsg(c)
    <3>1. /\ msgs' = RemoveFirst(msgs, call[c].seq)
          /\ call[c].pc = "freeing" /\ call'[c].pc \notin Queued
      BY <2>3, <2>7, FreeMsgDoes
    <3>2. ToSet(msgs') = ToSet(msgs) \ {call[c].seq}
      BY <3>1, UnlinkOne DEF QueueDistinct
    <3>3. ASSUME NEW d \in Callers \ {c}, call[d].pc \in Queued
          PROVE  call[d].seq \in ToSet(msgs')
      <4>1. call[d].seq \in ToSet(msgs)
        BY <3>3 DEF CallQueued
      <4>2. call[d].seq # 0
        BY <4>1 DEF QueueDistinct, Typed
      <4>3. call[d].seq # call[c].seq
        BY <4>2 DEF Apart
      <4>. QED
        BY <3>2, <4>1, <4>3
    <3>. QED
      BY <2>1, <3>1, <3>3 DEF CallQueued
  <2>. QED
    BY <1>2, <2>4, <2>5, <2>6, <2>7 DEF Acts
<1>. QED
  BY <1>1, <1>2, Steps

\* The request to open or close that is first in line is that of the one call
\* that opens or closes.
LEMMA FirstIsOf ==
  ASSUME Typed, NumbersUsed, RequestsFresh, AskedTrue, ListRequests, toServer # <<>>,
         Head(toServer).cmd \in ListCommands
  PROVE  \E c \in Callers : /\ call[c].pc \in Sent /\ call[c].seq = Head(toServer).seq
                            /\ call[c].cmd = Head(toServer).cmd
                            /\ call[c].uid = Head(toServer).uid
<1>1. PICK c \in Callers : call[c].pc \in Sent /\ call[c].seq = Head(toServer).seq
  BY FirstAsked DEF ListRequests
<1>. DEFINE r == Request(call[c].seq, call[c].cmd, call[c].uid)
<1>2. r \in asked /\ Head(toServer) \in asked
  BY <1>1, FirstAsked DEF AskedTrue
<1>3. r.seq = call[c].seq /\ r.cmd = call[c].cmd /\ r.uid = call[c].uid
  BY DEF Request
<1>. HIDE DEF r
<1>4. r = Head(toServer)
  BY <1>1, <1>2, <1>3 DEF AskedTrue
<1>. QED
  BY <1>1, <1>3, <1>4

\* What a successful open appends to open_list.
LEMMA OpensNew ==
  ASSUME Typed, CallTrue, AskedTrue, DoneTrue, OpenedAside, up,
         NEW c \in Callers, call[c].pc = "signalled", call[c].cmd = "open", call[c].val >= 0
  PROVE  call[c].val \in Uids /\ call[c].val \in uids \ ToSet(openList)
<1>. DEFINE d == Result(call[c].seq, call[c].val)
            r == Request(call[c].seq, call[c].cmd, call[c].uid)
<1>1. d \in done /\ r \in asked
  BY DEF CallTrue, AskedTrue, Sent
<1>2. d.seq = call[c].seq /\ d.val = call[c].val /\ r.seq = call[c].seq /\ r.cmd = "open"
  BY DEF Result, Request
<1>3. Result(call[c].seq, call[c].val) \in done
  BY <1>1
<1>. HIDE DEF d, r
<1>4. call[c].val \in Uids \cup {Failure}
  BY <1>1, <1>2 DEF DoneTrue
<1>5. call[c].val \in Uids
  BY <1>4 DEF Failure
<1>. QED
  BY <1>3, <1>5 DEF OpenedAside, Sent

\* What a thread does to open_list.
LEMMA ListDoes ==
  ASSUME Typed, LossKnown, CallTrue, AskedTrue, DoneTrue, ListTrue, up,
         NEW c \in Callers, Acts(c)
  PROVE  /\ openList \in Seq(Uids)
         /\ openList' \in Seq(Uids) /\ IsInjective(openList')
         /\ \/ UNCHANGED openList /\ ~Wake(c)
            \/ /\ Wake(c) /\ call[c].cmd = "open"
               /\ call'[c] = Returned(call[c].val)
               /\ call[c].val \in uids
               /\ ToSet(openList') = ToSet(openList) \cup {call[c].val}
            \/ /\ Wake(c) /\ call[c].cmd = "close"
               /\ ToSet(openList') = ToSet(openList) \ {call[c].uid}
            \/ /\ Wake(c) /\ call[c].cmd # "close" /\ UNCHANGED openList
<1>0. openList \in Seq(Uids) /\ IsInjective(openList) /\ OpenedAside
  BY DEF ListTrue
<1>1. CASE Wake(c)
  <2>1. CASE /\ call[c].cmd = "open" /\ call[c].val >= 0
             /\ call'[c] = Returned(call[c].val)
             /\ openList' = Append(openList, call[c].val)
    <3>1. call[c].val \in Uids /\ call[c].val \in uids \ ToSet(openList)
      BY <1>0, <1>1, <2>1, WakeDoes, OpensNew
    <3>2. /\ openList' \in Seq(Uids) /\ IsInjective(openList')
          /\ ToSet(openList') = ToSet(openList) \cup {call[c].val}
      BY <1>0, <2>1, <3>1, AppendOne
    <3>. QED
      BY <1>0, <1>1, <2>1, <3>1, <3>2
  <2>2. CASE call[c].cmd = "close" /\ openList' = RemoveFirst(openList, call[c].uid)
    <3>1. /\ openList' \in Seq(Uids) /\ IsInjective(openList')
          /\ ToSet(openList') = ToSet(openList) \ {call[c].uid}
      BY <1>0, <2>2, UnlinkOne
    <3>. QED
      BY <1>0, <1>1, <2>2, <3>1
  <2>3. CASE call[c].cmd # "close" /\ UNCHANGED openList
    BY <1>0, <1>1, <2>3
  <2>. QED
    BY <1>1, <2>1, <2>2, <2>3, WakeDoes
<1>2. CASE ~Wake(c)
  <2>1. UNCHANGED openList
    BY <1>2, BeginDoes, PostDoes, PostFailsDoes, EnqueueDoes, FreeMsgDoes DEF Acts
  <2>. QED
    BY <1>0, <1>2, <2>1
<1>. QED
  BY <1>1, <1>2

\* What the steps are while the connection holds.
LEMMA StepsUp ==
  ASSUME Typed, StuckAt, [Next]_vars, up'
  PROVE  /\ up
         /\ \/ Quiet /\ UNCHANGED <<uids, done, toServer>>
            \/ Quiet /\ \E v : Effects(v)
            \/ \E c \in Callers : UNCHANGED <<uids, done>> /\ Acts(c)
<1>1. up
  BY StaysDown
<1>2. UNCHANGED daemon => UNCHANGED <<uids, done>>
  BY DEF daemon
<1>. QED
  BY <1>1, <1>2, Steps

LEMMA ListRequestsStep ==
  ASSUME Typed, LossKnown, StuckAt, RequestsFresh, CallTrue, ListRequests, [Next]_vars, up'
  PROVE  ListRequests'
<1>. DEFINE Of(q) == q.cmd \in ListCommands =>
                       \E c \in Callers : call[c].pc \in Sent /\ call[c].seq = q.seq
            OfNow(q) == q.cmd \in ListCommands =>
                       \E c \in Callers : call'[c].pc \in Sent /\ call'[c].seq = q.seq
<1>1. \A i \in DOMAIN toServer : Of(toServer[i])
  BY DEF ListRequests
<1>2. (\A i \in DOMAIN toServer' : OfNow(toServer'[i])) => ListRequests'
  BY DEF ListRequests
<1>3. ASSUME Quiet, NEW q, Of(q)
      PROVE  OfNow(q)
  BY <1>3 DEF Quiet, Alike, Sent
<1>4. CASE Quiet /\ UNCHANGED toServer
  BY <1>1, <1>2, <1>3, <1>4
<1>5. ASSUME Quiet, NEW v, Effects(v)
      PROVE  ListRequests'
  <2>1. \A i \in DOMAIN toServer' : i + 1 \in DOMAIN toServer /\ toServer'[i] = toServer[i + 1]
    <3>1. CASE toServer' = <<>>
      BY <3>1
    <3>2. CASE toServer' = Tail(toServer)
      <4>1. toServer \in Seq(RequestSet) /\ toServer # <<>>
        BY <1>5 DEF Typed, Effects
      <4>. QED
        BY <3>2, <4>1, TailOf
    <3>. QED
      BY <1>5, <3>1, <3>2 DEF Effects
  <2>. QED
    BY <1>1, <1>2, <1>3, <1>5, <2>1
<1>6. ASSUME NEW c \in Callers, Acts(c)
      PROVE  ListRequests'
  <2>1. \A d \in Callers \ {c} : call'[d] = call[d]
    BY <1>6, OthersStay
  <2>2. ASSUME call[c].pc \notin Sent, UNCHANGED toServer
        PROVE  ListRequests'
    BY <1>1, <1>2, <2>1, <2>2
  <2>3. CASE (\E cmd, uid : Begin(c, cmd, uid)) \/ PostFails(c) \/ FreeMsg(c)
    BY <2>2, <2>3, BeginDoes, PostFailsDoes, FreeMsgDoes DEF Sent
  <2>4. CASE Enqueue(c)
    <3>1. UNCHANGED toServer /\ call'[c].pc \in Sent /\ call'[c].seq = call[c].seq
      BY <2>4, EnqueueDoes DEF Sent
    <3>. QED
      BY <1>1, <1>2, <2>1, <3>1
  <2>5. CASE Post(c)
    <3>. DEFINE m == Request(seq + 1, call[c].cmd, call[c].uid)
    <3>1. /\ toServer' = Deliver(toServer, m)
          /\ call'[c].pc \in Sent /\ call'[c].seq = m.seq /\ call[c].pc \notin Sent
      BY <2>5, PostDoes DEF Sent, Request
    <3>2. m \in RequestSet
      BY <2>5 DEF Post, Request, RequestSet, Typed, CallState
    <3>. HIDE DEF m
    <3>3. ASSUME NEW i \in DOMAIN toServer'
          PROVE  toServer'[i] = m \/ (i \in DOMAIN toServer /\ toServer'[i] = toServer[i])
      <4>1. toServer \in Seq(RequestSet)
        BY DEF Typed
      <4>2. \A j \in DOMAIN Deliver(toServer, m) :
              \/ j \in DOMAIN toServer /\ Deliver(toServer, m)[j] = toServer[j]
              \/ Deliver(toServer, m)[j] = m
        BY <3>2, <4>1, DeliverTo
      <4>. QED
        BY <3>1, <4>2
    <3>4. OfNow(m)
      BY <3>1
    <3>5. \A q : Of(q) => OfNow(q)
      BY <2>1, <3>1
    <3>. HIDE DEF Of, OfNow
    <3>. QED
      BY <1>1, <1>2, <3>3, <3>4, <3>5
  <2>6. CASE Wake(c)
    <3>1. UNCHANGED toServer /\ Result(call[c].seq, call[c].val) \in done
      BY <2>6, WakeDoes, StepsUp DEF CallTrue
    <3>2. ASSUME NEW i \in DOMAIN toServer
          PROVE  toServer[i].seq # call[c].seq
      <4>0. toServer \in Seq(RequestSet) /\ call[c] \in CallState
        BY DEF Typed
      <4>1. toServer[i] \in RequestSet
        BY <4>0
      <4>4. toServer[i].seq \in Nat /\ call[c].seq \in Nat
        BY <4>0, <4>1 DEF RequestSet, CallState
      <4>2. Result(call[c].seq, call[c].val).seq = call[c].seq
        BY DEF Result
      <4>3. call[c].seq < toServer[i].seq
        BY <3>1, <4>2 DEF RequestsFresh
      <4>. QED
        BY <4>4, <4>3
    <3>. QED
      BY <1>1, <1>2, <2>1, <3>1, <3>2
  <2>. QED
    BY <1>6, <2>3, <2>4, <2>5, <2>6 DEF Acts
<1>. HIDE DEF Of, OfNow
<1>. QED
  BY <1>4, <1>5, <1>6, StepsUp

LEMMA OpenedAsideStep ==
  ASSUME Typed, LossKnown, StuckAt, NumbersUsed, RequestsFresh, CallTrue, OneAtATime, AskedTrue, DoneTrue,
         ListTrue, [Next]_vars, up'
  PROVE  OpenedAside'
<1>1. up /\ ListRequests /\ OpenedAside /\ OpenAtDaemon
  BY StepsUp DEF ListTrue
<1>2. SUFFICES ASSUME NEW d \in Callers, call'[d].cmd = "open", call'[d].pc \in Sent,
                      NEW u \in Uids, Result(call'[d].seq, u) \in done'
               PROVE  u \in uids' \ ToSet(openList')
  BY DEF OpenedAside
<1>3. ASSUME Alike(d)
      PROVE  call[d].cmd = "open" /\ call[d].pc \in Sent /\ call[d].seq = call'[d].seq
  BY <1>2, <1>3 DEF Alike, Sent
<1>4. CASE Quiet /\ UNCHANGED <<uids, done, toServer>>
  BY <1>1, <1>2, <1>3, <1>4 DEF Quiet, OpenedAside
<1>5. ASSUME Quiet, NEW v, Effects(v)
      PROVE  u \in uids' \ ToSet(openList')
  <2>. DEFINE r == Head(toServer)
  <2>1. /\ call[d].cmd = "open" /\ call[d].pc \in Sent
        /\ Result(call[d].seq, u) \in done' /\ UNCHANGED openList
    BY <1>2, <1>3, <1>5 DEF Quiet
  <2>2. r.cmd # "close"
    BY <1>1, <1>5, <2>1, FirstIsOf DEF Effects, ListCommands, OneAtATime
  <2>3. /\ done' \subseteq done \cup {Result(r.seq, v)}
        /\ uids \subseteq uids'
        /\ \/ UNCHANGED done
           \/ r.cmd = "open" => v = Failure \/ (v \in Uids \ uids /\ v \in uids')
    BY <1>5, <2>2 DEF Effects, ListCommands
  <2>4. CASE Result(call[d].seq, u) \in done
    BY <1>1, <2>1, <2>3, <2>4 DEF OpenedAside
  <2>5. CASE Result(call[d].seq, u) \notin done
    <3>1. Result(call[d].seq, u) = Result(r.seq, v)
      BY <2>1, <2>3, <2>5
    <3>2. call[d].seq = r.seq /\ u = v
      BY <3>1 DEF Result
    <3>. DEFINE m == Request(call[d].seq, call[d].cmd, call[d].uid)
    <3>3. m \in asked /\ r \in asked
      BY <1>5, <2>1, FirstAsked DEF AskedTrue, Effects
    <3>4. m.seq = call[d].seq /\ m.cmd = "open"
      BY <2>1 DEF Request
    <3>. HIDE DEF m, r
    <3>5. r.cmd = "open"
      BY <3>2, <3>3, <3>4 DEF AskedTrue
    <3>6. u \in uids' /\ u \notin uids
      BY <2>1, <2>3, <2>5, <3>2, <3>5, LinkAssumption DEF Failure
    <3>7. Closing = {}
      BY <2>1 DEF Closing, OneAtATime, ListCommands
    <3>8. u \notin ToSet(openList)
      BY <1>1, <3>6, <3>7 DEF OpenAtDaemon
    <3>. QED
      BY <2>1, <3>6, <3>8
  <2>. QED
    BY <2>4, <2>5
<1>6. ASSUME NEW c \in Callers, Acts(c), UNCHANGED <<uids, done>>
      PROVE  u \in uids' \ ToSet(openList')
  <2>1. \A e \in Callers \ {c} : call'[e] = call[e]
    BY <1>6, OthersStay
  <2>2. CASE d = c
    <3>0. call'[c].pc \in Sent /\ "idle" \notin Sent /\ "checked" \notin Sent /\ "freeing" \notin Sent
      BY <1>2, <2>2 DEF Sent
    <3>1. ~Wake(c) /\ ~FreeMsg(c) /\ ~PostFails(c) /\ ~(\E cmd, uid : Begin(c, cmd, uid))
      <4>1. ~FreeMsg(c)
        <5>1. FreeMsg(c) => call'[c] = Returned(call[c].val)
          BY FreeMsgDoes
        <5>. QED
          BY <3>0, <5>1, ReturnedIs
      <4>2. ~Wake(c)
        <5>1. Wake(c) => call'[c] = Returned(call[c].val) \/ call'[c].pc = "freeing"
          BY WakeDoes
        <5>. QED
          BY <3>0, <5>1, ReturnedIs
      <4>3. ~PostFails(c)
        <5>1. PostFails(c) => call'[c] = Returned(NotSent(call[c].cmd))
          BY PostFailsDoes
        <5>. QED
          BY <3>0, <5>1, ReturnedIs
      <4>4. ASSUME NEW cmd, NEW uid
            PROVE  ~Begin(c, cmd, uid)
        BY <3>0, ReturnedIs, BeginDoes
      <4>. QED
        BY <4>1, <4>2, <4>3, <4>4
    <3>2. CASE Post(c)
      <4>1. call'[c].seq = seq + 1 /\ Result(seq + 1, u) \in done /\ seq \in Nat
        BY <1>2, <1>6, <2>2, <3>2, PostDoes DEF Typed
      <4>2. Result(seq + 1, u).seq = seq + 1
        BY DEF Result
      <4>. QED
        BY <4>1, <4>2 DEF NumbersUsed
    <3>3. CASE Enqueue(c)
      <4>1. /\ UNCHANGED openList /\ call[c].cmd = "open" /\ call[c].seq = call'[c].seq
            /\ call[c].pc \in Sent
        BY <1>2, <2>2, <3>3, EnqueueDoes DEF Sent
      <4>. QED
        BY <1>1, <1>2, <1>6, <2>2, <4>1 DEF OpenedAside
    <3>. QED
      BY <1>6, <3>1, <3>2, <3>3 DEF Acts
  <2>3. CASE d # c
    <3>1. /\ call[d].cmd = "open" /\ call[d].pc \in Sent /\ Result(call[d].seq, u) \in done
      BY <1>2, <1>6, <2>1, <2>3
    <3>2. call[c].cmd \notin ListCommands
      BY <2>3, <3>1 DEF OneAtATime, ListCommands
    <3>3. UNCHANGED openList
      BY <1>1, <1>6, <3>2, ListDoes DEF ListCommands
    <3>. QED
      BY <1>1, <1>6, <3>1, <3>3 DEF OpenedAside
  <2>. QED
    BY <2>2, <2>3
<1>. QED
  BY <1>4, <1>5, <1>6, StepsUp

LEMMA ClosedAwayStep ==
  ASSUME Typed, LossKnown, StuckAt, CallTrue, OneAtATime, AskedTrue, DoneTrue, ListTrue, [Next]_vars, up'
  PROVE  ClosedAway'
<1>1. up /\ ClosedAway
  BY StepsUp DEF ListTrue
<1>2. CASE Quiet
  BY <1>1, <1>2 DEF Quiet, Alike, ClosedAway
<1>3. ASSUME NEW c \in Callers, Acts(c), NEW d \in Callers,
             call'[d].cmd = "close", call'[d].pc = "freeing"
      PROVE  call'[d].uid \notin ToSet(openList')
  <2>1. CASE d = c
    <3>1. Wake(c)
      BY <1>3, <2>1, ReturnedIs, EnqueueDoes, FreeMsgDoes, PostDoes, PostFailsDoes, BeginDoes
         DEF Acts
    <3>2. call[c].cmd = "close" /\ call'[c].uid = call[c].uid
      BY <1>3, <2>1, <3>1, ReturnedIs, WakeDoes
    <3>3. ToSet(openList') = ToSet(openList) \ {call[c].uid}
      BY <1>1, <1>3, <3>1, <3>2, ListDoes
    <3>. QED
      BY <2>1, <3>2, <3>3
  <2>2. CASE d # c
    <3>1. call'[d] = call[d]
      BY <1>3, <2>2, OthersStay
    <3>2. call[c].cmd \notin ListCommands
      BY <1>3, <2>2, <3>1 DEF OneAtATime, ListCommands
    <3>3. UNCHANGED openList
      BY <1>1, <1>3, <3>2, ListDoes DEF ListCommands
    <3>. QED
      BY <1>1, <1>3, <3>1, <3>3 DEF ClosedAway
  <2>. QED
    BY <2>1, <2>2
<1>4. (\E c \in Callers : Acts(c)) => ClosedAway'
  BY <1>3 DEF ClosedAway
<1>. QED
  BY <1>2, <1>4, StepsUp

LEMMA OpenAtDaemonStep ==
  ASSUME Typed, LossKnown, StuckAt, NumbersUsed, RequestsFresh, CallTrue, Blank, OneAtATime, AskedTrue,
         DoneTrue, ListTrue, [Next]_vars, up'
  PROVE  OpenAtDaemon'
<1>1. up /\ ListRequests /\ ClosedAway /\ ToSet(openList) \ Closing \subseteq uids
  BY StepsUp DEF ListTrue, OpenAtDaemon
<1>2. SUFFICES ASSUME NEW u \in ToSet(openList'), u \notin Closing'
               PROVE  u \in uids'
  BY DEF OpenAtDaemon
<1>3. \A d \in Callers : call'[d].cmd = "close" => call'[d].uid # u
  BY <1>2 DEF Closing
<1>4. ASSUME u \in ToSet(openList), \A d \in Callers : call[d].cmd = "close" => call[d].uid # u
      PROVE  u \in uids
  BY <1>1, <1>4 DEF Closing
<1>5. ASSUME Quiet
      PROVE  u \in uids /\ \A d \in Callers : call[d].cmd = "close" => call[d].uid # u
  BY <1>2, <1>3, <1>4, <1>5 DEF Quiet, Alike
<1>6. ASSUME Quiet, NEW v, Effects(v)
      PROVE  u \in uids'
  <2>1. CASE Head(toServer).cmd = "close"
    <3>1. Head(toServer).uid # u
      BY <1>1, <1>5, <1>6, <2>1, FirstIsOf DEF Effects, ListCommands
    <3>. QED
      BY <1>5, <1>6, <3>1 DEF Effects
  <2>2. CASE Head(toServer).cmd # "close"
    BY <1>5, <1>6, <2>2 DEF Effects
  <2>. QED
    BY <2>1, <2>2
<1>7. ASSUME NEW c \in Callers, Acts(c), UNCHANGED <<uids, done>>
      PROVE  u \in uids'
  <2>1. \A d \in Callers \ {c} : call'[d] = call[d]
    BY <1>7, OthersStay
  <2>2. \/ u \in ToSet(openList)
        \/ call[c].val \in uids /\ u = call[c].val
    BY <1>1, <1>2, <1>7, ListDoes
  <2>3. ASSUME u \in ToSet(openList), call[c].cmd = "close" => call[c].uid # u
        PROVE  u \in uids
    BY <1>3, <1>4, <2>1, <2>3
  <2>4. ASSUME call'[c].cmd = call[c].cmd, call'[c].uid = call[c].uid
        PROVE  u \in uids
    BY <1>3, <2>2, <2>3, <2>4
  <2>5. CASE (\E cmd, uid : Begin(c, cmd, uid))
    <3>1. UNCHANGED openList /\ call[c].cmd = "none"
      BY <2>5, BeginDoes DEF Blank
    <3>. QED
      BY <1>2, <1>7, <2>3, <3>1
  <2>6. CASE Post(c) \/ Enqueue(c)
    BY <1>7, <2>4, <2>6, PostDoes, EnqueueDoes
  <2>7. CASE Wake(c)
    <3>1. CASE u \in ToSet(openList) /\ call[c].cmd # "close"
      BY <1>7, <2>3, <3>1
    <3>2. CASE call'[c].cmd = call[c].cmd /\ call'[c].uid = call[c].uid
      BY <1>7, <2>4, <3>2
    <3>3. CASE u \notin ToSet(openList)
      BY <1>7, <2>2, <3>3
    <3>. QED
      BY <2>7, <3>1, <3>2, <3>3, WakeDoes
  <2>8. CASE FreeMsg(c)
    <3>1. UNCHANGED openList /\ call[c].pc = "freeing"
      BY <2>8, FreeMsgDoes
    <3>2. call[c].cmd = "close" => call[c].uid # u
      BY <1>1, <1>2, <3>1 DEF ClosedAway
    <3>. QED
      BY <1>2, <1>7, <2>3, <3>1, <3>2
  <2>9. ~PostFails(c)
    BY <1>1, PostFailsDoes
  <2>. QED
    BY <1>7, <2>5, <2>6, <2>7, <2>8, <2>9 DEF Acts
<1>. QED
  BY <1>5, <1>6, <1>7, StepsUp

LEMMA ListTrueStep ==
  ASSUME Typed, LossKnown, StuckAt, NumbersUsed, RequestsFresh, CallTrue, Blank, OneAtATime, AskedTrue,
         DoneTrue, ListTrue, [Next]_vars
  PROVE  ListTrue'
<1>1. SUFFICES ASSUME up'
               PROVE  ListTrue'
  BY DEF ListTrue
<1>2. up /\ openList \in Seq(Uids) /\ IsInjective(openList) /\ ListRequests
  BY <1>1, StepsUp DEF ListTrue
<1>3. openList' \in Seq(Uids) /\ IsInjective(openList')
  BY <1>1, <1>2, StepsUp, ListDoes DEF Quiet
<1>. QED
  BY <1>1, <1>2, <1>3, ListRequestsStep, OpenedAsideStep, ClosedAwayStep, OpenAtDaemonStep
     DEF ListTrue

-----------------------------------------------------------------------------

LEMMA QInvInit ==
  ASSUME Init
  PROVE  QInv
<1> USE DEF Init, LinkInit, RemoteInit, DaemonInit
<1>1. \A c \in Callers : call[c] = Returned(0)
  OBVIOUS
<1>2. ToSet(msgs) = {} /\ ToSet(openList) = {}
  BY DEF ToSet
<1>3. \A c \in Callers : call[c].pc = "idle" /\ call[c].cmd = "none" /\ call[c].seq = 0
  BY <1>1 DEF Returned
<1>4. QueueDistinct
  BY <1>2 DEF QueueDistinct, IsInjective
<1>5. Blank /\ OneAtATime
  BY <1>3 DEF Blank, OneAtATime, ListCommands
<1>6. AskedTrue /\ DoneTrue
  BY <1>3 DEF AskedTrue, DoneTrue, Sent
<1>7. QueueOwned /\ Apart /\ CallQueued
  BY <1>2, <1>3 DEF QueueOwned, Apart, CallQueued, Queued
<1>8. ListTrue
  BY <1>2, <1>3
     DEF ListTrue, IsInjective, ListRequests, OpenedAside, ClosedAway, OpenAtDaemon
<1>. QED
  BY <1>4, <1>5, <1>6, <1>7, <1>8 DEF QInv

LEMMA QInvStep ==
  ASSUME IInv, QInv, [Next]_vars
  PROVE  QInv'
BY QueueDistinctStep, BlankStep, OneAtATimeStep, AskedTrueStep, DoneTrueStep, QueueOwnedStep,
   ApartStep, CallQueuedStep, ListTrueStep
   DEF IInv, AnswersTrue, QInv

LEMMA QInvHolds == Spec => []QInv
<1>1. Init => QInv
  BY QInvInit
<1>2. IInv /\ QInv /\ [Next]_vars => QInv'
  BY QInvStep
<1>. QED
  BY <1>1, <1>2, InvHolds, PTL DEF Spec

\* A descriptor of the application that no thread is closing is open at the
\* daemon, as long as the connection holds.
THEOREM OpenAtDaemonHolds == Spec => []OpenAtDaemon
<1>1. QInv => OpenAtDaemon
  BY DEF QInv, ListTrue, OpenAtDaemon
<1>. QED
  BY <1>1, QInvHolds, PTL

\* The message queue holds the message of every call that waits for its answer
\* or is about to free it, each once, and else only those that successful opens
\* left there, even after the connection was lost.
THEOREM QueueAccountedHolds == Spec => []QueueAccounted
<1>1. QInv => QueueAccounted
  <2>1. QInv => Cardinality(ToSet(msgs)) = Len(msgs)
    BY InjectiveCounted DEF QInv, QueueDistinct
  <2>. QED
    BY <2>1 DEF QInv, QueueOwned, Owned, CallQueued, QueueAccounted
<1>. QED
  BY <1>1, QInvHolds, PTL

=============================================================================
