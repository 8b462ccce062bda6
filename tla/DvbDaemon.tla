----------------------------- MODULE DvbDaemon -----------------------------
(***************************************************************************)
(* dvbv5-daemon (utils/dvb/dvbv5-daemon.c) as one client sees it: the      *)
(* thread that serves the connection, start_server(), and the thread that  *)
(* polls the open devices and sends their data, read_data().  Both write   *)
(* to the connection under msg_mutex.                                      *)
(***************************************************************************)
EXTENDS DvbLink, FiniteSets

VARIABLES
  srv,     \* the serving thread
  uids,    \* desc_root: the open devices
  polled,  \* fds[] and numfds
  mutex,   \* msg_mutex
  reader,  \* the reading thread, while read_id refers to it
  doomed,  \* cancelled readers about to take msg_mutex, and to die with it
  stray,   \* history: dev_open() unlocked msg_mutex for a reader that sends
  done     \* history: the answers to the requests that were carried out

daemon == <<srv, uids, polled, mutex, reader, doomed, stray, done>>

\* A thread that is "sending" has msg_mutex, or had it, and may have sent the
\* length of its message, but not the message.
ServerState == [pc : {"recv", "stuck", "opening", "opened", "answer", "sending",
                      "off"},
                seq : Nat, cmd : Commands \cup {"log"}, val : Results]
\* The reading thread is also "have", with data in hand, "sending", and
\* "ending", when it has left its loop and read_id still refers to it.
Off == [pc |-> "off", uid |-> 0]
Polling == [pc |-> "poll", uid |-> 0]
Serving == [pc |-> "recv", seq |-> 0, cmd |-> "log", val |-> 0]

DaemonInit ==
  /\ srv = Serving
  /\ uids = {}
  /\ polled = {}
  /\ mutex = "free"
  /\ reader = Off
  /\ doomed = 0
  /\ stray = FALSE
  /\ done = {}

-----------------------------------------------------------------------------
(* The serving thread.                                                      *)

\* The devices found in desc_root: one that is being opened is not in it yet.
Found == IF srv.pc = "opening" THEN uids \ {srv.val} ELSE uids

\* pthread_cancel(read_id) takes effect in poll() and in send(), but not in
\* pthread_mutex_lock(): a reader with data in hand goes on to take msg_mutex,
\* and one that has it dies before the length is sent, or between the length
\* and the message, or is past both.
CancelReader ==
  /\ reader' = Off
  /\ \/ /\ reader.pc = "have"
        /\ doomed' = doomed + 1
        /\ UNCHANGED <<mutex, toClient>>
     \/ /\ reader.pc = "sending"
        /\ mutex' = IF mutex = "reader" THEN "dead" ELSE mutex
        /\ toClient' \in {toClient, Deliver(toClient, Cut)}
        /\ UNCHANGED doomed
     \/ /\ reader.pc = "sending"
        /\ mutex' = "free"
        /\ toClient' = Deliver(toClient, Data(reader.uid))
        /\ UNCHANGED doomed
     \/ /\ reader.pc \in {"off", "poll", "ending"}
        /\ UNCHANGED <<mutex, doomed, toClient>>

AnswerWith(val) ==
  LET r == Head(toServer)
  IN /\ srv' = [pc |-> "answer", seq |-> r.seq, cmd |-> r.cmd, val |-> val]
     /\ done' = done \cup {[seq |-> r.seq, val |-> val]}

Take(cmd) ==
  /\ srv.pc = "recv"
  /\ toServer # <<>>
  /\ Head(toServer).cmd = cmd
  /\ toServer' = Tail(toServer)
  /\ UNCHANGED up

\* The handlers that only ask the device.
ServeOther ==
  /\ \E cmd \in {"get", "version", "stats", "setparms"} : Take(cmd)
  /\ \E val \in {0, Failure} : AnswerWith(val)
  /\ UNCHANGED <<uids, polled, mutex, reader, doomed, stray, toClient>>

\* The length is put together from signed bytes: a byte above 127 makes it a
\* huge one, and the thread waits for the rest until the connection ends.  Then
\* it handles what it got.
Misread ==
  /\ srv.pc = "recv"
  /\ toServer # <<>>
  /\ Head(toServer).cmd = "setparms"
  /\ srv' = [srv EXCEPT !.pc = "stuck"]
  /\ UNCHANGED <<uids, polled, mutex, reader, doomed, stray, done, link>>

ServeLate ==
  /\ srv.pc = "stuck"
  /\ ~up
  /\ toServer # <<>>
  /\ toServer' = <<>>
  /\ \E val \in {0, Failure} : AnswerWith(val)
  /\ UNCHANGED <<uids, polled, mutex, reader, doomed, stray, toClient, up>>

\* No method has this name: the client gets a log message, not an answer.
ServeUnknown ==
  /\ Take("filter")
  /\ srv' = [Serving EXCEPT !.pc = "answer"]
  /\ UNCHANGED <<uids, polled, mutex, reader, doomed, stray, done, toClient>>

OpenFails ==
  /\ Take("open")
  /\ AnswerWith(Failure)
  /\ UNCHANGED <<uids, polled, mutex, reader, doomed, stray, toClient>>

\* dev_open(): the device is opened and polled, and a reader started when
\* read_id is 0.
OpenDevice ==
  /\ Take("open")
  /\ \E u \in Uids \ uids :
       /\ srv' = [pc |-> "opening", seq |-> Head(toServer).seq, cmd |-> "open",
                  val |-> u]
       /\ done' = done \cup {[seq |-> Head(toServer).seq, val |-> u]}
       /\ uids' = uids \cup {u}
       /\ polled' = IF u \in Polled THEN polled \cup {u} ELSE polled
  /\ reader' = IF reader.pc = "off" THEN Polling ELSE reader
  /\ UNCHANGED <<mutex, doomed, stray, toClient>>

\* It unlocks msg_mutex, which it has not locked, before and after it enters
\* the device into desc_root.
Unlocks(from, to) ==
  /\ srv.pc = from
  /\ srv' = [srv EXCEPT !.pc = to]
  /\ mutex' = "free"
  /\ stray' = (stray \/ reader.pc = "sending")
  /\ UNCHANGED <<uids, polled, reader, doomed, done, link>>
UnlockAndInsert == Unlocks("opening", "opened")
UnlockAgain == Unlocks("opened", "answer")

\* dev_close(): the reader is cancelled when nothing is left to poll.  The
\* client closes what it opened, so the descriptor is always found
\* (OpenAtDaemon).
CloseDevice ==
  LET u == Head(toServer).uid
  IN /\ Take("close")
     /\ u \in uids
     /\ AnswerWith(0)
     /\ uids' = uids \ {u}
     /\ polled' = polled \ {u}
     /\ IF polled \ {u} = {} THEN CancelReader
        ELSE UNCHANGED <<mutex, reader, doomed, toClient>>
     /\ UNCHANGED stray

\* send_buf() takes msg_mutex and sends the length.  While the other thread is
\* sending too, two lengths may follow each other.
SendLength(other) ==
  \/ UNCHANGED toClient
  \/ other.pc = "sending" /\ toClient' = Deliver(toClient, Cut)

LockAnswer ==
  /\ srv.pc = "answer"
  /\ mutex = "free"
  /\ mutex' = "server"
  /\ srv' = [srv EXCEPT !.pc = "sending"]
  /\ SendLength(reader)
  /\ UNCHANGED <<uids, polled, reader, doomed, stray, done, toServer, up>>

SendAnswer ==
  /\ srv.pc = "sending"
  /\ toClient' = Deliver(toClient, IF srv.seq = 0 THEN Log
                                   ELSE Answer(srv.seq, srv.cmd, srv.val))
  /\ mutex' = "free"
  /\ srv' = Serving
  /\ UNCHANGED <<uids, polled, reader, doomed, stray, done, toServer, up>>

\* The client is gone: everything it opened is closed.
Hangup ==
  /\ srv.pc \in {"recv", "stuck"}
  /\ toServer = <<>> /\ ~up
  /\ srv' = [srv EXCEPT !.pc = "off"]
  /\ CancelReader
  /\ uids' = {}
  /\ polled' = {}
  /\ UNCHANGED <<stray, done, toServer, up>>

-----------------------------------------------------------------------------
(* The reading thread.                                                      *)

\* Nothing to poll, or data while desc_root is empty: the thread leaves its
\* loop, ...
ReaderEnds ==
  /\ reader.pc = "poll"
  /\ polled = {} \/ Found = {}
  /\ reader' = [reader EXCEPT !.pc = "ending"]
  /\ UNCHANGED <<srv, uids, polled, mutex, doomed, stray, done, link>>

\* ... and sets read_id to 0.
ReaderGone ==
  /\ reader.pc = "ending"
  /\ reader' = Off
  /\ UNCHANGED <<srv, uids, polled, mutex, doomed, stray, done, link>>

ReaderReads ==
  /\ reader.pc = "poll"
  /\ Len(toClient) < MaxData
  /\ \E u \in polled \cap Found : reader' = [pc |-> "have", uid |-> u]
  /\ UNCHANGED <<srv, uids, polled, mutex, doomed, stray, done, link>>

MutexIgnored == mutex # "dead"   \* mutant: data is sent without msg_mutex
MutexFree == mutex = "free"

ReaderLocks ==
  /\ reader.pc = "have"
  /\ MutexFree
  /\ mutex' = "reader"
  /\ reader' = [reader EXCEPT !.pc = "sending"]
  /\ SendLength(srv)
  /\ UNCHANGED <<srv, uids, polled, doomed, stray, done, toServer, up>>

ReaderSends ==
  /\ reader.pc = "sending"
  /\ toClient' = Deliver(toClient, Data(reader.uid))
  /\ mutex' = "free"
  /\ reader' = Polling
  /\ UNCHANGED <<srv, uids, polled, doomed, stray, done, toServer, up>>

\* A cancelled reader takes msg_mutex and ends in send().
ReaderDies ==
  /\ doomed > 0
  /\ mutex = "free"
  /\ mutex' = "dead"
  /\ doomed' = doomed - 1
  /\ UNCHANGED <<srv, uids, polled, reader, stray, done, link>>

-----------------------------------------------------------------------------

\* Writing to a connection whose other end is gone raises SIGPIPE, which the
\* daemon does not handle: it ends, and the kernel closes its devices.
Killed ==
  /\ ~up
  /\ srv.pc = "sending" \/ reader.pc = "sending"
  /\ srv' = [srv EXCEPT !.pc = "off"]
  /\ reader' = Off
  /\ uids' = {}
  /\ polled' = {}
  /\ mutex' = "free"
  /\ doomed' = 0
  /\ UNCHANGED <<stray, done, link>>

Server == \/ ServeOther \/ Misread \/ ServeLate \/ ServeUnknown
          \/ OpenFails \/ OpenDevice \/ UnlockAndInsert \/ UnlockAgain
          \/ CloseDevice \/ LockAnswer \/ SendAnswer \/ Hangup
Reader == \/ ReaderEnds \/ ReaderGone \/ ReaderReads
          \/ ReaderLocks \/ ReaderSends \/ ReaderDies

DaemonNext == Server \/ Reader \/ Killed
=============================================================================
