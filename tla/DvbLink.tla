------------------------------ MODULE DvbLink ------------------------------
(* The connection between libdvbv5's remote device (dvb-dev-remote.c) and    *)
(* dvbv5-daemon: two byte streams that keep the order, and may break.        *)
EXTENDS Integers, Sequences

CONSTANTS
  Uids,      \* descriptors the daemon's kernel hands out (the protocol's uid)
  Polled,    \* those of demux and dvr devices, whose data the daemon sends
  CanBreak,  \* the connection may break
  MaxData    \* bound: messages to the client that let more data be sent

ASSUME LinkAssumption ==
  /\ Uids \subseteq Nat \ {0}
  /\ Polled \subseteq Uids
  /\ CanBreak \in BOOLEAN
  /\ MaxData \in Nat

VARIABLES
  toServer,  \* requests on their way
  toClient,  \* answers and messages with sequence number 0 on their way
  up         \* the connection is whole

link == <<toServer, toClient, up>>

\* Results of a request: a descriptor, 0 for any other success, or an error.
Failure == -1
ENODEV == -19
Results == Uids \cup {0, Failure}

\* What prepare_data() returned last, a length: dvb_remote_fe_set_parms()
\* returns it when its request could not be sent.
Prepared == 8

\* "get" stands for the calls that only ask and get an answer
\* (dvb_remote_find, stop_monitor, dmx_stop, set_bufsize, dmx_set_pesfilter,
\* fe_set_sys, fe_get_parms, ...); "version" and "stats" are those that do not
\* report the result they get (dvb_remote_get_version, fe_get_stats).
Commands == {"get", "version", "stats", "open", "close", "setparms", "filter"}

Request(n, cmd, uid) == [seq |-> n, cmd |-> cmd, uid |-> uid]
Answer(n, cmd, val) == [seq |-> n, cmd |-> cmd, val |-> val]
Log == Answer(0, "log", 0)
Data(uid) == Answer(0, "data_read", uid)

\* Two lengths in a row, or one without its message: from here on the client
\* takes for a length what is none.
Cut == Answer(0, "cut", 0)

LinkInit == toServer = <<>> /\ toClient = <<>> /\ up = TRUE

\* Either end gets what was written before the break, or some of it.
Break ==
  /\ CanBreak /\ up
  /\ up' = FALSE
  /\ \E k \in 0..Len(toServer) : toServer' = SubSeq(toServer, 1, k)
  /\ \E k \in 0..Len(toClient) : toClient' = SubSeq(toClient, 1, k)

\* Writing to a broken connection goes nowhere.
Deliver(queue, m) == IF up THEN Append(queue, m) ELSE queue
=============================================================================
