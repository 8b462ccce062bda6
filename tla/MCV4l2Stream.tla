---------------------------- MODULE MCV4l2Stream ----------------------------
(* Instances of V4l2Stream for TLC. *)
EXTENDS V4l2Stream, TLC

CONSTANTS t1, t2

\* read() and the calls that change the format under it.
ReaderCalls == [t \in Threads |->
  {"read", "S_FMT", "G_FMT", "S_PARM", "S_INPUT", "REQBUFS", "close"}]

\* An application that streams with mmap and never calls read().
CaptureCalls == [t \in Threads |-> AllCalls \ {"read"}]

EveryCall == [t \in Threads |-> AllCalls]

\* One thread captures, the other one changes settings.
ReadVersusFormat ==
  [t \in Threads |-> IF t = t1 THEN {"read"} ELSE {"S_FMT", "S_PARM", "G_FMT"}]

\* What a driver may refuse once its queue is set up properly.
Refusals == (BufferRequests \cup DeviceRequests) \ {"STREAMON", "QBUF"}

NoRefusals == {}

\* Where both threads make the same calls, exchanging them changes nothing.
ThreadSymmetry == Permutations(Threads)
=============================================================================
