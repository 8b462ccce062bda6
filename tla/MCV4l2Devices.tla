---------------------------- MODULE MCV4l2Devices ----------------------------
(* Instances of V4l2Devices for TLC.                                        *)
EXTENDS V4l2Devices, TLC

CONSTANTS t1, t2, t3, f1, f2, f3

\* Every thread makes every call.
EveryCall == [t \in Threads |-> AllCalls]

ThreadSymmetry == Permutations(Threads)
FdSymmetry == Permutations(Fds)
Symmetry == ThreadSymmetry \cup FdSymmetry
=============================================================================
