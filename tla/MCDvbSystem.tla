---------------------------- MODULE MCDvbSystem ----------------------------
(* Instances of DvbSystem for TLC. *)
EXTENDS DvbSystem

CONSTANTS c1, c2

\* One thread opens and closes; the other one asks and sets a filter, ...
Locked ==
  [c \in Callers |-> IF c = c1 THEN {"open", "close"} ELSE {"get", "filter"}]
\* ... or sets parameters, with a message that is sent without its lock, and
\* asks for the statistics.
Unlocked ==
  [c \in Callers |-> IF c = c1 THEN {"open", "close"} ELSE {"setparms", "stats"}]
=============================================================================
