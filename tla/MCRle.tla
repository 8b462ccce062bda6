------------------------------- MODULE MCRle -------------------------------
(* Frames for Rle. *)
EXTENDS Rle

MX == 101  MY == 102  MR == 103

\* Without lines; lines with runs that cross the first one's end; lines of four
\* words; lines with room for runs inside.  Words look like codes and counts.
SomeShapes ==
  {[size |-> 4, line |-> 4, words |-> {1, 2, MX}],
   [size |-> 8, line |-> 0, words |-> {1, 2, MX}],
   [size |-> 9, line |-> 0, words |-> {1, MY}],
   [size |-> 9, line |-> 3, words |-> {1, 2}],
   [size |-> 6, line |-> 3, words |-> {1, 2, MY, MX}],
   [size |-> 12, line |-> 4, words |-> {1, MY}],
   [size |-> 10, line |-> 5, words |-> {4, MX}],
   [size |-> 15, line |-> 5, words |-> {1, 2}],
   [size |-> 12, line |-> 6, words |-> {1, 2}],
   [size |-> 12, line |-> 6, words |-> {2, MY}]}
=============================================================================
