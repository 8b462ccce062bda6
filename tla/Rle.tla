-------------------------------- MODULE Rle --------------------------------
(***************************************************************************)
(* The run-length coder of frames sent over a socket                       *)
(* (utils/common/v4l-stream.c): rle_compress() at the sender,              *)
(* rle_decompress() at the receiver, both in place, word by word.          *)
(*                                                                         *)
(* The sender and the receiver each have a buffer of the frame's size; the *)
(* model has one, in which the compressed words move to the end, where the *)
(* receiver reads them to.  Positions and sizes count words of four bytes. *)
(***************************************************************************)
EXTENDS Integers, FiniteSets

CONSTANTS
  Shapes,      \* frames: how many words, words per line or 0, and what is in them
  X, Y, Rplc   \* V4L_STREAM_PACKET_FRAME_VIDEO_X_RLE, _Y_RLE and _RPLC

ASSUME CodeAssumption == Rplc \notin {X, Y} /\ X # Y

\* Lines of one or two words are as short as the code for their repetition:
\* rle_decompress() takes a frame that did not shrink for one not compressed.
\* A line that the frame cuts off is looked at as a whole, and so are four words
\* of a frame of fewer.
ASSUME ShapeAssumption ==
  \A s \in Shapes :
    /\ s.size \in Nat /\ s.size >= 4
    /\ s.line \in Nat
    /\ s.line # 0 => s.line >= 3 /\ s.size % s.line = 0

VARIABLES
  shape, frame,  \* the frame that is sent
  b,             \* the buffer
  pc,            \* "pack", "unpack" or "done"
  p, dst,        \* where the loop reads and writes
  l, next_line   \* repetitions of the line that ends at next_line, 0 for NULL

vars == <<shape, frame, b, pc, p, dst, l, next_line>>

size == shape.size
line == shape.line

\* Without lines, magic_y is magic_x.
magic_y == IF line = 0 THEN X ELSE Y

\* b from position `at' on, followed by what was there
Write(at, words) ==
  [i \in DOMAIN b |-> IF i - at \in DOMAIN words THEN words[i - at] ELSE b[i]]
Words2(v, w) == [i \in 0 .. 1 |-> IF i = 0 THEN v ELSE w]
Words3(v, w, x) == [i \in 0 .. 2 |-> IF i = 0 THEN v ELSE IF i = 1 THEN w ELSE x]
Word(v) == [i \in {0} |-> v]

-----------------------------------------------------------------------------
(* rle_compress() *)

SameLine(i, j) == \A k \in 0 .. line - 1 : b[i + k] = b[j + k]

\* How often the line at p comes again right behind itself
Repeats ==
  LET again == {n \in 1 .. size \div line :
                  \A m \in 1 .. n : p + (m + 1) * line <= size /\ SameLine(p, p + m * line)}
  IN  Cardinality(again)

AtLine == line # 0 /\ p % line = 0

\* Mutant: a run of two counts.
MinRunTwo == 2

\* Shorter runs are left alone.
MinRun == 4

\* Mutant: a run ends with the frame only.
LineEndOfFrame == size

\* max: the end of the line, or of the frame
LineEnd == IF line = 0 THEN size ELSE line * (p \div line + 1)

\* i >= max - 16 is false for a first line of less than 16 bytes: it wraps.
NoRoom == LineEnd >= 4 /\ p >= LineEnd - 4

RunHere == ~NoRoom /\ \A k \in 1 .. MinRun - 1 : b[p + k] = b[p]

\* The run may be longer, up to the end of the line.
RunLength ==
  LET more == {n \in MinRun + 1 .. size :
                 \A k \in MinRun .. n - 1 : p + k < LineEnd /\ b[p + k] = b[p]}
  IN  MinRun + Cardinality(more)

Packing == pc = "pack" /\ p < size

PackLine ==
  /\ Packing /\ AtLine /\ Repeats > 0
  /\ b' = Write(dst, Words2(Y, Repeats))
  /\ dst' = dst + 2 /\ p' = p + Repeats * line
  /\ UNCHANGED <<shape, frame, pc, l, next_line>>

NoRepeat == Packing /\ (AtLine => Repeats = 0)

PackMagic ==
  /\ NoRepeat /\ b[p] \in {X, magic_y}
  /\ b' = Write(dst, Word(Rplc))
  /\ dst' = dst + 1 /\ p' = p + 1
  /\ UNCHANGED <<shape, frame, pc, l, next_line>>

PackWord ==
  /\ NoRepeat /\ b[p] \notin {X, magic_y}
  /\ ~RunHere
  /\ b' = Write(dst, Word(b[p]))
  /\ dst' = dst + 1 /\ p' = p + 1
  /\ UNCHANGED <<shape, frame, pc, l, next_line>>

PackRun ==
  /\ NoRepeat /\ b[p] \notin {X, magic_y}
  /\ RunHere
  /\ b' = Write(dst, Words3(X, b[p], RunLength))
  /\ dst' = dst + 3 /\ p' = p + RunLength
  /\ UNCHANGED <<shape, frame, pc, l, next_line>>

-----------------------------------------------------------------------------
\* The words are sent and read to the end of the receiver's buffer, which
\* still holds another frame; a frame that did not shrink is not compressed.
Send ==
  /\ pc = "pack" /\ p >= size
  /\ b' = [i \in DOMAIN b |-> IF i >= size - dst THEN b[i - (size - dst)] ELSE Rplc]
  /\ p' = size - dst /\ dst' = 0
  /\ pc' = IF dst = size THEN "done" ELSE "unpack"
  /\ UNCHANGED <<shape, frame, l, next_line>>

(* rle_decompress() *)

Unpacking == pc = "unpack" /\ p < size

UnpackLine ==
  /\ Unpacking /\ line # 0 /\ b[p] = Y
  /\ l' = b[p + 1]
  /\ next_line' = dst + line
  /\ p' = p + 2
  /\ UNCHANGED <<shape, frame, b, pc, dst>>

\* n words v are written, and the line, if it is complete, l times again.
UnpackWords ==
  /\ Unpacking /\ ~(line # 0 /\ b[p] = Y)
  /\ LET run == b[p] = X
         v == IF run THEN b[p + 1] ELSE b[p]
         n == IF run THEN b[p + 2] ELSE 1
         ends == next_line # 0 /\ dst + n = next_line
         one == Write(dst, [i \in 0 .. n - 1 |-> v])
         copies == IF ends THEN l * line ELSE 0
     IN  /\ p' = p + (IF run THEN 3 ELSE 1)
         /\ b' = [i \in DOMAIN b |->
                    IF dst + n <= i /\ i < dst + n + copies
                    THEN one[(dst + n - line) + ((i - dst - n) % line)] ELSE one[i]]
         /\ dst' = dst + n + copies
         /\ next_line' = IF ends THEN 0 ELSE next_line
         /\ l' = IF ends THEN 0 ELSE l
  /\ UNCHANGED <<shape, frame, pc>>

Finish ==
  /\ pc = "unpack" /\ p >= size
  /\ pc' = "done"
  /\ UNCHANGED <<shape, frame, b, p, dst, l, next_line>>

-----------------------------------------------------------------------------
Init ==
  /\ shape \in Shapes
  /\ frame \in [0 .. shape.size - 1 -> shape.words]
  /\ b = frame
  /\ pc = "pack" /\ p = 0 /\ dst = 0
  /\ l = 0 /\ next_line = 0

Next ==
  \/ PackLine \/ PackMagic \/ PackWord \/ PackRun
  \/ Send
  \/ UnpackLine \/ UnpackWords \/ Finish

Spec == Init /\ [][Next]_vars

-----------------------------------------------------------------------------
(* The receiver shows the frame that was sent, but for the words that look *)
(* like codes: whatever the runs, the repeated lines and their nesting,    *)
(* rle_decompress() undoes rle_compress().                                 *)
RoundTrip ==
  pc = "done" =>
    b = [i \in 0 .. size - 1 |-> IF frame[i] \in {X, magic_y} THEN Rplc ELSE frame[i]]

(* Both work in place: neither loop ever writes over words that it has not *)
(* read, nor reads behind the buffer, and a code never expands what it is  *)
(* for, so that rle_decompress(), which has only the room that is missing, *)
(* does not overtake itself.                                               *)
InPlace ==
  /\ 0 <= dst /\ dst <= p /\ p <= size
  /\ pc = "pack" => \A i \in p .. size - 1 : b[i] = frame[i]
=============================================================================
