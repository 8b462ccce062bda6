----------------------------- MODULE RleProofs -----------------------------
(***************************************************************************)
(* What TLAPS proves of the run-length coder, for frames of any size, with *)
(* lines of any length or none, and whatever is in them: both ends work in *)
(* place, and what comes out is what went in.                              *)
(*                                                                         *)
(* The loops are not followed from their beginning.  The invariant says of *)
(* the words in the buffer that they are a code of the frame (Coded): it   *)
(* marks those where a code starts and gives each its place in the frame,  *)
(* so that each code can be looked at by itself.  rle_compress() adds a    *)
(* mark at the end, rle_decompress() takes one away in front.              *)
(***************************************************************************)
EXTENDS Rle, FiniteSetTheorems, WellFoundedInduction, TLAPS

-----------------------------------------------------------------------------
(* The inductive invariant.                                                 *)

\* A word as it is shown
Shown(x) == IF x \in {X, magic_y} THEN Rplc ELSE x

\* Where a code starts: its place in the frame, and how often the line it is in,
\* number `row', was there before and waits to be copied.
Places == [at : Nat, n : Nat, row : Nat]
End(e) == (e.row + 1) * line

Alike(j, k) == \A i \in 0 .. line - 1 : frame[j * line + i] = frame[k * line + i]

\* The lines that wait are those of the frame just before.
Waits(e) ==
  /\ line # 0 /\ e.n <= e.row /\ End(e) <= size
  /\ e.row * line <= e.at /\ e.at < End(e)
  /\ \A j \in e.row - e.n .. e.row : Alike(j, e.row)

\* f comes k words of the frame after e, in the same line while it waits.
Follows(e, f, k) ==
  /\ f.at = e.at + k
  /\ IF e.n > 0 /\ f.at < End(e) THEN f.n = e.n /\ f.row = e.row
     ELSE f.n = 0 /\ (e.n > 0 => f.at = End(e))

LineCode(w, S, g, t) ==
  /\ t + 2 \in S
  /\ line # 0 /\ w[t] = Y /\ w[t + 1] \in Nat \ {0}
  /\ g[t].n = 0 /\ g[t + 2].n = w[t + 1]
  /\ g[t + 2].at = g[t].at + w[t + 1] * line
  /\ g[t + 2].at = g[t + 2].row * line

RunCode(w, S, g, t) ==
  /\ t + 3 \in S
  /\ w[t] = X /\ w[t + 1] \notin {X, magic_y} /\ w[t + 2] \in Nat /\ w[t + 2] >= 4
  /\ \A k \in 0 .. w[t + 2] - 1 : frame[g[t].at + k] = w[t + 1]
  /\ Follows(g[t], g[t + 3], w[t + 2])

WordCode(w, S, g, t) ==
  /\ t + 1 \in S
  /\ w[t] = Shown(frame[g[t].at])
  /\ Follows(g[t], g[t + 1], 1)

\* The words from .. to - 1 of w are a code of the frame from g[from].at to
\* g[to].at; a code starts at each element of S.
Coded(w, S, g, from, to) ==
  /\ S \subseteq from .. to /\ from \in S /\ to \in S
  /\ g \in [0 .. size -> Places]
  /\ \A t \in S : g[t].at <= size /\ (g[t].n > 0 => Waits(g[t]))
  /\ \A t \in S \ {to} : LineCode(w, S, g, t) \/ RunCode(w, S, g, t) \/ WordCode(w, S, g, t)

Typed ==
  /\ shape \in Shapes
  /\ frame = [i \in 0 .. size - 1 |-> frame[i]] /\ b = [i \in 0 .. size - 1 |-> b[i]]
  /\ p \in Nat /\ dst \in Nat

\* rle_compress(): what was written is a code of what was read, none of it
\* longer than what it is for, and a line that was repeated is not repeated again.
Packed(S, g) ==
  /\ Coded(b, S, g, 0, dst)
  /\ g[0].at = 0 /\ g[dst].at = p
  /\ \A t \in S : t <= g[t].at /\ g[t].at - t <= p - dst
  /\ g[dst].n > 0 /\ p = g[dst].row * line =>
       ~(p + 2 * line <= size /\ Alike(g[dst].row, g[dst].row + 1))
  /\ \A i \in p .. size - 1 : b[i] = frame[i]
  /\ p = dst => \A i \in 0 .. dst - 1 : b[i] = Shown(frame[i])

\* rle_decompress(): what is still to be read is a code of the rest of the
\* frame, and there is as much room.
Unpacked(S, g) ==
  /\ Coded(b, S, g, p, size)
  /\ g[size].at = size
  /\ \A t \in S : g[t].at <= t
  /\ dst = g[p].at - g[p].n * line
  /\ l = g[p].n
  /\ next_line = IF l = 0 THEN 0 ELSE End(g[p]) - l * line
  /\ \A i \in 0 .. dst - 1 : b[i] = Shown(frame[i])

Done ==
  /\ dst <= p /\ p <= size
  /\ \A i \in 0 .. size - 1 : b[i] = Shown(frame[i])

IInv ==
  /\ Typed
  /\ pc \in {"pack", "unpack", "done"}
  /\ pc = "pack" => l = 0 /\ next_line = 0 /\ \E S, g : Packed(S, g)
  /\ pc = "unpack" => \E S, g : Unpacked(S, g)
  /\ pc = "done" => Done

-----------------------------------------------------------------------------
(* Numbers.                                                                 *)

LEMMA LeastOf ==
  ASSUME NEW S, S \subseteq Nat, S # {}
  PROVE  \E n \in S : \A m \in S : n <= m
<1> DEFINE R == OpToRel(<, Nat)
<1>1. IsWellFoundedOn(R, Nat)
  BY NatLessThanWellFounded
<1>2. \A m, n \in Nat : m < n => <<m, n>> \in R
  BY DEF OpToRel
<1> HIDE DEF R
<1>3. PICK n \in S : \A m \in S : ~(<<m, n>> \in R)
  BY <1>1, WFMin
<1>4. ASSUME NEW m \in S PROVE n <= m
  <2>1. m \in Nat /\ n \in Nat /\ ~(m < n)
    BY <1>2, <1>3
  <2> QED BY <2>1
<1> QED BY <1>4

\* Numbers from `from' on, each with all before it, are an interval.
LEMMA Interval ==
  ASSUME NEW from \in Nat, NEW to \in Nat, NEW S, S \subseteq from .. to,
         \A n \in S : \A m \in from .. n : m \in S
  PROVE  Cardinality(S) \in Nat /\ S = from .. from + Cardinality(S) - 1
<1> DEFINE Missing == {n \in Nat : n >= from /\ n \notin S}
<1>1. IF from <= to THEN to + 1 \in Missing ELSE from \in Missing
  OBVIOUS
<1>2. PICK n \in Missing : \A m \in Missing : n <= m
  BY <1>1, LeastOf
<1>3. S = from .. n - 1
  <2>1. ASSUME NEW m \in from .. n - 1 PROVE m \in S
    <3>1. m \in Nat /\ m >= from /\ m \notin Missing
      BY <1>2
    <3> QED BY <3>1
  <2>2. ASSUME NEW m \in S PROVE m \in from .. n - 1
    <3>1. m \in Nat /\ m >= from
      OBVIOUS
    <3>2. n \notin S /\ n \in Nat /\ n >= from
      OBVIOUS
    <3>3. ~(n <= m)
      BY <3>1, <3>2
    <3> QED BY <3>1, <3>2, <3>3
  <2> QED BY <2>1, <2>2
<1>4. Cardinality(from .. n - 1) = n - from
  <2>1. n \in Nat /\ n >= from /\ n - 1 \in Int
    OBVIOUS
  <2>2. Cardinality(from .. n - 1) = IF from > n - 1 THEN 0 ELSE n - 1 - from + 1
    BY <2>1, FS_Interval
  <2> QED BY <2>1, <2>2
<1> QED BY <1>3, <1>4

LEMMA Product ==
  ASSUME NEW a \in Nat, NEW d \in Nat
  PROVE  a * d \in Nat /\ (a > 0 => a * d >= d) /\ (a + 1) * d = a * d + d
         /\ (a - 1) * d = a * d - d
  OBVIOUS

LEMMA Ordered ==
  ASSUME NEW a \in Nat, NEW c \in Nat, NEW d \in Nat, a <= c
  PROVE  a * d <= c * d
<1>1. PICK e \in Nat : c = a + e
  <2>1. c - a \in Nat /\ c = a + (c - a)
    OBVIOUS
  <2> QED BY <2>1
<1>2. c * d = a * d + e * d
  BY <1>1
<1> QED BY <1>2, Product

LEMMA Below ==
  ASSUME NEW d \in Nat, NEW a \in Nat, NEW c \in Nat, NEW k \in 0 .. d - 1, a * d <= c * d + k
  PROVE  a <= c
<1> SUFFICES ASSUME c + 1 <= a PROVE FALSE
  OBVIOUS
<1> DEFINE x == c * d
           y == a * d
<1>1. x \in Nat /\ y \in Nat /\ (c + 1) * d = x + d
  BY Product
<1>2. (c + 1) * d <= y
  BY Ordered
<1>3. y <= x + k
  OBVIOUS
<1> HIDE DEF x, y
<1> QED BY <1>1, <1>2, <1>3

\* Quotient and remainder are those of the one way to divide.
LEMMA Divides ==
  ASSUME NEW d \in Nat, d > 0, NEW q \in Nat, NEW k \in 0 .. d - 1
  PROVE  (q * d + k) \div d = q /\ (q * d + k) % d = k
<1>1. (q * d + k) \div d = q
  BY SMT
<1>2. (q * d + k) % d = k
  BY SMT
<1> QED BY <1>1, <1>2

LEMMA Division ==
  ASSUME NEW d \in Nat, d > 0, NEW a \in Nat
  PROVE  \E q \in Nat, k \in 0 .. d - 1 : a = q * d + k /\ a \div d = q /\ a % d = k
<1> DEFINE c == a \div d
           r == a % d
<1>1. c \in Nat /\ r \in 0 .. d - 1
  OBVIOUS
<1>2. r = a - d * c
  BY SMT
<1> HIDE DEF c, r
<1>3. a = c * d + r
  BY <1>1, <1>2
<1>4. a \div d = c /\ a % d = r
  BY <1>1, <1>3, Divides
<1> QED BY <1>1, <1>3, <1>4

-----------------------------------------------------------------------------
(* Frames and their lines.                                                  *)

LEMMA ShapeFacts ==
  ASSUME shape \in Shapes
  PROVE  /\ size \in Nat /\ size >= 4
         /\ line \in Nat /\ (line # 0 => line >= 3 /\ \E c \in Nat : size = c * line)
<1>1. size \in Nat /\ size >= 4 /\ line \in Nat /\ (line # 0 => line >= 3 /\ size % line = 0)
  BY ShapeAssumption DEF size, line
<1>2. ASSUME line # 0 PROVE \E c \in Nat : size = c * line
  <2>1. PICK c \in Nat, k \in 0 .. line - 1 : size = c * line + k /\ size % line = k
    BY <1>1, <1>2, Division
  <2>2. size = c * line
    BY <1>1, <1>2, <2>1, Product
  <2> QED BY <2>2
<1> QED BY <1>1, <1>2

\* The line p is in, all of it in the frame
LEMMA LineAt ==
  ASSUME shape \in Shapes, line # 0, p \in Nat, p < size
  PROVE  \E q \in Nat, k \in 0 .. line - 1 :
           /\ p = q * line + k /\ p \div line = q /\ p % line = k
           /\ (q + 1) * line <= size
<1>1. size \in Nat /\ line \in Nat /\ line >= 3
  BY ShapeFacts
<1>2. PICK c \in Nat : size = c * line
  BY ShapeFacts
<1>3. PICK q \in Nat, k \in 0 .. line - 1 : p = q * line + k /\ p \div line = q /\ p % line = k
  BY <1>1, Division
<1>4. ~(c <= q)
  <2>1. c <= q => c * line <= q * line
    BY <1>1, Ordered
  <2> QED BY <1>1, <1>2, <1>3, <2>1, Product
<1>5. (q + 1) * line <= size
  BY <1>1, <1>2, <1>4, Ordered
<1> QED BY <1>3, <1>5

-----------------------------------------------------------------------------
(* rle_compress()                                                           *)

\* A code behind the last one
LEMMA Extends ==
  ASSUME shape \in Shapes, NEW w, NEW v, NEW S, NEW g, NEW t \in Nat, NEW k \in 1 .. 3,
         NEW e \in Places, Coded(w, S, g, 0, t), t + k <= size,
         \A i \in 0 .. t - 1 : v[i] = w[i],
         e.at <= size, e.n > 0 => Waits(e),
         NEW T, T = S \cup {t + k}, NEW h, h = [g EXCEPT ![t + k] = e],
         LineCode(v, T, h, t) \/ RunCode(v, T, h, t) \/ WordCode(v, T, h, t)
  PROVE  Coded(v, T, h, 0, t + k)
<1>1. size \in Nat /\ S \subseteq 0 .. t /\ 0 \in S /\ t \in S /\ g \in [0 .. size -> Places]
  BY ShapeFacts DEF Coded
<1>2. T \subseteq 0 .. t + k /\ 0 \in T /\ t + k \in T
  BY <1>1
<1>3. h \in [0 .. size -> Places] /\ h[t + k] = e /\ \A i \in 0 .. t : h[i] = g[i]
  BY <1>1
<1>4. \A i \in T : h[i].at <= size /\ (h[i].n > 0 => Waits(h[i]))
  <2> SUFFICES ASSUME NEW i \in T PROVE h[i].at <= size /\ (h[i].n > 0 => Waits(h[i]))
    OBVIOUS
  <2>1. CASE i = t + k
    BY <1>3, <2>1
  <2>2. CASE i \in S
    BY <1>1, <1>3, <2>2 DEF Coded
  <2> QED BY <2>1, <2>2
<1>5. ASSUME NEW i \in S, i # t
      PROVE  LineCode(v, T, h, i) \/ RunCode(v, T, h, i) \/ WordCode(v, T, h, i)
  <2>1. i \in 0 .. t - 1 /\ h[i] = g[i]
    BY <1>1, <1>3, <1>5
  <2>2. CASE LineCode(w, S, g, i)
    <3>1. i + 2 \in 0 .. t /\ i + 1 \in 0 .. t - 1 /\ i + 2 \in T
      BY <1>1, <2>1, <2>2 DEF LineCode
    <3>2. h[i + 2] = g[i + 2] /\ v[i] = w[i] /\ v[i + 1] = w[i + 1]
      BY <1>3, <2>1, <3>1
    <3> QED BY <2>1, <2>2, <3>1, <3>2 DEF LineCode
  <2>3. CASE RunCode(w, S, g, i)
    <3>1. i + 3 \in 0 .. t /\ i + 2 \in 0 .. t - 1 /\ i + 1 \in 0 .. t - 1 /\ i + 3 \in T
      BY <1>1, <2>1, <2>3 DEF RunCode
    <3>2. h[i + 3] = g[i + 3] /\ v[i] = w[i] /\ v[i + 1] = w[i + 1] /\ v[i + 2] = w[i + 2]
      BY <1>3, <2>1, <3>1
    <3> QED BY <2>1, <2>3, <3>1, <3>2 DEF RunCode
  <2>4. CASE WordCode(w, S, g, i)
    <3>1. i + 1 \in 0 .. t /\ i + 1 \in T
      BY <1>1, <2>1, <2>4 DEF WordCode
    <3>2. h[i + 1] = g[i + 1] /\ v[i] = w[i]
      BY <1>3, <2>1, <3>1
    <3> QED BY <2>1, <2>4, <3>1, <3>2 DEF WordCode
  <2> QED BY <1>5, <2>2, <2>3, <2>4 DEF Coded
<1>6. \A i \in T \ {t + k} : LineCode(v, T, h, i) \/ RunCode(v, T, h, i) \/ WordCode(v, T, h, i)
  BY <1>5
<1> QED BY <1>2, <1>3, <1>4, <1>6 DEF Coded

\* A step that keeps the frame keeps what is a code of it.
LEMMA SameFrame ==
  ASSUME UNCHANGED <<shape, frame>>, NEW S, NEW g
  PROVE  /\ Coded(b, S, g, 0, dst)' <=> Coded(b', S, g, 0, dst')
         /\ Coded(b, S, g, p, size)' <=> Coded(b', S, g, p', size)
BY DEF Coded, LineCode, RunCode, WordCode, Follows, Waits, Alike, Shown, End, magic_y, size, line,
       Places

\* The loop writes k words for the next n of the frame; the marks T and h are
\* those before, S and g, and e for the code that comes next.
Appends(S, g, k, n, e, T, h) ==
  /\ k \in 1 .. 3 /\ n \in Nat /\ k <= n /\ p + n <= size
  /\ dst' = dst + k /\ p' = p + n
  /\ b' = [i \in 0 .. size - 1 |-> b'[i]]
  /\ \A i \in 0 .. size - 1 : i < dst \/ i > dst + k - 1 => b'[i] = b[i]
  /\ e \in Places /\ e.at = p + n
  /\ e.n > 0 => Waits(e)
  /\ T = S \cup {dst + k} /\ h = [g EXCEPT ![dst + k] = e]
  /\ LineCode(b', T, h, dst) \/ RunCode(b', T, h, dst) \/ WordCode(b', T, h, dst)
  /\ e.n > 0 /\ p + n = e.row * line =>
       ~(p + n + 2 * line <= size /\ Alike(e.row, e.row + 1))
  /\ k = n => k = 1 /\ b'[dst] = Shown(frame[p])
  /\ UNCHANGED <<shape, frame>>

LEMMA PackExtends ==
  ASSUME Typed, NEW S, NEW g, Packed(S, g),
         NEW k, NEW n, NEW e, NEW T, NEW h, Appends(S, g, k, n, e, T, h)
  PROVE  Typed' /\ (\E R, f : Packed(R, f)')
<1>1. size \in Nat /\ line \in Nat /\ p \in Nat /\ dst \in Nat /\ dst <= p /\ dst \in S
      /\ S \subseteq 0 .. dst /\ g \in [0 .. size -> Places]
      /\ k \in 1 .. 3 /\ n \in Nat /\ k <= n /\ p + n <= size /\ dst' = dst + k /\ p' = p + n
      /\ e \in Places /\ e.at = p + n /\ T = S \cup {dst + k} /\ h = [g EXCEPT ![dst + k] = e]
  BY ShapeFacts DEF Typed, Packed, Coded, Appends
<1>2. \A i \in 0 .. dst - 1 : b'[i] = b[i]
  BY <1>1 DEF Appends
<1>3. Coded(b', T, h, 0, dst + k)
  <2>1. shape \in Shapes /\ Coded(b, S, g, 0, dst)
    BY DEF Typed, Packed
  <2>2. dst + k <= size /\ e.at <= size
    BY <1>1
  <2>3. /\ e.n > 0 => Waits(e)
        /\ LineCode(b', T, h, dst) \/ RunCode(b', T, h, dst) \/ WordCode(b', T, h, dst)
    BY DEF Appends
  <2> QED BY <1>1, <1>2, <2>1, <2>2, <2>3, Extends
<1>4. /\ h \in [0 .. size -> Places] /\ h[dst + k] = e /\ h[0] = g[0]
      /\ \A i \in 0 .. dst : h[i] = g[i]
  <2>1. dst + k \in 0 .. size /\ 0 \in 0 .. dst
    BY <1>1
  <2>2. \A i \in 0 .. dst : i \in 0 .. size /\ i # dst + k
    BY <1>1
  <2>3. h \in [0 .. size -> Places] /\ h[dst + k] = e
    BY <1>1, <2>1
  <2>4. \A i \in 0 .. dst : h[i] = g[i]
    BY <1>1, <2>2
  <2> QED BY <2>1, <2>3, <2>4
<1>5. \A t \in T : t <= h[t].at /\ h[t].at - t <= p' - dst'
  <2> SUFFICES ASSUME NEW t \in T PROVE t <= h[t].at /\ h[t].at - t <= p' - dst'
    OBVIOUS
  <2>1. CASE t \in S
    <3>1. t \in 0 .. dst /\ t \in 0 .. size /\ h[t] = g[t]
      BY <1>1, <1>4, <2>1
    <3>2. g[t].at \in Nat
      BY <1>1, <3>1 DEF Places
    <3>3. t <= g[t].at /\ g[t].at - t <= p - dst
      BY <2>1 DEF Packed
    <3>4. p' \in Nat /\ dst' \in Nat /\ p - dst <= p' - dst'
      BY <1>1
    <3>5. t \in Nat
      BY <1>1, <3>1
    <3> QED BY <1>1, <3>1, <3>2, <3>3, <3>4, <3>5
  <2>2. CASE t = dst + k
    BY <1>1, <1>4, <2>2
  <2> QED BY <1>1, <2>1, <2>2
<1>6. \A i \in p' .. size - 1 : b'[i] = frame[i]
  <2> SUFFICES ASSUME NEW i \in p' .. size - 1 PROVE b'[i] = frame[i]
    OBVIOUS
  <2>1. i \in p .. size - 1 /\ i \in 0 .. size - 1 /\ i > dst + k - 1
    BY <1>1
  <2>2. b'[i] = b[i]
    BY <2>1 DEF Appends
  <2> QED BY <2>1, <2>2 DEF Packed
<1>7. ASSUME p' = dst' PROVE \A i \in 0 .. dst' - 1 : b'[i] = Shown(frame[i])
  <2>1. k = 1 /\ n = 1 /\ p = dst /\ b'[dst] = Shown(frame[p])
    BY <1>1, <1>7 DEF Appends
  <2>2. \A i \in 0 .. dst - 1 : b'[i] = Shown(frame[i])
    BY <1>2, <2>1 DEF Packed
  <2>3. dst' = dst + 1
    BY <1>1, <2>1
  <2> QED BY <1>1, <2>1, <2>2, <2>3
<1>8. Typed'
  BY <1>1 DEF Typed, Appends, size
<1>9. Packed(T, h)'
  <2>1. Coded(b, T, h, 0, dst)'
    BY <1>1, <1>3, SameFrame DEF Appends
  <2>2. \A i \in (p .. size - 1)' : b'[i] = frame'[i]
    BY <1>6 DEF Appends, size
  <2>3. (p = dst)' => \A i \in 0 .. dst' - 1 : b'[i] = Shown(frame[i])'
    BY <1>7 DEF Appends, Shown, magic_y, line
  <2>4. h[0].at = 0 /\ h[dst'].at = p' /\ h[dst'] = e
    BY <1>1, <1>4 DEF Packed
  <2>5. e.n > 0 /\ p' = e.row * line' =>
          ~(p' + 2 * line' <= size' /\ Alike(e.row, e.row + 1)')
    BY <1>1 DEF Appends, Alike, line, size
  <2> QED BY <1>5, <2>1, <2>2, <2>3, <2>4, <2>5 DEF Packed
<1> QED BY <1>8, <1>9

\* What the loop reads from p on is the frame.
LEMMA Ahead ==
  ASSUME Typed, NEW S, NEW g, Packed(S, g), NEW i \in Nat, p <= i, i < size
  PROVE  b[i] = frame[i]
<1>1. size \in Nat /\ p \in Nat
  BY ShapeFacts DEF Typed
<1>2. i \in p .. size - 1
  BY <1>1
<1> QED BY <1>2 DEF Packed

LEMMA SameLines ==
  ASSUME Typed, NEW S, NEW g, Packed(S, g), line # 0, NEW q \in Nat, NEW j \in Nat,
         p <= q * line, p <= j * line, (q + 1) * line <= size, (j + 1) * line <= size
  PROVE  SameLine(q * line, j * line) <=> Alike(q, j)
<1>1. size \in Nat /\ line \in Nat
  BY ShapeFacts DEF Typed
<1>2. \A k \in 0 .. line - 1 : b[q * line + k] = frame[q * line + k]
                             /\ b[j * line + k] = frame[j * line + k]
  <2> SUFFICES ASSUME NEW k \in 0 .. line - 1
               PROVE  b[q * line + k] = frame[q * line + k] /\ b[j * line + k] = frame[j * line + k]
    OBVIOUS
  <2>1. /\ q * line \in Nat /\ (q + 1) * line = q * line + line
        /\ j * line \in Nat /\ (j + 1) * line = j * line + line
    BY <1>1, Product
  <2> DEFINE x == q * line
             y == j * line
  <2>3. x \in Nat /\ x + line <= size /\ p <= x /\ y \in Nat /\ y + line <= size /\ p <= y
        /\ p \in Nat
    BY <2>1 DEF Typed
  <2> HIDE DEF x, y
  <2>4. /\ x + k \in Nat /\ x + k < size /\ p <= x + k
        /\ y + k \in Nat /\ y + k < size /\ p <= y + k
    BY <1>1, <2>3
  <2>2. /\ q * line + k \in Nat /\ q * line + k < size /\ p <= q * line + k
        /\ j * line + k \in Nat /\ j * line + k < size /\ p <= j * line + k
    BY <2>4 DEF x, y
  <2> QED BY <2>2, Ahead
<1> QED BY <1>2 DEF SameLine, Alike

\* Repeats is how often line q comes again, and no less.
LEMMA RepeatsLines ==
  ASSUME Typed, NEW S, NEW g, Packed(S, g), line # 0, NEW q \in Nat, p = q * line, p < size
  PROVE  /\ Repeats \in Nat
         /\ (q + Repeats + 1) * line <= size
         /\ \A j \in q .. q + Repeats : Alike(q, j)
         /\ ~(p + (Repeats + 2) * line <= size /\ Alike(q, q + Repeats + 1))
<1> DEFINE Again(n) == p + (n + 1) * line <= size /\ SameLine(p, p + n * line)
           again == {n \in 1 .. size \div line : \A m \in 1 .. n : Again(m)}
<1>1. size \in Nat /\ line \in Nat /\ line >= 3
  BY ShapeFacts DEF Typed
<1>2. size \div line \in Nat
  BY <1>1
<1>4. Repeats = Cardinality(again)
  BY DEF Repeats
<1> HIDE DEF Again
<1>3. Cardinality(again) \in Nat /\ again = 1 .. Cardinality(again)
  <2>1. ASSUME NEW n \in again, NEW m \in 1 .. n PROVE m \in again
    <3>1. n \in 1 .. size \div line /\ m \in 1 .. size \div line
      BY <1>2
    <3>2. \A i \in 1 .. m : i \in 1 .. n
      BY <3>1
    <3> QED BY <3>1, <3>2
  <2>3. again \subseteq 1 .. size \div line
    OBVIOUS
  <2> HIDE DEF again
  <2>2. /\ Cardinality(again) \in Nat
        /\ again = 1 .. 1 + Cardinality(again) - 1
    BY <1>2, <2>1, <2>3, Interval
  <2> QED BY <2>2
<1>5. Repeats \in Nat /\ again = 1 .. Repeats
  BY <1>3, <1>4
<1>6. \A m \in Nat : p + m * line = (q + m) * line /\ p + (m + 1) * line = (q + m + 1) * line
  BY <1>1
<1>7. (q + 1) * line <= size
  <2>1. PICK c \in Nat : size = c * line
    BY ShapeFacts DEF Typed
  <2>2. ~(c <= q)
    BY <1>1, <2>1, Ordered, Product
  <2> QED BY <1>1, <2>1, <2>2, Ordered
<1>8. \A n \in 1 .. Repeats : Again(n)
  <2> SUFFICES ASSUME NEW n \in 1 .. Repeats PROVE Again(n)
    OBVIOUS
  <2>1. n \in again
    <3> HIDE DEF again
    <3> QED BY <1>5
  <2>2. n \in 1 .. n
    BY <1>5
  <2> QED BY <2>1, <2>2
<1>9. ~Again(Repeats + 1)
  <2> SUFFICES ASSUME Again(Repeats + 1) PROVE FALSE
    OBVIOUS
  <2>1. Repeats + 1 \in 1 .. size \div line
    <3>1. PICK c \in Nat, k \in 0 .. line - 1 : size = c * line + k /\ size \div line = c
      BY <1>1, Division
    <3>2. (q + Repeats + 2) * line <= size
      <4>1. /\ p + (Repeats + 1 + 1) * line = (q + (Repeats + 1) + 1) * line
            /\ q + (Repeats + 1) + 1 = q + Repeats + 2
        BY <1>5, <1>6
      <4> QED BY <4>1 DEF Again
    <3>3. q + Repeats + 2 <= c
      BY <1>1, <1>5, <3>1, <3>2, Below
    <3> QED BY <1>5, <3>1, <3>3
  <2>2. \A m \in 1 .. Repeats + 1 : Again(m)
    BY <1>5, <1>8
  <2>3. Repeats + 1 \in again
    BY <2>1, <2>2
  <2> QED BY <1>5, <2>3
<1>10. ASSUME NEW m \in Nat PROVE Again(m) <=> (q + m + 1) * line <= size /\ Alike(q, q + m)
  <2>1. p + m * line = (q + m) * line /\ p + (m + 1) * line = (q + m + 1) * line
    BY <1>6
  <2>2. q * line <= (q + m) * line
    BY <1>1, Ordered
  <2>3. (q + m + 1) * line <= size => (SameLine(q * line, (q + m) * line) <=> Alike(q, q + m))
    BY <1>1, <1>7, <2>2, SameLines
  <2> QED BY <2>1, <2>3 DEF Again
<1>11. \A n \in 1 .. Repeats : (q + n + 1) * line <= size /\ Alike(q, q + n)
  BY <1>8, <1>10
<1>12. (q + Repeats + 1) * line <= size
  BY <1>5, <1>7, <1>11
<1>13. ASSUME NEW j \in q .. q + Repeats PROVE Alike(q, j)
  <2>1. j - q \in 0 .. Repeats /\ j = q + (j - q)
    BY <1>5
  <2>2. j = q => Alike(q, j)
    BY DEF Alike
  <2> QED BY <1>11, <2>1, <2>2
<1>14. ~(p + (Repeats + 2) * line <= size /\ Alike(q, q + Repeats + 1))
  <2>1. Repeats + 1 \in Nat /\ (q + (Repeats + 1) + 1) * line = p + (Repeats + 2) * line
        /\ q + (Repeats + 1) = q + Repeats + 1
    BY <1>1, <1>5
  <2> QED BY <1>9, <1>10, <2>1
<1> QED BY <1>5, <1>12, <1>13, <1>14

\* The step writes words 0 .. last from position `at' on.
Puts(at, last, words) ==
  DOMAIN words = 0 .. last /\ b' = Write(at, words) /\ at \in Nat /\ last \in Nat

LEMMA Written ==
  ASSUME Typed, NEW at, NEW last, NEW words, Puts(at, last, words)
  PROVE  /\ b' = [i \in 0 .. size - 1 |-> b'[i]]
         /\ \A i \in 0 .. size - 1 : i < at \/ i > at + last => b'[i] = b[i]
         /\ \A j \in Nat : j <= last /\ at + j < size => b'[at + j] = words[j]
<1>1. size \in Nat /\ DOMAIN b = 0 .. size - 1
  <2>1. DOMAIN [i \in 0 .. size - 1 |-> b[i]] = 0 .. size - 1
    OBVIOUS
  <2> QED BY <2>1, ShapeFacts DEF Typed
<1>2. b' = [i \in 0 .. size - 1 |-> IF i - at \in 0 .. last THEN words[i - at] ELSE b[i]]
  BY <1>1 DEF Write, Puts
<1>3. ASSUME NEW i \in 0 .. size - 1, i < at \/ i > at + last PROVE b'[i] = b[i]
  <2>1. i - at \notin 0 .. last
    BY <1>1, <1>3 DEF Puts
  <2> QED BY <1>2, <2>1
<1>4. ASSUME NEW j \in Nat, j <= last, at + j < size PROVE b'[at + j] = words[j]
  <2>1. at + j \in 0 .. size - 1 /\ (at + j) - at = j /\ j \in 0 .. last
    BY <1>1, <1>4 DEF Puts
  <2> QED BY <1>2, <2>1
<1> QED BY <1>2, <1>3, <1>4

LEMMA FirstWritten ==
  ASSUME Typed, NEW at, NEW last, NEW words, Puts(at, last, words), at < size
  PROVE  b'[at] = words[0]
<1>1. at + 0 = at /\ 0 <= last
  BY DEF Puts
<1>2. \A j \in Nat : j <= last /\ at + j < size => b'[at + j] = words[j]
  BY Written
<1>3. at + 0 < size
  BY <1>1
<1>4. b'[at + 0] = words[0]
  BY <1>1, <1>2, <1>3
<1> QED BY <1>1, <1>4

\* Where the last code ends
LEMMA LastPlace ==
  ASSUME Typed, NEW S, NEW g, Packed(S, g), p <= size
  PROVE  /\ dst \in S /\ S \subseteq 0 .. dst /\ g \in [0 .. size -> Places]
         /\ dst <= p /\ dst \in 0 .. size /\ g[dst].at = p
         /\ g[dst] \in Places /\ g[dst].n \in Nat /\ g[dst].row \in Nat
         /\ (g[dst].n > 0 => Waits(g[dst]))
<1>1. size \in Nat /\ p \in Nat /\ dst \in Nat
  BY ShapeFacts DEF Typed
<1>2. dst \in S /\ S \subseteq 0 .. dst /\ g \in [0 .. size -> Places]
  BY DEF Packed, Coded
<1>3. g[dst].at = p /\ dst <= p
  BY <1>2 DEF Packed
<1>4. dst \in 0 .. size
  BY <1>1, <1>3
<1>5. g[dst] \in Places /\ g[dst].n \in Nat /\ g[dst].row \in Nat
  BY <1>2, <1>4 DEF Places
<1>6. g[dst].n > 0 => Waits(g[dst])
  BY <1>2 DEF Packed, Coded
<1> QED BY <1>2, <1>3, <1>4, <1>5, <1>6

LEMMA PackLineStep ==
  ASSUME Typed, NEW S, NEW g, Packed(S, g), PackLine
  PROVE  Typed' /\ (\E R, f : Packed(R, f)')
<1> DEFINE N == Repeats
<1>1. /\ size \in Nat /\ line \in Nat /\ line >= 3 /\ p \in Nat /\ dst \in Nat
      /\ p < size /\ p % line = 0 /\ Repeats > 0
      /\ b' = Write(dst, Words2(Y, Repeats)) /\ dst' = dst + 2 /\ p' = p + Repeats * line
      /\ UNCHANGED <<shape, frame>>
  BY ShapeFacts DEF PackLine, Packing, AtLine, Typed
<1>2. PICK q \in Nat : p = q * line
  <2>1. PICK q \in Nat, k \in 0 .. line - 1 : p = q * line + k /\ p % line = k
    BY <1>1, LineAt DEF Typed
  <2>2. p = q * line
    BY <1>1, <2>1, Product
  <2> QED BY <2>2
<1>3. /\ N \in Nat /\ (q + N + 1) * line <= size
      /\ \A j \in q .. q + N : Alike(q, j)
      /\ ~(p + (N + 2) * line <= size /\ Alike(q, q + N + 1))
  BY <1>1, <1>2, RepeatsLines
<1> HIDE DEF N
<1>4. N > 0 /\ b' = Write(dst, Words2(Y, N)) /\ p' = p + N * line
  BY <1>1 DEF N
<1>5. /\ dst \in S /\ S \subseteq 0 .. dst /\ g \in [0 .. size -> Places] /\ dst <= p
      /\ dst \in 0 .. size /\ g[dst] \in Places /\ g[dst].at = p
      /\ (g[dst].n > 0 => Waits(g[dst]))
  BY <1>1, LastPlace
<1>6. g[dst].n = 0
  <2> SUFFICES ASSUME g[dst].n # 0 PROVE FALSE
    OBVIOUS
  <2>1. g[dst].n > 0 /\ Waits(g[dst])
    BY <1>1, <1>5, LastPlace
  <2> DEFINE r == g[dst].row
  <2>2. r \in Nat /\ r * line <= p /\ p < (r + 1) * line
    BY <1>1, <1>5, <2>1, LastPlace DEF Waits, End
  <2>6. p = r * line => ~(p + 2 * line <= size /\ Alike(r, r + 1))
    BY <2>1 DEF Packed
  <2> HIDE DEF r
  <2>3. r <= q
    BY <1>1, <1>2, <2>2, Below, Product
  <2>4. ~(r + 1 <= q)
    <3>1. r + 1 <= q => (r + 1) * line <= q * line
      BY <1>1, <2>2, Ordered
    <3>2. (r + 1) * line \in Nat
      BY <1>1, <2>2, Product
    <3> QED BY <1>1, <1>2, <2>2, <3>1, <3>2
  <2>5. r = q
    BY <2>2, <2>3, <2>4
  <2>7. q + 1 \in q .. q + N
    BY <1>3, <1>4
  <2>8. p + 2 * line <= size
    <3>1. (q + 2) * line <= (q + N + 1) * line
      BY <1>1, <1>3, <1>4, Ordered
    <3>2. (q + 2) * line = p + 2 * line
      BY <1>1, <1>2
    <3>3. (q + N + 1) * line \in Nat
      BY <1>1, <1>3, Product
    <3> QED BY <1>1, <1>3, <3>1, <3>2, <3>3
  <2> QED BY <1>2, <1>3, <2>5, <2>6, <2>7, <2>8
<1> DEFINE e == [at |-> p + N * line, n |-> N, row |-> q + N]
           T == S \cup {dst + 2}
           h == [g EXCEPT ![dst + 2] = e]
<1>7. /\ N * line \in Nat /\ N * line >= line
      /\ p + N * line = (q + N) * line
      /\ (q + N + 1) * line = p + N * line + line
      /\ p + N * line + 2 * line = p + (N + 2) * line
  BY <1>1, <1>2, <1>3, <1>4, Product
<1>8. e \in Places /\ e.at = p + N * line /\ e.n = N /\ e.row = q + N
  BY <1>1, <1>3, <1>7 DEF Places
<1>9. Waits(e)
  <2>1. \A j \in q .. q + N : Alike(j, q + N)
    BY <1>3 DEF Alike
  <2>2. (q + N) - N = q
    BY <1>3
  <2>3. (q + N) * line <= p + N * line /\ p + N * line < (q + N + 1) * line
    BY <1>1, <1>3, <1>7
  <2> HIDE DEF e
  <2> QED BY <1>1, <1>3, <1>8, <2>1, <2>2, <2>3 DEF Waits, End
<1>10. p + N * line <= size /\ dst + 2 <= size /\ dst + 2 \in 0 .. size
  <2> DEFINE x == N * line
  <2>1. x \in Nat /\ x >= line /\ p + x + line <= size
    BY <1>3, <1>7
  <2> HIDE DEF x
  <2>2. p + x <= size /\ dst + 2 <= size
    BY <1>1, <1>5, <2>1
  <2> QED BY <1>1, <2>2 DEF x
<1>11. /\ b' = [i \in 0 .. size - 1 |-> b'[i]]
       /\ \A i \in 0 .. size - 1 : i < dst \/ i > dst + 1 => b'[i] = b[i]
       /\ b'[dst] = Y /\ b'[dst + 1] = N
  <2>1. DOMAIN Words2(Y, N) = 0 .. 1 /\ Words2(Y, N)[0] = Y /\ Words2(Y, N)[1] = N
    BY DEF Words2
  <2>4. Puts(dst, 1, Words2(Y, N))
    BY <1>1, <1>4, <2>1 DEF Puts
  <2>2. \A j \in Nat : j <= 1 /\ dst + j < size => b'[dst + j] = Words2(Y, N)[j]
    BY <2>4, Written
  <2>3. b'[dst + 0] = Y /\ b'[dst + 1] = N
    BY <1>1, <1>10, <2>1, <2>2
  <2>5. b'[dst] = Y
    BY <1>1, <2>3
  <2>6. /\ b' = [i \in 0 .. size - 1 |-> b'[i]]
        /\ \A i \in 0 .. size - 1 : i < dst \/ i > dst + 1 => b'[i] = b[i]
    BY <2>4, Written
  <2> QED BY <2>3, <2>5, <2>6
<1>12. h[dst + 2] = e /\ h[dst] = g[dst]
  BY <1>1, <1>5, <1>10
<1>13. LineCode(b', T, h, dst)
  <2>1. dst + 2 \in T
    OBVIOUS
  <2>2. b'[dst + 1] * line = N * line /\ e.at = h[dst].at + b'[dst + 1] * line
    BY <1>5, <1>8, <1>11, <1>12
  <2>3. e.at = e.row * line
    BY <1>7, <1>8
  <2> HIDE DEF e, h, T
  <2>4. line # 0 /\ b'[dst + 1] \in Nat \ {0}
    <3>1. N \in Nat /\ N > 0 /\ line # 0
      BY <1>1, <1>3, <1>4
    <3> QED BY <1>11, <3>1
  <2>5. h[dst].n = 0 /\ h[dst + 2].n = b'[dst + 1]
    BY <1>6, <1>8, <1>11, <1>12
  <2>6. h[dst + 2].at = h[dst].at + b'[dst + 1] * line
    BY <1>12, <2>2
  <2>7. h[dst + 2].at = h[dst + 2].row * line
    BY <1>12, <2>3
  <2>8. b'[dst] = Y
    BY <1>11
  <2> QED BY <2>1, <2>4, <2>5, <2>6, <2>7, <2>8 DEF LineCode
<1>14. ~(p + N * line + 2 * line <= size /\ Alike(e.row, e.row + 1))
  <2>1. Alike(q, q + N) /\ Alike(q + N, q + N + 1) => Alike(q, q + N + 1)
    BY DEF Alike
  <2>2. q + N \in q .. q + N
    BY <1>3
  <2> QED BY <1>3, <1>7, <2>1, <2>2
<1> DEFINE n == N * line
<1>15. n \in Nat /\ 2 <= n /\ 2 # n /\ p + n <= size /\ p' = p + n /\ e.at = p + n
       /\ ~(p + n + 2 * line <= size /\ Alike(e.row, e.row + 1))
  BY <1>1, <1>4, <1>7, <1>8, <1>10, <1>14
<1> HIDE DEF e, n
<1>16. T = S \cup {dst + 2} /\ h = [g EXCEPT ![dst + 2] = e]
  OBVIOUS
<1> HIDE DEF h, T
<1>17. dst' = dst + 2 /\ UNCHANGED <<shape, frame>> /\ 2 \in 1 .. 3
  BY <1>1
<1>18. Appends(S, g, 2, n, e, T, h)
  BY <1>8, <1>9, <1>11, <1>13, <1>15, <1>16, <1>17 DEF Appends
<1> QED BY <1>18, PackExtends

\* The code after the last one, n words of the frame further in its line
LEMMA NextPlace ==
  ASSUME Typed, NEW S, NEW g, Packed(S, g), NEW n \in Nat, n > 0, p + n <= size,
         g[dst].n > 0 => p + n <= End(g[dst])
  PROVE  \E e \in Places : /\ e.at = p + n /\ Follows(g[dst], e, n)
                           /\ e.n > 0 => Waits(e) /\ p + n # e.row * line
<1> DEFINE o == g[dst]
<1>1. /\ p \in Nat /\ size \in Nat /\ line \in Nat
      /\ o \in Places /\ o.at = p /\ o.n \in Nat /\ o.row \in Nat
      /\ (o.n > 0 => Waits(o))
      /\ (o.n > 0 => p + n <= End(o))
  BY ShapeFacts, LastPlace DEF Typed
<1> HIDE DEF o
<1>2. CASE o.n > 0 /\ p + n < End(o)
  <2> DEFINE e == [at |-> p + n, n |-> o.n, row |-> o.row]
  <2>1. e \in Places /\ e.at = p + n /\ e.n = o.n /\ e.row = o.row
    BY <1>1 DEF Places
  <2> HIDE DEF e
  <2>2. End(e) = End(o)
    BY <2>1 DEF End
  <2>3. o.row * line <= p /\ o.row * line \in Nat
    BY <1>1, <1>2, Product DEF Waits
  <2>4. e.row * line <= p + n /\ p + n # e.row * line
    <3> DEFINE x == o.row * line
    <3>1. x <= p /\ x \in Nat
      BY <2>3
    <3> HIDE DEF x
    <3>2. x <= p + n /\ p + n # x
      BY <1>1, <3>1
    <3> QED BY <2>1, <3>2 DEF x
  <2>5. Waits(e)
    BY <1>1, <1>2, <2>1, <2>2, <2>4 DEF Waits
  <2>6. Follows(o, e, n)
    BY <1>1, <1>2, <2>1, <2>2 DEF Follows
  <2> QED BY <2>1, <2>4, <2>5, <2>6 DEF o
<1>3. CASE ~(o.n > 0 /\ p + n < End(o))
  <2> DEFINE e == [at |-> p + n, n |-> 0, row |-> 0]
  <2>1. e \in Places /\ e.at = p + n /\ e.n = 0
    BY <1>1 DEF Places
  <2> HIDE DEF e
  <2>2. o.n > 0 => p + n = End(o)
    <3>1. o.n > 0 => End(o) \in Nat
      BY <1>1, Product DEF End
    <3> QED BY <1>1, <1>3, <3>1
  <2>3. Follows(o, e, n)
    BY <1>1, <1>3, <2>1, <2>2 DEF Follows
  <2> QED BY <2>1, <2>3 DEF o
<1> QED BY <1>2, <1>3

LEMMA OneWord ==
  ASSUME Typed, NEW S, NEW g, Packed(S, g), p < size, NEW v, v = Shown(frame[p]),
         b' = Write(dst, Word(v)), dst' = dst + 1, p' = p + 1, UNCHANGED <<shape, frame>>
  PROVE  Typed' /\ (\E R, f : Packed(R, f)')
<1>1. /\ p \in Nat /\ dst \in Nat /\ size \in Nat /\ dst <= p /\ p + 1 <= size
      /\ dst \in 0 .. size /\ g[dst].at = p /\ g \in [0 .. size -> Places]
      /\ line \in Nat
  BY ShapeFacts, LastPlace DEF Typed
<1>2. g[dst].n > 0 => p + 1 <= End(g[dst])
  <2>1. g[dst].n > 0 => p < End(g[dst]) /\ End(g[dst]) \in Nat
    BY <1>1, LastPlace, Product DEF Waits, End
  <2> QED BY <1>1, <2>1
<1>3. PICK e \in Places : /\ e.at = p + 1 /\ Follows(g[dst], e, 1)
                          /\ e.n > 0 => Waits(e) /\ p + 1 # e.row * line
  BY <1>1, <1>2, NextPlace
<1> DEFINE T == S \cup {dst + 1}
           h == [g EXCEPT ![dst + 1] = e]
<1>4. h[dst] = g[dst] /\ h[dst + 1] = e /\ dst + 1 \in T
  <2>1. dst + 1 \in 0 .. size
    BY <1>1
  <2> QED BY <1>1, <2>1
<1>5. Puts(dst, 0, Word(v)) /\ Word(v)[0] = v
  BY <1>1 DEF Puts, Word
<1>6. /\ b' = [i \in 0 .. size - 1 |-> b'[i]]
      /\ \A i \in 0 .. size - 1 : i < dst \/ i > dst => b'[i] = b[i]
      /\ b'[dst] = v
  <2>1. b' = [i \in 0 .. size - 1 |-> b'[i]]
    BY <1>5, Written
  <2>2. \A i \in 0 .. size - 1 : i < dst \/ i > dst + 0 => b'[i] = b[i]
    BY <1>5, Written
  <2>3. dst < size
    BY <1>1
  <2>4. b'[dst] = v
    BY <1>5, <2>3, FirstWritten
  <2> QED BY <1>1, <2>1, <2>2, <2>4
<1>7. T = S \cup {dst + 1} /\ h = [g EXCEPT ![dst + 1] = e]
  OBVIOUS
<1> HIDE DEF T, h
<1>8. WordCode(b', T, h, dst)
  BY <1>1, <1>3, <1>4, <1>6 DEF WordCode
<1>9. Appends(S, g, 1, 1, e, T, h)
  BY <1>1, <1>3, <1>6, <1>7, <1>8 DEF Appends
<1> QED BY <1>9, PackExtends

LEMMA PackMagicStep ==
  ASSUME Typed, NEW S, NEW g, Packed(S, g), PackMagic
  PROVE  Typed' /\ (\E R, f : Packed(R, f)')
<1>1. /\ p \in Nat /\ p < size /\ b[p] \in {X, magic_y} /\ b' = Write(dst, Word(Rplc))
      /\ dst' = dst + 1 /\ p' = p + 1 /\ UNCHANGED <<shape, frame>>
  BY DEF PackMagic, NoRepeat, Packing, Typed
<1>2. Rplc = Shown(frame[p])
  <2>1. b[p] = frame[p]
    <3>1. p <= p
      BY <1>1
    <3> QED BY <1>1, <3>1, Ahead
  <2> QED BY <1>1, <2>1 DEF Shown
<1> QED BY <1>1, <1>2, OneWord

LEMMA PackWordStep ==
  ASSUME Typed, NEW S, NEW g, Packed(S, g), PackWord
  PROVE  Typed' /\ (\E R, f : Packed(R, f)')
<1>1. /\ p \in Nat /\ p < size /\ b[p] \notin {X, magic_y} /\ b' = Write(dst, Word(b[p]))
      /\ dst' = dst + 1 /\ p' = p + 1 /\ UNCHANGED <<shape, frame>>
  BY DEF PackWord, NoRepeat, Packing, Typed
<1>2. b[p] = Shown(frame[p])
  <2>1. b[p] = frame[p]
    <3>1. p <= p
      BY <1>1
    <3> QED BY <1>1, <3>1, Ahead
  <2> QED BY <1>1, <2>1 DEF Shown
<1> QED BY <1>1, <1>2, OneWord

\* A run is as long as it says, and, but for the first line of three words, stays
\* in its line.
LEMMA RunWords ==
  ASSUME Typed, NEW S, NEW g, Packed(S, g), p < size, RunHere
  PROVE  /\ RunLength \in Nat /\ RunLength >= 4 /\ p + RunLength <= size
         /\ \A k \in 0 .. RunLength - 1 : b[p + k] = b[p]
         /\ g[dst].n > 0 => p + RunLength <= End(g[dst])
<1>1. /\ p \in Nat /\ size \in Nat /\ size >= 4 /\ line \in Nat
      /\ (line # 0 => line >= 3)
  BY ShapeFacts DEF Typed
<1>2. ~NoRoom /\ b[p + 1] = b[p] /\ b[p + 2] = b[p] /\ b[p + 3] = b[p]
  <2>1. 1 \in 1 .. MinRun - 1 /\ 2 \in 1 .. MinRun - 1 /\ 3 \in 1 .. MinRun - 1
    BY DEF MinRun
  <2> QED BY <2>1 DEF RunHere
\* The end of the line, and what is left of it
<1>3. /\ LineEnd \in Nat /\ LineEnd <= size /\ p + 4 <= size
      /\ (LineEnd >= 4 => p + 4 <= LineEnd)
      /\ (g[dst].n > 0 => LineEnd = End(g[dst]) /\ LineEnd >= 4)
  <2>1. CASE line = 0
    <3>1. LineEnd = size /\ ~(p >= LineEnd - 4)
      BY <1>1, <1>2, <2>1 DEF LineEnd, NoRoom
    <3>2. ~(g[dst].n > 0)
      BY <1>1, <2>1, LastPlace DEF Waits
    <3> QED BY <1>1, <3>1, <3>2
  <2>2. CASE line # 0
    <3>1. PICK q \in Nat, k \in 0 .. line - 1 :
            p = q * line + k /\ p \div line = q /\ (q + 1) * line <= size
      BY <1>1, <2>2, LineAt DEF Typed
    <3>2. LineEnd = (q + 1) * line /\ (q + 1) * line \in Nat /\ q * line \in Nat
          /\ (q + 1) * line = q * line + line
      <4>1. line * (q + 1) = (q + 1) * line
        BY <1>1
      <4> QED BY <1>1, <2>2, <3>1, <4>1, Product DEF LineEnd
    <3>3. LineEnd <= size /\ LineEnd \in Nat
      BY <3>1, <3>2
    <3>4. LineEnd >= 4 => p + 4 <= LineEnd
      <4>1. LineEnd >= 4 => ~(p >= LineEnd - 4)
        BY <1>2 DEF NoRoom
      <4> QED BY <1>1, <3>3, <4>1
    <3>5. p + 4 <= size
      <4>1. CASE LineEnd >= 4
        BY <1>1, <3>3, <3>4, <4>1
      <4>2. CASE ~(LineEnd >= 4)
        <5>1. p < LineEnd
          <6> DEFINE x == q * line
          <6>1. x \in Nat /\ p = x + k /\ LineEnd = x + line
            BY <3>1, <3>2
          <6> HIDE DEF x
          <6> QED BY <1>1, <6>1
        <5>2. line = 3
          <6> DEFINE x == q * line
          <6>1. x \in Nat /\ LineEnd = x + line
            BY <3>2
          <6> HIDE DEF x
          <6> QED BY <1>1, <2>2, <4>2, <6>1
        <5>3. PICK c \in Nat : size = c * line
          BY <2>2, ShapeFacts DEF Typed
        <5>4. size = c * 3
          BY <5>2, <5>3
        <5> QED BY <1>1, <3>3, <4>2, <5>1, <5>4
      <4> QED BY <4>1, <4>2
    <3>6. ASSUME g[dst].n > 0 PROVE LineEnd = End(g[dst]) /\ LineEnd >= 4
      <4> DEFINE r == g[dst].row
      <4>1. /\ r \in Nat /\ r * line <= p /\ p < (r + 1) * line
            /\ End(g[dst]) = (r + 1) * line /\ g[dst].n <= r /\ g[dst].n \in Nat
        <5>1. /\ g[dst].n \in Nat /\ g[dst].row \in Nat /\ g[dst].at = p
              /\ Waits(g[dst])
          BY <1>1, <3>6, LastPlace
        <5> QED BY <5>1 DEF Waits, End
      <4> HIDE DEF r
      <4>2. r <= q
        BY <1>1, <3>1, <4>1, Below
      <4>3. q <= r
        <5> SUFFICES ASSUME r + 1 <= q PROVE FALSE
          BY <4>1
        <5>1. (r + 1) * line <= q * line
          BY <1>1, <4>1, Ordered
        <5>2. (r + 1) * line \in Nat
          BY <1>1, <4>1, Product
        <5> DEFINE x == q * line
                   y == (r + 1) * line
        <5>3. x \in Nat /\ y \in Nat /\ y <= x /\ p < y /\ p = x + k
          BY <3>1, <3>2, <4>1, <5>1, <5>2
        <5> HIDE DEF x, y
        <5> QED BY <1>1, <5>3
      <4>4. r = q /\ r >= 1
        BY <3>6, <4>1, <4>2, <4>3
      <4>5. 2 * line <= (q + 1) * line
        BY <1>1, <4>4, Ordered
      <4> QED BY <1>1, <2>2, <3>2, <4>1, <4>4, <4>5
    <3> QED BY <3>3, <3>4, <3>5, <3>6
  <2> QED BY <2>1, <2>2
<1> DEFINE Same(k) == p + k < LineEnd /\ b[p + k] = b[p]
           more == {n \in MinRun + 1 .. size : \A k \in MinRun .. n - 1 : Same(k)}
<1>4. RunLength = 4 + Cardinality(more)
  BY DEF RunLength, MinRun
<1> HIDE DEF Same
<1>5. Cardinality(more) \in Nat /\ more = 5 .. 5 + Cardinality(more) - 1
  <2>1. more \subseteq 5 .. size
    BY DEF MinRun
  <2>2. ASSUME NEW n \in more, NEW m \in 5 .. n PROVE m \in more
    <3>1. n \in 5 .. size /\ \A k \in 4 .. n - 1 : Same(k)
      BY DEF MinRun
    <3>2. m \in 5 .. size /\ \A k \in 4 .. m - 1 : k \in 4 .. n - 1
      BY <1>1, <3>1
    <3> QED BY <3>1, <3>2 DEF MinRun
  <2> HIDE DEF more
  <2> QED BY <1>1, <2>1, <2>2, Interval
<1>6. RunLength \in Nat /\ RunLength >= 4 /\ more = 5 .. RunLength
  <2> HIDE DEF more
  <2> QED BY <1>4, <1>5
<1>7. ASSUME NEW k \in 4 .. RunLength - 1 PROVE Same(k)
  <2>1. k + 1 \in more
    <3> HIDE DEF more
    <3> QED BY <1>6, <1>7
  <2>2. k \in 4 .. (k + 1) - 1
    BY <1>6, <1>7
  <2> QED BY <2>1, <2>2 DEF MinRun
<1>8. ASSUME NEW k \in 0 .. RunLength - 1 PROVE b[p + k] = b[p]
  <2>1. CASE k \in 4 .. RunLength - 1
    BY <1>7, <2>1 DEF Same
  <2>2. CASE k \in 0 .. 3
    BY <1>1, <1>2, <2>2
  <2> QED BY <1>6, <2>1, <2>2
<1>9. RunLength = 4 \/ p + RunLength <= LineEnd
  <2>1. CASE RunLength > 4
    <3>1. RunLength - 1 \in 4 .. RunLength - 1
      BY <1>6, <2>1
    <3>2. p + (RunLength - 1) < LineEnd
      BY <1>7, <3>1 DEF Same
    <3> QED BY <1>1, <1>3, <1>6, <3>2
  <2> QED BY <1>6, <2>1
<1>10. p + RunLength <= size
  BY <1>1, <1>3, <1>6, <1>9
<1>11. g[dst].n > 0 => p + RunLength <= End(g[dst])
  BY <1>1, <1>3, <1>6, <1>9
<1> QED BY <1>6, <1>8, <1>10, <1>11

LEMMA PackRunStep ==
  ASSUME Typed, NEW S, NEW g, Packed(S, g), PackRun
  PROVE  Typed' /\ (\E R, f : Packed(R, f)')
<1> DEFINE n == RunLength
           v == b[p]
<1>1. /\ p < size /\ v \notin {X, magic_y} /\ RunHere
      /\ b' = Write(dst, Words3(X, v, n)) /\ dst' = dst + 3 /\ p' = p + n
      /\ UNCHANGED <<shape, frame>>
  BY DEF PackRun, NoRepeat, Packing
<1>2. /\ n \in Nat /\ n >= 4 /\ p + n <= size
      /\ \A k \in 0 .. n - 1 : b[p + k] = v
      /\ g[dst].n > 0 => p + n <= End(g[dst])
  BY <1>1, RunWords
<1> HIDE DEF n
<1>3. /\ p \in Nat /\ dst \in Nat /\ size \in Nat /\ dst <= p /\ line \in Nat
      /\ dst \in 0 .. size /\ g[dst].at = p /\ g \in [0 .. size -> Places]
  BY <1>1, ShapeFacts, LastPlace DEF Typed
<1>4. \A k \in 0 .. n - 1 : frame[p + k] = v
  <2> SUFFICES ASSUME NEW k \in 0 .. n - 1 PROVE frame[p + k] = v
    OBVIOUS
  <2>1. p + k \in Nat /\ p <= p + k /\ p + k < size
    BY <1>2, <1>3
  <2> QED BY <1>2, <2>1, Ahead
<1> HIDE DEF v
<1>5. PICK e \in Places : /\ e.at = p + n /\ Follows(g[dst], e, n)
                          /\ e.n > 0 => Waits(e) /\ p + n # e.row * line
  BY <1>2, NextPlace
<1> DEFINE T == S \cup {dst + 3}
           h == [g EXCEPT ![dst + 3] = e]
<1>6. h[dst] = g[dst] /\ h[dst + 3] = e /\ dst + 3 \in T
  <2>1. dst + 3 \in 0 .. size
    BY <1>2, <1>3
  <2> QED BY <1>3, <2>1
<1> DEFINE words == Words3(X, v, n)
<1>7. Puts(dst, 2, words) /\ words[0] = X /\ words[1] = v /\ words[2] = n
  BY <1>1, <1>3 DEF Puts, Words3
<1> HIDE DEF words
<1>8. /\ b' = [i \in 0 .. size - 1 |-> b'[i]]
      /\ \A i \in 0 .. size - 1 : i < dst \/ i > dst + 2 => b'[i] = b[i]
      /\ b'[dst] = X /\ b'[dst + 1] = v /\ b'[dst + 2] = n
  <2>1. /\ b' = [i \in 0 .. size - 1 |-> b'[i]]
        /\ \A i \in 0 .. size - 1 : i < dst \/ i > dst + 2 => b'[i] = b[i]
    BY <1>7, Written
  <2>2. \A j \in Nat : j <= 2 /\ dst + j < size => b'[dst + j] = words[j]
    BY <1>7, Written
  <2>3. dst < size /\ dst + 1 < size /\ dst + 2 < size
    BY <1>2, <1>3
  <2>4. b'[dst] = words[0]
    BY <1>7, <2>3, FirstWritten
  <2> QED BY <1>7, <2>1, <2>2, <2>3, <2>4
<1>9. T = S \cup {dst + 3} /\ h = [g EXCEPT ![dst + 3] = e]
  OBVIOUS
<1> HIDE DEF T, h
<1>10. RunCode(b', T, h, dst)
  <2>1. v \notin {X, magic_y}
    BY <1>1
  <2>2. \A k \in 0 .. b'[dst + 2] - 1 : frame[h[dst].at + k] = b'[dst + 1]
    BY <1>3, <1>4, <1>6, <1>8
  <2> QED BY <1>2, <1>5, <1>6, <1>8, <2>1, <2>2 DEF RunCode
<1>11. Appends(S, g, 3, n, e, T, h)
  BY <1>1, <1>2, <1>5, <1>8, <1>9, <1>10 DEF Appends
<1> QED BY <1>11, PackExtends

-----------------------------------------------------------------------------
(* From the sender to the receiver                                          *)

\* The code moves to the end of the buffer, by as much as the frame shrank.
LEMMA SendStep ==
  ASSUME IInv, Send
  PROVE  IInv'
<1> DEFINE k == size - dst
<1>1. /\ pc = "pack" /\ p >= size /\ Typed /\ l = 0 /\ next_line = 0
      /\ b' = [i \in DOMAIN b |-> IF i >= k THEN b[i - k] ELSE Rplc]
      /\ p' = k /\ dst' = 0 /\ pc' = IF dst = size THEN "done" ELSE "unpack"
      /\ UNCHANGED <<shape, frame, l, next_line>>
  BY DEF Send, IInv
<1>2. PICK S, g : Packed(S, g)
  BY <1>1 DEF IInv
<1>3. size \in Nat /\ p \in Nat /\ dst \in Nat /\ size >= 4 /\ DOMAIN b = 0 .. size - 1
  <2>1. DOMAIN [i \in 0 .. size - 1 |-> b[i]] = 0 .. size - 1
    OBVIOUS
  <2> QED BY <1>1, <2>1, ShapeFacts DEF Typed
<1>4. p = size /\ dst <= p /\ dst \in S /\ S \subseteq 0 .. dst
      /\ g \in [0 .. size -> Places] /\ g[dst].at = p
      /\ \A t \in S : g[t] \in Places /\ g[t].at \in Nat
      /\ (g[dst].n > 0 => Waits(g[dst]))
  <2>1. dst \in S /\ S \subseteq 0 .. dst /\ g[dst].at = p /\ g[dst].at <= size /\ dst <= g[dst].at
        /\ g \in [0 .. size -> Places] /\ (g[dst].n > 0 => Waits(g[dst]))
    BY <1>2 DEF Packed, Coded
  <2>2. S \subseteq 0 .. size
    BY <1>1, <1>3, <2>1
  <2>3. \A t \in S : g[t] \in Places
    BY <2>1, <2>2
  <2>4. \A t \in S : g[t].at \in Nat
    BY <2>3 DEF Places
  <2>5. p = size /\ dst <= p
    BY <1>1, <1>3, <2>1
  <2> QED BY <2>1, <2>3, <2>4, <2>5
<1>5. k \in Nat /\ k + dst = size
  BY <1>3, <1>4
<1>6. b' = [i \in 0 .. size - 1 |-> b'[i]]
  BY <1>1, <1>3
<1>7. Typed'
  BY <1>1, <1>5, <1>6 DEF Typed, size
<1>8. CASE dst = size
  <2>1. \A i \in 0 .. size - 1 : b'[i] = b[i]
    BY <1>1, <1>3, <1>8
  <2>2. \A i \in 0 .. size - 1 : b[i] = Shown(frame[i])
    BY <1>2, <1>4, <1>8 DEF Packed
  <2>3. Done'
    <3>1. \A i \in 0 .. size - 1 : b'[i] = Shown(frame[i])
      BY <2>1, <2>2
    <3>2. dst' <= p' /\ p' <= size
      BY <1>1, <1>3, <1>5
    <3> QED BY <1>1, <3>1, <3>2 DEF Done, Shown, magic_y, line, size
  <2> QED BY <1>1, <1>7, <1>8, <2>3 DEF IInv
<1>9. CASE dst # size
  <2> DEFINE T == {t \in 0 .. size : t >= k /\ t - k \in S}
             h == [t \in 0 .. size |-> IF t >= k THEN g[t - k] ELSE g[0]]
  <2>1. h \in [0 .. size -> Places]
    <3>1. \A t \in 0 .. size : t >= k => t - k \in 0 .. size
      BY <1>3, <1>5
    <3>2. 0 \in 0 .. size
      BY <1>3
    <3> QED BY <1>4, <3>1, <3>2
  <2>2. \A t \in S : t + k \in T /\ h[t + k] = g[t] /\ t \in Nat
    <3> SUFFICES ASSUME NEW t \in S PROVE t + k \in T /\ h[t + k] = g[t] /\ t \in Nat
      OBVIOUS
    <3>1. t \in Nat /\ t <= dst
      BY <1>3, <1>4
    <3>2. t + k \in 0 .. size /\ t + k >= k /\ (t + k) - k = t
      BY <1>3, <1>5, <3>1
    <3> QED BY <3>1, <3>2
  <2>3. \A t \in T : t - k \in S /\ t - k \in 0 .. dst /\ h[t] = g[t - k] /\ t \in k .. size
    BY <1>3, <1>4, <1>5
  <2>4. T \subseteq k .. size /\ k \in T /\ size \in T
    <3>1. 0 \in S /\ 0 + k = k /\ dst + k = size
      BY <1>2, <1>3, <1>5 DEF Packed, Coded
    <3>2. k \in T /\ size \in T
      BY <1>4, <2>2, <3>1
    <3> QED BY <2>3, <3>2
  <2>5. \A t \in T : h[t].at <= size /\ (h[t].n > 0 => Waits(h[t]))
    <3> HIDE DEF T, h
    <3> QED BY <1>2, <2>3 DEF Packed, Coded
  <2>6. \A t \in 0 .. dst - 1 : b'[t + k] = b[t]
    <3> SUFFICES ASSUME NEW t \in 0 .. dst - 1 PROVE b'[t + k] = b[t]
      OBVIOUS
    <3>1. t + k \in 0 .. size - 1 /\ t + k >= k /\ (t + k) - k = t
      BY <1>3, <1>5
    <3> QED BY <1>1, <1>3, <3>1
  <2>7. ASSUME NEW t \in T \ {size}
        PROVE  LineCode(b', T, h, t) \/ RunCode(b', T, h, t) \/ WordCode(b', T, h, t)
    <3> DEFINE s == t - k
    <3>1. s \in S /\ s # dst /\ s \in 0 .. dst - 1 /\ h[t] = g[s] /\ t = s + k
      BY <1>3, <1>5, <2>3
    <3>2. LineCode(b, S, g, s) \/ RunCode(b, S, g, s) \/ WordCode(b, S, g, s)
      BY <1>2, <3>1 DEF Packed, Coded
    <3> HIDE DEF s, T, h, k
    <3>3. b'[t] = b[s]
      BY <2>6, <3>1
    <3>4. CASE LineCode(b, S, g, s)
      <4>1. s + 2 \in S /\ s + 2 \in 0 .. dst
        BY <1>4, <3>4 DEF LineCode
      <4>2. s + 1 \in 0 .. dst - 1 /\ t + 1 = (s + 1) + k /\ t + 2 = (s + 2) + k
        BY <1>3, <1>5, <3>1, <4>1
      <4>3. b'[t + 1] = b[s + 1] /\ t + 2 \in T /\ h[t + 2] = g[s + 2]
        BY <2>2, <2>6, <4>1, <4>2
      <4> QED BY <3>1, <3>3, <3>4, <4>3 DEF LineCode
    <3>5. CASE RunCode(b, S, g, s)
      <4>1. s + 3 \in S /\ s + 3 \in 0 .. dst
        BY <1>4, <3>5 DEF RunCode
      <4>2. /\ s + 1 \in 0 .. dst - 1 /\ t + 1 = (s + 1) + k
            /\ s + 2 \in 0 .. dst - 1 /\ t + 2 = (s + 2) + k /\ t + 3 = (s + 3) + k
        BY <1>3, <1>5, <3>1, <4>1
      <4>3. b'[t + 1] = b[s + 1] /\ b'[t + 2] = b[s + 2] /\ t + 3 \in T /\ h[t + 3] = g[s + 3]
        BY <2>2, <2>6, <4>1, <4>2
      <4> QED BY <3>1, <3>3, <3>5, <4>3 DEF RunCode
    <3>6. CASE WordCode(b, S, g, s)
      <4>1. s + 1 \in S /\ s + 1 \in 0 .. dst
        BY <1>4, <3>6 DEF WordCode
      <4>2. t + 1 = (s + 1) + k
        BY <1>3, <1>5, <3>1
      <4>3. t + 1 \in T /\ h[t + 1] = g[s + 1]
        BY <2>2, <4>1, <4>2
      <4> QED BY <3>1, <3>3, <3>6, <4>3 DEF WordCode
    <3> QED BY <3>2, <3>4, <3>5, <3>6
  <2>8. Coded(b', T, h, p', size)
    <3> HIDE DEF T, h, k
    <3> QED BY <1>1, <2>1, <2>4, <2>5, <2>7 DEF Coded
  <2>9. \A t \in T : h[t].at <= t
    <3> SUFFICES ASSUME NEW t \in T PROVE h[t].at <= t
      OBVIOUS
    <3> DEFINE s == t - k
    <3>1. s \in S /\ s \in 0 .. dst /\ h[t] = g[s] /\ t = s + k
      BY <1>3, <1>5, <2>3
    <3>2. g[s].at - s <= p - dst /\ g[s].at \in Nat
      BY <1>2, <1>4, <3>1 DEF Packed
    <3> HIDE DEF s
    <3> QED BY <1>3, <1>4, <1>5, <3>1, <3>2
  <2>10. h[size] = g[dst] /\ h[k] = g[0]
    <3>1. 0 \in S /\ 0 + k = k /\ dst + k = size
      BY <1>2, <1>3, <1>5 DEF Packed, Coded
    <3> QED BY <1>4, <2>2, <3>1
  <2>11. g[0].at = 0 /\ g[0].n = 0
    <3>1. g[0].at = 0 /\ g[0] \in Places /\ (g[0].n > 0 => Waits(g[0]))
      BY <1>2, <1>4 DEF Packed, Coded
    <3>2. line \in Nat
      BY <1>1, ShapeFacts DEF Typed
    <3>3. g[0].n > 0 => FALSE
      <4> SUFFICES ASSUME g[0].n > 0 PROVE FALSE
        OBVIOUS
      <4>1. g[0].n <= g[0].row /\ g[0].row * line <= 0 /\ line # 0 /\ g[0].n \in Nat /\ g[0].row \in Nat
        BY <3>1 DEF Waits, Places
      <4> QED BY <3>2, <4>1, Product
    <3> QED BY <3>1, <3>3 DEF Places
  <2> HIDE DEF T, h, k
  <2>12. PICK R, f : R = T /\ f = h
    OBVIOUS
  <2>14. Unpacked(R, f)'
    <3> USE <2>12
    <3>1. Coded(b, R, f, p, size)'
      <4>1. Coded(b', R, f, p', size) /\ UNCHANGED <<shape, frame>>
        BY <1>1, <2>8
      <4> QED BY <4>1, SameFrame
    <3>2. dst' = f[p'].at - f[p'].n * line' /\ l' = f[p'].n
      <4>1. 0 * line = 0
        BY <1>1, ShapeFacts DEF Typed
      <4> QED BY <1>1, <2>10, <2>11, <4>1 DEF line
    <3>3. l' = 0 /\ next_line' = 0
      BY <1>1
    <3>4. \A i \in 0 .. dst' - 1 : b'[i] = Shown(frame[i])'
      BY <1>1
    <3>5. f[size'].at = size' /\ \A t \in R : f[t].at <= t
      BY <1>1, <1>4, <2>9, <2>10 DEF size
    <3> HIDE <2>12
    <3> QED BY <3>1, <3>2, <3>3, <3>4, <3>5 DEF Unpacked
  <2>13. pc' = "unpack"
    BY <1>1, <1>9
  <2> QED BY <1>7, <2>13, <2>14 DEF IInv
<1> QED BY <1>8, <1>9

-----------------------------------------------------------------------------
(* rle_decompress()                                                         *)

\* Without its first code
LEMMA Shortens ==
  ASSUME shape \in Shapes, p \in Nat, NEW S, NEW g, Coded(b, S, g, p, size), NEW w, NEW t \in S,
         \A i \in t .. size - 1 : w[i] = b[i],
         NEW T, T = {i \in S : i >= t}
  PROVE  Coded(w, T, g, t, size)
<1>1. size \in Nat /\ S \subseteq p .. size /\ size \in S /\ g \in [0 .. size -> Places]
  BY ShapeFacts DEF Coded
<1>2. T \subseteq t .. size /\ t \in T /\ size \in T
  <2>1. t \in Nat /\ t <= size
    BY <1>1
  <2>2. \A i \in T : i \in S /\ i \in Nat /\ i >= t /\ i <= size
    BY <1>1
  <2>3. \A i \in T : i \in t .. size
    BY <1>1, <2>1, <2>2
  <2>4. t \in T
    BY <2>1
  <2>5. size \in T
    BY <1>1, <2>1
  <2> QED BY <2>3, <2>4, <2>5
<1>3. \A i \in T : g[i].at <= size /\ (g[i].n > 0 => Waits(g[i]))
  BY DEF Coded
<1>4. ASSUME NEW i \in T \ {size}
      PROVE  LineCode(w, T, g, i) \/ RunCode(w, T, g, i) \/ WordCode(w, T, g, i)
  <2>1. i \in S /\ i # size /\ i \in t .. size - 1 /\ w[i] = b[i]
    BY <1>1, <1>2
  <2>2. LineCode(b, S, g, i) \/ RunCode(b, S, g, i) \/ WordCode(b, S, g, i)
    BY <2>1 DEF Coded
  <2>3. CASE LineCode(b, S, g, i)
    <3>1. i + 2 \in S
      BY <2>3 DEF LineCode
    <3>2. i + 2 \in T /\ i + 1 \in t .. size - 1
      BY <1>1, <2>1, <3>1
    <3>3. w[i + 1] = b[i + 1]
      BY <3>2
    <3> QED BY <2>1, <2>3, <3>2, <3>3 DEF LineCode
  <2>4. CASE RunCode(b, S, g, i)
    <3>1. i + 3 \in S
      BY <2>4 DEF RunCode
    <3>2. i + 3 \in T /\ i + 1 \in t .. size - 1 /\ i + 2 \in t .. size - 1
      BY <1>1, <2>1, <3>1
    <3>3. w[i + 1] = b[i + 1] /\ w[i + 2] = b[i + 2]
      BY <3>2
    <3> QED BY <2>1, <2>4, <3>2, <3>3 DEF RunCode
  <2>5. CASE WordCode(b, S, g, i)
    <3>1. i + 1 \in S
      BY <2>5 DEF WordCode
    <3>2. i + 1 \in T
      BY <1>1, <2>1, <3>1
    <3> QED BY <2>1, <2>5, <3>2 DEF WordCode
  <2> QED BY <2>2, <2>3, <2>4, <2>5
<1> QED BY <1>1, <1>2, <1>3, <1>4 DEF Coded

\* The next code
LEMMA FirstPlace ==
  ASSUME Typed, NEW S, NEW g, Unpacked(S, g), p < size
  PROVE  /\ Coded(b, S, g, p, size) /\ p \in S /\ S \subseteq p .. size
         /\ \A t \in S : /\ g[t] \in Places /\ g[t].at \in Nat /\ g[t].n \in Nat /\ g[t].row \in Nat
                         /\ g[t].at <= t
                         /\ (g[t].n > 0 => Waits(g[t]))
         /\ LineCode(b, S, g, p) \/ RunCode(b, S, g, p) \/ WordCode(b, S, g, p)
<1>1. size \in Nat /\ p \in Nat
  BY ShapeFacts DEF Typed
<1>2. /\ Coded(b, S, g, p, size) /\ p \in S /\ S \subseteq p .. size
      /\ g \in [0 .. size -> Places]
  BY DEF Unpacked, Coded
<1>3. S \subseteq 0 .. size
  BY <1>1, <1>2
<1>4. p \in S \ {size}
  BY <1>1, <1>2
<1>5. ASSUME NEW t \in S
      PROVE  /\ g[t] \in Places /\ g[t].at \in Nat /\ g[t].n \in Nat /\ g[t].row \in Nat
             /\ g[t].at <= t /\ (g[t].n > 0 => Waits(g[t]))
  <2>1. g[t] \in Places
    BY <1>2, <1>3
  <2>2. g[t].at <= t /\ (g[t].n > 0 => Waits(g[t]))
    BY <1>2 DEF Unpacked, Coded
  <2> QED BY <2>1, <2>2 DEF Places
<1>6. LineCode(b, S, g, p) \/ RunCode(b, S, g, p) \/ WordCode(b, S, g, p)
  BY <1>2, <1>4 DEF Coded
<1> QED BY <1>2, <1>5, <1>6

LEMMA NoCode == \A x : Shown(x) # X /\ (line # 0 => Shown(x) # Y)
  BY CodeAssumption DEF Shown, magic_y

\* What is left when a code of k words was read
LEMMA Unpacks ==
  ASSUME Typed, NEW S, NEW g, Unpacked(S, g), NEW k \in 1 .. 3, p + k \in S, NEW f, f = g[p + k],
         UNCHANGED <<shape, frame>>, p' = p + k,
         b' = [i \in 0 .. size - 1 |-> b'[i]], \A i \in p + k .. size - 1 : b'[i] = b[i],
         dst' \in Nat, dst' = f.at - f.n * line, l' = f.n,
         next_line' = IF f.n = 0 THEN 0 ELSE End(f) - f.n * line,
         \A i \in 0 .. dst' - 1 : b'[i] = Shown(frame[i])
  PROVE  Typed' /\ (\E R, h : Unpacked(R, h)')
<1>1. p \in Nat /\ size \in Nat /\ shape \in Shapes /\ Coded(b, S, g, p, size)
  BY ShapeFacts DEF Typed, Unpacked
<1>2. PICK T : T = {t \in S : t >= p + k}
  OBVIOUS
<1>3. Coded(b', T, g, p + k, size)
  BY <1>1, <1>2, Shortens
<1>4. Typed'
  BY <1>1 DEF Typed, size
<1>5. Unpacked(T, g)'
  <2>1. Coded(b, T, g, p, size)'
    <3>1. Coded(b', T, g, p', size) /\ UNCHANGED <<shape, frame>>
      BY <1>3
    <3> QED BY <3>1, SameFrame
  <2>2. dst' = g[p'].at - g[p'].n * line' /\ l' = g[p'].n
    BY DEF line
  <2>3. next_line' = IF l' = 0 THEN 0 ELSE End(g[p])' - l' * line'
    BY DEF line, End
  <2>4. \A i \in 0 .. dst' - 1 : b'[i] = Shown(frame[i])'
    BY DEF Shown, magic_y, line
  <2>5. g[size'].at = size' /\ \A t \in T : g[t].at <= t
    BY <1>2 DEF size, Unpacked
  <2> QED BY <2>1, <2>2, <2>3, <2>4, <2>5 DEF Unpacked
<1> QED BY <1>4, <1>5

LEMMA UnpackLineStep ==
  ASSUME Typed, NEW S, NEW g, Unpacked(S, g), UnpackLine
  PROVE  Typed' /\ (\E R, f : Unpacked(R, f)')
<1>1. /\ p < size /\ line # 0 /\ b[p] = Y
      /\ l' = b[p + 1] /\ next_line' = dst + line /\ p' = p + 2
      /\ UNCHANGED <<shape, frame, b, dst>>
  BY DEF UnpackLine, Unpacking
<1>2. p \in Nat /\ size \in Nat /\ line \in Nat /\ line >= 3 /\ shape \in Shapes
  BY <1>1, ShapeFacts DEF Typed
<1>3. /\ Coded(b, S, g, p, size) /\ p \in S /\ S \subseteq p .. size
      /\ g[p].at \in Nat /\ LineCode(b, S, g, p)
  <2>1. ~RunCode(b, S, g, p) /\ ~WordCode(b, S, g, p)
    BY <1>1, CodeAssumption, NoCode DEF RunCode, WordCode
  <2> QED BY <1>1, <2>1, FirstPlace
<1> DEFINE c == b[p + 1]
           e == g[p + 2]
<1>4. /\ p + 2 \in S /\ c \in Nat /\ c # 0 /\ g[p].n = 0 /\ e.n = c
      /\ e.at = g[p].at + c * line /\ e.at = e.row * line
  BY <1>3 DEF LineCode
<1>5. e.at \in Nat /\ e.row \in Nat
  BY <1>1, <1>4, FirstPlace
<1>6. dst = g[p].at
  <2>1. dst = g[p].at - 0 * line
    BY <1>4 DEF Unpacked
  <2>2. 0 * line = 0
    BY <1>2
  <2> QED BY <1>3, <2>1, <2>2
<1> HIDE DEF c, e
<1>7. dst = e.at - c * line /\ dst + line = End(e) - c * line
  <2> DEFINE x == c * line
             y == e.row * line
  <2>1. x \in Nat /\ y \in Nat /\ (e.row + 1) * line = y + line
    BY <1>2, <1>4, <1>5, Product
  <2>2. e.at = y /\ e.at = dst + x /\ dst \in Nat
    BY <1>4, <1>6 DEF Typed
  <2> HIDE DEF x, y
  <2>3. dst = e.at - x /\ dst + line = (y + line) - x
    BY <1>2, <2>1, <2>2
  <2> QED BY <2>1, <2>3 DEF x, End
<1>8. \A i \in 0 .. dst' - 1 : b'[i] = Shown(frame[i])
  BY <1>1 DEF Unpacked
<1>9. b' = [i \in 0 .. size - 1 |-> b'[i]] /\ dst' \in Nat
  BY <1>1 DEF Typed
<1>10. next_line' = IF e.n = 0 THEN 0 ELSE End(e) - e.n * line
  BY <1>1, <1>4, <1>7
<1>11. e = g[p + 2] /\ dst' = e.at - e.n * line /\ l' = e.n
  BY <1>1, <1>4, <1>7 DEF c, e
<1>12. 2 \in 1 .. 3 /\ p + 2 \in S /\ p' = p + 2 /\ UNCHANGED <<shape, frame>>
  BY <1>1, <1>4
<1>13. \A i \in p + 2 .. size - 1 : b'[i] = b[i]
  BY <1>1
<1> QED BY <1>8, <1>9, <1>10, <1>11, <1>12, <1>13, Unpacks

\* n words are shown, the next of the frame, and the line if it ends with them.
Reads(S, g, k, n, one, ends) ==
  /\ k \in 1 .. 3 /\ n \in Nat /\ n > 0
  /\ p + k \in S /\ p' = p + k
  /\ Follows(g[p], g[p + k], n)
  /\ \A i \in 0 .. size - 1 :
       one[i] = IF dst <= i /\ i < dst + n THEN Shown(frame[g[p].at + (i - dst)]) ELSE b[i]
  /\ ends = (next_line # 0 /\ dst + n = next_line)
  /\ LET copies == IF ends THEN l * line ELSE 0
     IN  /\ b' = [i \in 0 .. size - 1 |->
                    IF dst + n <= i /\ i < dst + n + copies
                    THEN one[(dst + n - line) + ((i - dst - n) % line)] ELSE one[i]]
         /\ dst' = dst + n + copies
  /\ next_line' = IF ends THEN 0 ELSE next_line
  /\ l' = IF ends THEN 0 ELSE l
  /\ UNCHANGED <<shape, frame>>

LEMMA NextWords ==
  ASSUME Typed, NEW S, NEW g, Unpacked(S, g), UnpackWords
  PROVE  \E k, n, one, ends : Reads(S, g, k, n, one, ends)
<1>1. p < size /\ ~(line # 0 /\ b[p] = Y)
  BY DEF UnpackWords, Unpacking
<1>2. p \in Nat /\ dst \in Nat /\ size \in Nat /\ line \in Nat /\ DOMAIN b = 0 .. size - 1
  BY ShapeFacts DEF Typed
<1>3. /\ p \in S /\ g[p].at \in Nat
      /\ RunCode(b, S, g, p) \/ WordCode(b, S, g, p)
  <2>1. ~LineCode(b, S, g, p)
    BY <1>1 DEF LineCode
  <2> QED BY <1>1, <2>1, FirstPlace
<1> DEFINE k == IF b[p] = X THEN 3 ELSE 1
           n == IF b[p] = X THEN b[p + 2] ELSE 1
           v == IF b[p] = X THEN b[p + 1] ELSE b[p]
           one == Write(dst, [i \in 0 .. n - 1 |-> v])
           ends == next_line # 0 /\ dst + n = next_line
<1>4. /\ k \in 1 .. 3 /\ n \in Nat /\ n > 0 /\ p + k \in S /\ Follows(g[p], g[p + k], n)
      /\ \A j \in 0 .. n - 1 : Shown(frame[g[p].at + j]) = v
  <2>1. CASE RunCode(b, S, g, p)
    <3>1. /\ b[p] = X /\ b[p + 2] \in Nat /\ b[p + 2] >= 4 /\ p + 3 \in S
          /\ Follows(g[p], g[p + 3], b[p + 2])
          /\ b[p + 1] \notin {X, magic_y}
          /\ \A j \in 0 .. b[p + 2] - 1 : frame[g[p].at + j] = b[p + 1]
      BY <2>1 DEF RunCode
    <3>2. k = 3 /\ n = b[p + 2] /\ v = b[p + 1]
      BY <3>1
    <3>3. Shown(v) = v
      BY <3>1, <3>2 DEF Shown
    <3> HIDE DEF k, n, v
    <3> QED BY <3>1, <3>2, <3>3
  <2>2. CASE WordCode(b, S, g, p)
    <3>1. /\ p + 1 \in S /\ Follows(g[p], g[p + 1], 1)
          /\ b[p] = Shown(frame[g[p].at])
      BY <2>2 DEF WordCode
    <3>2. k = 1 /\ n = 1 /\ v = b[p]
      BY <3>1, NoCode
    <3> HIDE DEF k, n, v
    <3>3. \A j \in 0 .. n - 1 : g[p].at + j = g[p].at
      BY <1>3, <3>2
    <3> QED BY <3>1, <3>2, <3>3
  <2> QED BY <1>3, <2>1, <2>2
<1>5. /\ p' = p + k
      /\ LET copies == IF ends THEN l * line ELSE 0
         IN  /\ b' = [i \in DOMAIN b |->
                        IF dst + n <= i /\ i < dst + n + copies
                        THEN one[(dst + n - line) + ((i - dst - n) % line)] ELSE one[i]]
             /\ dst' = dst + n + copies
      /\ next_line' = IF ends THEN 0 ELSE next_line
      /\ l' = IF ends THEN 0 ELSE l
      /\ UNCHANGED <<shape, frame>>
  BY DEF UnpackWords
<1> HIDE DEF k, n, v, ends
<1>6. \A i \in 0 .. size - 1 :
        one[i] = IF dst <= i /\ i < dst + n THEN Shown(frame[g[p].at + (i - dst)]) ELSE b[i]
  <2> SUFFICES ASSUME NEW i \in 0 .. size - 1
               PROVE  one[i] = IF dst <= i /\ i < dst + n THEN Shown(frame[g[p].at + (i - dst)]) ELSE b[i]
    OBVIOUS
  <2>1. one[i] = IF i - dst \in 0 .. n - 1 THEN v ELSE b[i]
    BY <1>2 DEF Write
  <2>2. i - dst \in 0 .. n - 1 <=> dst <= i /\ i < dst + n
    BY <1>2, <1>4
  <2> HIDE DEF one
  <2>3. i - dst \in 0 .. n - 1 => Shown(frame[g[p].at + (i - dst)]) = v
    BY <1>4
  <2> QED BY <2>1, <2>2, <2>3
<1> HIDE DEF one
<1>7. ends = (next_line # 0 /\ dst + n = next_line)
  BY DEF ends
<1>8. Reads(S, g, k, n, one, ends)
  BY <1>2, <1>4, <1>5, <1>6, <1>7 DEF Reads
<1> QED BY <1>8


\* Before the next words are read
LEMMA Reading ==
  ASSUME Typed, NEW S, NEW g, Unpacked(S, g), NEW k, NEW n, NEW one, NEW ends,
         Reads(S, g, k, n, one, ends)
  PROVE  /\ size \in Nat /\ line \in Nat /\ p \in Nat /\ dst \in Nat /\ k \in 1 .. 3
         /\ n \in Nat /\ n > 0 /\ p + k \in S /\ p < size
         /\ \A t \in {p, p + k} :
              /\ g[t].at \in Nat /\ g[t].n \in Nat /\ g[t].row \in Nat /\ g[t].at <= t
              /\ (g[t].n > 0 => Waits(g[t]))
         /\ g[p + k].at = g[p].at + n /\ p + k <= size
         /\ dst = g[p].at - g[p].n * line /\ l = g[p].n
<1>1. /\ size \in Nat /\ line \in Nat /\ p \in Nat /\ dst \in Nat /\ k \in 1 .. 3
      /\ n \in Nat /\ n > 0 /\ p + k \in S
      /\ g[p + k].at = g[p].at + n
      /\ dst = g[p].at - g[p].n * line /\ l = g[p].n
  BY ShapeFacts DEF Typed, Reads, Follows, Unpacked
<1>2. S \subseteq p .. size
  BY DEF Unpacked, Coded
<1>3. p < size /\ p + k <= size
  BY <1>1, <1>2
<1>4. p \in S /\ \A t \in S : /\ g[t].at \in Nat /\ g[t].n \in Nat /\ g[t].row \in Nat
                             /\ g[t].at <= t /\ (g[t].n > 0 => Waits(g[t]))
  BY <1>3, FirstPlace
<1> QED BY <1>1, <1>3, <1>4

\* No line waits.
LEMMA PlainStep ==
  ASSUME Typed, NEW S, NEW g, Unpacked(S, g), NEW k, NEW n, NEW one, NEW ends,
         Reads(S, g, k, n, one, ends), g[p].n = 0
  PROVE  Typed' /\ (\E R, f : Unpacked(R, f)')
<1> DEFINE o == g[p]
           f == g[p + k]
<1>1. /\ size \in Nat /\ line \in Nat /\ p \in Nat /\ dst \in Nat /\ k \in 1 .. 3
      /\ n \in Nat /\ n > 0 /\ p + k \in S /\ p + k <= size
      /\ o.at \in Nat /\ f.at \in Nat /\ f.at = o.at + n /\ f.at <= p + k
      /\ dst = o.at - o.n * line /\ l = 0
  BY Reading
<1>2. f.n = 0
  BY <1>1 DEF Reads, Follows
<1>3. 0 * line = 0
  BY <1>1
<1>4. next_line = 0 /\ dst = o.at
  BY <1>1, <1>3 DEF Unpacked
<1>5. ends = FALSE
  BY <1>4 DEF Reads
<1>6. /\ \A i \in 0 .. size - 1 :
           one[i] = IF dst <= i /\ i < dst + n THEN Shown(frame[o.at + (i - dst)]) ELSE b[i]
      /\ b' = [i \in 0 .. size - 1 |->
                 IF dst + n <= i /\ i < dst + n + 0
                 THEN one[(dst + n - line) + ((i - dst - n) % line)] ELSE one[i]]
      /\ dst' = dst + n + 0 /\ next_line' = 0 /\ l' = 0 /\ p' = p + k
      /\ UNCHANGED <<shape, frame>>
  BY <1>1, <1>4, <1>5 DEF Reads
<1> HIDE DEF o, f
<1>7. \A i \in 0 .. size - 1 : b'[i] = IF dst <= i /\ i < dst + n THEN Shown(frame[i]) ELSE b[i]
  <2> SUFFICES ASSUME NEW i \in 0 .. size - 1
               PROVE  b'[i] = IF dst <= i /\ i < dst + n THEN Shown(frame[i]) ELSE b[i]
    OBVIOUS
  <2>1. b'[i] = one[i]
    BY <1>1, <1>6
  <2>2. o.at + (i - dst) = i
    BY <1>1, <1>4
  <2> QED BY <1>6, <2>1, <2>2
<1>8. dst' \in Nat /\ dst' = f.at /\ dst' <= p + k
  BY <1>1, <1>4, <1>6
<1>9. \A i \in p + k .. size - 1 : b'[i] = b[i]
  BY <1>1, <1>6, <1>7, <1>8
<1>10. \A i \in 0 .. dst' - 1 : b'[i] = Shown(frame[i])
  <2> SUFFICES ASSUME NEW i \in 0 .. dst' - 1 PROVE b'[i] = Shown(frame[i])
    OBVIOUS
  <2>4. i \in Nat /\ i < dst + n /\ i < p + k
    BY <1>1, <1>6, <1>8
  <2>1. i \in 0 .. size - 1 /\ (i \in 0 .. dst - 1 \/ (dst <= i /\ i < dst + n))
    BY <1>1, <2>4
  <2>2. i \in 0 .. dst - 1 => b[i] = Shown(frame[i])
    BY DEF Unpacked
  <2>3. i \in 0 .. dst - 1 => ~(dst <= i)
    BY <1>1
  <2> QED BY <1>7, <2>1, <2>2, <2>3
<1>11. b' = [i \in 0 .. size - 1 |-> b'[i]]
  BY <1>6
<1>12. dst' = f.at - f.n * line /\ l' = f.n /\ next_line' = IF f.n = 0 THEN 0 ELSE End(f) - f.n * line
  BY <1>1, <1>2, <1>3, <1>6, <1>8
<1> QED BY <1>1, <1>6, <1>8, <1>9, <1>10, <1>11, <1>12, Unpacks DEF f


\* The lines from number q on, the one it is in among them, are the same.
LEMMA Waiting ==
  ASSUME shape \in Shapes, NEW e \in Places, e.n > 0, Waits(e)
  PROVE  \E q \in Nat, r \in 0 .. line - 1 :
           /\ e.row = q + e.n
           /\ e.at = e.row * line + r /\ e.row * line = q * line + e.n * line
           /\ End(e) = e.row * line + line
           /\ \A j \in q .. e.row : \A i \in 0 .. line - 1 :
                frame[j * line + i] = frame[e.row * line + i]
<1>1. line \in Nat /\ e.row \in Nat /\ e.n \in Nat /\ e.at \in Nat
  BY ShapeFacts DEF Places
<1>2. e.n <= e.row /\ e.row * line <= e.at /\ e.at < End(e)
  BY DEF Waits
<1>3. PICK q \in Nat : q = e.row - e.n /\ e.row = q + e.n
  <2>1. e.row - e.n \in Nat /\ e.row = (e.row - e.n) + e.n
    BY <1>1, <1>2
  <2> QED BY <2>1
<1>4. e.row * line = q * line + e.n * line
  BY <1>1, <1>3
<1>5. End(e) = e.row * line + line
  BY <1>1, Product DEF End
<1> DEFINE z == e.row * line
<1>6. PICK r \in 0 .. line - 1 : e.at = z + r
  <2>1. z \in Nat /\ z <= e.at /\ e.at < z + line
    BY <1>1, <1>2, <1>5, Product
  <2> HIDE DEF z
  <2>2. e.at - z \in 0 .. line - 1 /\ e.at = z + (e.at - z)
    BY <1>1, <2>1
  <2> QED BY <2>2
<1>7. \A j \in q .. e.row : \A i \in 0 .. line - 1 : frame[j * line + i] = frame[e.row * line + i]
  BY <1>3 DEF Waits, Alike
<1> QED BY <1>3, <1>4, <1>5, <1>6, <1>7

\* The words are those of an earlier line too.
LEMMA EarlierLine ==
  ASSUME Typed, NEW S, NEW g, Unpacked(S, g), NEW k, NEW n, NEW one, NEW ends,
         Reads(S, g, k, n, one, ends), g[p].n > 0
  PROVE  /\ \A i \in 0 .. size - 1 : one[i] = IF i < dst + n THEN Shown(frame[i]) ELSE b[i]
         /\ g[p + k].at <= End(g[p]) /\ dst + n = g[p + k].at - g[p].n * line
         /\ g[p].n * line \in Nat /\ dst + n \in Nat /\ End(g[p]) \in Nat /\ End(g[p]) <= size
<1> DEFINE o == g[p]
           f == g[p + k]
<1>1. /\ size \in Nat /\ line \in Nat /\ p \in Nat /\ dst \in Nat
      /\ n \in Nat /\ n > 0
      /\ o.at \in Nat /\ o.n \in Nat /\ o.row \in Nat /\ f.at \in Nat
      /\ f.at = o.at + n /\ Waits(o)
      /\ dst = o.at - o.n * line
  BY Reading
<1>2. shape \in Shapes /\ o \in Places /\ p < size
  BY Reading, FirstPlace DEF Typed
<1>3. PICK q \in Nat, r \in 0 .. line - 1 :
           /\ o.row = q + o.n
           /\ o.at = o.row * line + r /\ o.row * line = q * line + o.n * line
           /\ End(o) = o.row * line + line
           /\ \A j \in q .. o.row : \A i \in 0 .. line - 1 :
                frame[j * line + i] = frame[o.row * line + i]
  BY <1>1, <1>2, Waiting
<1>4. End(o) <= size
  BY <1>1 DEF Waits
<1> DEFINE x == q * line
           y == o.n * line
           z == o.row * line
<1>5. x \in Nat /\ y \in Nat /\ z \in Nat /\ q \in q .. o.row
  BY <1>1, <1>3, Product
<1>6. f.at <= End(o)
  <2>1. f.at < End(o) \/ f.at = End(o)
    BY <1>1 DEF Reads, Follows
  <2> HIDE DEF o, f, x, y, z
  <2>2. End(o) \in Nat
    BY <1>1, <1>3, <1>5 DEF z
  <2> QED BY <1>1, <2>1, <2>2
<1>7. \A i \in 0 .. size - 1 :
           one[i] = IF dst <= i /\ i < dst + n THEN Shown(frame[o.at + (i - dst)]) ELSE b[i]
  BY DEF Reads
<1>8. \A i \in 0 .. line - 1 : frame[x + i] = frame[z + i]
  BY <1>3, <1>5
<1>9. o.at = z + r /\ z = x + y /\ End(o) = z + line /\ dst = o.at - y
  BY <1>1, <1>3
<1> HIDE DEF o, f, x, y, z
<1>10. dst = x + r /\ r + n <= line /\ dst + n = f.at - y /\ End(o) \in Nat
  <2>1. r \in Nat /\ line \in Nat /\ n \in Nat /\ o.at \in Nat /\ f.at = o.at + n
    BY <1>1, <1>3
  <2> QED BY <1>5, <1>6, <1>9, <2>1
<1>11. ASSUME NEW i \in 0 .. size - 1
       PROVE  one[i] = IF i < dst + n THEN Shown(frame[i]) ELSE b[i]
  <2>1. CASE dst <= i /\ i < dst + n
    <3>1. PICK c : c = i - x
      OBVIOUS
    <3>2. c \in 0 .. line - 1 /\ i = x + c /\ o.at + (i - dst) = z + c
      BY <1>1, <1>5, <1>9, <1>10, <2>1, <3>1
    <3>3. frame[x + c] = frame[z + c]
      BY <1>8, <3>2
    <3> QED BY <1>7, <2>1, <3>2, <3>3
  <2>2. CASE i < dst
    <3>1. i \in 0 .. dst - 1 /\ ~(dst <= i) /\ i < dst + n
      BY <1>1, <2>2
    <3>2. b[i] = Shown(frame[i])
      BY <3>1 DEF Unpacked
    <3> QED BY <1>7, <3>1, <3>2
  <2>3. CASE ~(i < dst + n)
    BY <1>7, <2>3
  <2> QED BY <1>1, <2>1, <2>2, <2>3
<1>12. dst + n \in Nat
  BY <1>1
<1> QED BY <1>4, <1>5, <1>6, <1>10, <1>11, <1>12 DEF o, f, y


\* The words do not complete the line.
LEMMA WithinStep ==
  ASSUME Typed, NEW S, NEW g, Unpacked(S, g), NEW k, NEW n, NEW one, NEW ends,
         Reads(S, g, k, n, one, ends), g[p].n > 0, g[p + k].at < End(g[p])
  PROVE  Typed' /\ (\E R, f : Unpacked(R, f)')
<1> DEFINE o == g[p]
           f == g[p + k]
           y == o.n * line
<1>1. /\ size \in Nat /\ line \in Nat /\ p \in Nat /\ dst \in Nat /\ k \in 1 .. 3
      /\ n \in Nat /\ p + k \in S /\ p + k <= size
      /\ f.at \in Nat /\ f.at <= p + k /\ o.n \in Nat /\ l = o.n
  BY Reading
<1>2. /\ \A i \in 0 .. size - 1 : one[i] = IF i < dst + n THEN Shown(frame[i]) ELSE b[i]
      /\ dst + n = f.at - y /\ y \in Nat /\ dst + n \in Nat /\ End(o) \in Nat
  BY EarlierLine
<1>3. f.n = o.n /\ End(f) = End(o)
  BY DEF Reads, Follows, End
<1>4. next_line = End(o) - y
  BY <1>1 DEF Unpacked
<1>5. ends = (next_line # 0 /\ dst + n = next_line)
  BY DEF Reads
<1>6. f.at < End(o) /\ f.n * line = y /\ o.n > 0
  BY <1>3
<1>7. /\ ends = FALSE => b' = [i \in 0 .. size - 1 |->
                 IF dst + n <= i /\ i < dst + n + 0
                 THEN one[(dst + n - line) + ((i - dst - n) % line)] ELSE one[i]]
      /\ ends = FALSE => dst' = dst + n + 0 /\ next_line' = next_line /\ l' = l
      /\ p' = p + k /\ UNCHANGED <<shape, frame>>
  BY DEF Reads
<1> HIDE DEF o, f, y
<1>8. ends = FALSE
  <2>1. ~(dst + n = next_line)
    BY <1>1, <1>2, <1>4, <1>6
  <2> QED BY <1>5, <2>1, Zenon
<1>9. \A i \in 0 .. size - 1 : b'[i] = IF i < dst + n THEN Shown(frame[i]) ELSE b[i]
  <2> SUFFICES ASSUME NEW i \in 0 .. size - 1
               PROVE  b'[i] = IF i < dst + n THEN Shown(frame[i]) ELSE b[i]
    OBVIOUS
  <2>1. b'[i] = one[i]
    BY <1>1, <1>7, <1>8
  <2> QED BY <1>2, <2>1
<1>10. dst' \in Nat /\ dst' = dst + n /\ dst' = f.at - y /\ dst' <= p + k
  BY <1>1, <1>2, <1>7, <1>8
<1>11. \A i \in p + k .. size - 1 : b'[i] = b[i]
  BY <1>1, <1>9, <1>10
<1>12. \A i \in 0 .. dst' - 1 : b'[i] = Shown(frame[i])
  <2> SUFFICES ASSUME NEW i \in 0 .. dst' - 1 PROVE b'[i] = Shown(frame[i])
    OBVIOUS
  <2>1. i \in Nat /\ i < dst + n /\ i < size
    BY <1>1, <1>10
  <2> QED BY <1>1, <1>9, <2>1
<1>13. b' = [i \in 0 .. size - 1 |-> b'[i]]
  BY <1>7, <1>8
<1>14. dst' = f.at - f.n * line /\ l' = f.n /\ next_line' = IF f.n = 0 THEN 0 ELSE End(f) - f.n * line
  BY <1>1, <1>3, <1>4, <1>6, <1>7, <1>8, <1>10
<1> QED BY <1>1, <1>7, <1>10, <1>11, <1>12, <1>13, <1>14, Unpacks DEF f

\* The words complete the line: it is copied.
LEMMA CopyStep ==
  ASSUME Typed, NEW S, NEW g, Unpacked(S, g), NEW k, NEW n, NEW one, NEW ends,
         Reads(S, g, k, n, one, ends), g[p].n > 0, g[p + k].at = End(g[p])
  PROVE  Typed' /\ (\E R, f : Unpacked(R, f)')
<1> DEFINE o == g[p]
           f == g[p + k]
<1>1. /\ size \in Nat /\ line \in Nat /\ p \in Nat /\ dst \in Nat /\ k \in 1 .. 3
      /\ n \in Nat /\ n > 0 /\ p + k \in S /\ p + k <= size
      /\ f.at \in Nat /\ f.at <= p + k /\ o.n \in Nat /\ o.row \in Nat /\ l = o.n /\ Waits(o)
  BY Reading
<1>2. shape \in Shapes /\ o \in Places
  BY Reading, FirstPlace DEF Typed
<1>3. PICK q \in Nat, r \in 0 .. line - 1 :
           /\ o.row = q + o.n
           /\ o.at = o.row * line + r /\ o.row * line = q * line + o.n * line
           /\ End(o) = o.row * line + line
           /\ \A j \in q .. o.row : \A i \in 0 .. line - 1 :
                frame[j * line + i] = frame[o.row * line + i]
  BY <1>1, <1>2, Waiting
<1> DEFINE x == q * line
           y == o.n * line
           z == o.row * line
<1>4. /\ \A i \in 0 .. size - 1 : one[i] = IF i < dst + n THEN Shown(frame[i]) ELSE b[i]
      /\ dst + n = f.at - y /\ y \in Nat /\ dst + n \in Nat /\ End(o) \in Nat /\ End(o) <= size
  BY EarlierLine
<1>5. x \in Nat /\ z \in Nat /\ line > 0 /\ z = x + y /\ End(o) = z + line /\ f.at = End(o)
  BY <1>1, <1>3, Product
<1>6. f.n = 0
  BY <1>1, <1>5 DEF Reads, Follows
<1>7. next_line = End(o) - y /\ ends = (next_line # 0 /\ dst + n = next_line)
  BY <1>1 DEF Unpacked, Reads
<1>8. /\ ends => b' = [i \in 0 .. size - 1 |->
                 IF dst + n <= i /\ i < dst + n + y
                 THEN one[(dst + n - line) + ((i - dst - n) % line)] ELSE one[i]]
      /\ ends => dst' = dst + n + y /\ next_line' = 0 /\ l' = 0
      /\ p' = p + k /\ UNCHANGED <<shape, frame>>
  BY <1>1 DEF Reads
<1>9. \A j \in q .. o.row : \A i \in 0 .. line - 1 : frame[j * line + i] = frame[x + i]
  <2>1. q \in q .. o.row
    BY <1>1, <1>3
  <2> QED BY <1>3, <2>1
<1> HIDE DEF o, f, x, y, z
<1>10. ends /\ dst + n = x + line /\ dst + n + y = End(o)
  <2>1. dst + n > 0 /\ dst + n = x + line /\ dst + n + y = End(o)
    BY <1>1, <1>4, <1>5
  <2>2. next_line # 0 /\ dst + n = next_line
    BY <1>4, <1>5, <1>7, <2>1
  <2> QED BY <1>7, <2>1, <2>2, Zenon
<1>11. ASSUME NEW i \in 0 .. size - 1, dst + n <= i, i < End(o)
       PROVE  b'[i] = Shown(frame[i])
  <2>1. PICK c \in Nat : c = i - dst - n
    <3>1. i - dst - n \in Nat
      BY <1>1, <1>11
    <3> QED BY <3>1
  <2>2. PICK m \in Nat, d \in 0 .. line - 1 : c = m * line + d /\ c % line = d
    <3>1. line \in Nat /\ line > 0
      BY <1>1, <1>5
    <3>2. \E m \in Nat, d \in 0 .. line - 1 : c = m * line + d /\ c \div line = m /\ c % line = d
      BY <3>1, Division
    <3> QED BY <3>2, Zenon
  <2>3. b'[i] = one[(dst + n - line) + (c % line)]
    BY <1>8, <1>10, <1>11, <2>1
  <2>4. (dst + n - line) + (c % line) = x + d
    BY <1>1, <1>5, <1>10, <2>2
  <2>5. x + d \in 0 .. size - 1 /\ x + d < dst + n
    BY <1>1, <1>4, <1>5, <1>10
  <2>6. b'[i] = Shown(frame[x + d])
    BY <1>4, <2>3, <2>4, <2>5
  <2>7. PICK j \in Nat : j = q + 1 + m
    <3>1. q + 1 + m \in Nat
      OBVIOUS
    <3> QED BY <3>1
  <2>8. i = j * line + d
    <3> DEFINE u == m * line
    <3>1. u \in Nat /\ j * line = x + line + u
      BY <1>1, <2>7 DEF x
    <3>2. c = u + d
      BY <2>2
    <3> HIDE DEF u
    <3> QED BY <1>1, <1>5, <1>10, <2>1, <3>1, <3>2
  <2>9. j <= o.row
    <3>1. o.row + 1 <= j => (o.row + 1) * line <= j * line
      <4>1. o.row + 1 \in Nat /\ line \in Nat
        BY <1>1
      <4> QED BY <4>1, Ordered, ZenonT(30)
    <3>2. (o.row + 1) * line = End(o)
      BY DEF End
    <3> DEFINE u == j * line
    <3>3. u \in Nat /\ i = u + d
      BY <1>1, <2>8, Product
    <3>4. o.row + 1 <= j => End(o) <= u
      BY <3>1, <3>2
    <3> HIDE DEF u
    <3> QED BY <1>1, <1>4, <1>11, <3>3, <3>4
  <2>10. j \in q .. o.row
    BY <1>1, <2>7, <2>9
  <2>11. frame[j * line + d] = frame[x + d]
    BY <1>9, <2>10
  <2> QED BY <2>6, <2>8, <2>11
<1>12. ASSUME NEW i \in 0 .. size - 1
       PROVE  b'[i] = IF i < End(o) THEN Shown(frame[i]) ELSE b[i]
  <2>1. CASE dst + n <= i /\ i < End(o)
    BY <1>11, <2>1
  <2>2. CASE ~(dst + n <= i /\ i < End(o))
    <3>1. b'[i] = one[i]
      BY <1>8, <1>10, <2>2
    <3>2. i < dst + n <=> i < End(o)
      BY <1>1, <1>4, <1>10, <2>2
    <3> QED BY <1>4, <3>1, <3>2
  <2> QED BY <2>1, <2>2
<1>13. dst' \in Nat /\ dst' = End(o) /\ dst' = f.at /\ dst' <= p + k
  BY <1>1, <1>4, <1>5, <1>8, <1>10
<1>14. \A i \in p + k .. size - 1 : b'[i] = b[i]
  BY <1>1, <1>4, <1>12, <1>13
<1>15. \A i \in 0 .. dst' - 1 : b'[i] = Shown(frame[i])
  <2> SUFFICES ASSUME NEW i \in 0 .. dst' - 1 PROVE b'[i] = Shown(frame[i])
    OBVIOUS
  <2>1. i \in Nat /\ i < End(o) /\ i < size
    BY <1>1, <1>4, <1>13
  <2> QED BY <1>1, <1>12, <2>1
<1>16. b' = [i \in 0 .. size - 1 |-> b'[i]]
  BY <1>8, <1>10
<1>17. dst' = f.at - f.n * line /\ l' = f.n /\ next_line' = IF f.n = 0 THEN 0 ELSE End(f) - f.n * line
  <2>1. 0 * line = 0
    BY <1>1
  <2> QED BY <1>1, <1>6, <1>8, <1>10, <1>13, <2>1
<1> QED BY <1>1, <1>8, <1>13, <1>14, <1>15, <1>16, <1>17, Unpacks DEF f

LEMMA UnpackWordsStep ==
  ASSUME Typed, NEW S, NEW g, Unpacked(S, g), UnpackWords
  PROVE  Typed' /\ (\E R, f : Unpacked(R, f)')
<1>1. PICK k, n, one, ends : Reads(S, g, k, n, one, ends)
  BY NextWords
<1>2. CASE g[p].n = 0
  BY <1>1, <1>2, PlainStep
<1>3. CASE g[p].n # 0
  <2>1. g[p].n > 0
    BY <1>1, <1>3, Reading
  <2>2. CASE g[p + k].at < End(g[p])
    BY <1>1, <2>1, <2>2, WithinStep
  <2>3. CASE g[p + k].at = End(g[p])
    BY <1>1, <2>1, <2>3, CopyStep
  <2>4. g[p + k].at < End(g[p]) \/ g[p + k].at = End(g[p])
    BY <1>1, <2>1 DEF Reads, Follows
  <2> QED BY <2>2, <2>3, <2>4
<1> QED BY <1>2, <1>3


\* At the end no line waits.
LEMMA AllShown ==
  ASSUME Typed, NEW S, NEW g, Unpacked(S, g), p >= size
  PROVE  Done
<1>1. size \in Nat /\ line \in Nat /\ p \in Nat /\ dst \in Nat
  BY ShapeFacts DEF Typed
<1>2. /\ p \in S /\ S \subseteq p .. size /\ g \in [0 .. size -> Places]
      /\ \A t \in S : g[t].n > 0 => Waits(g[t])
  BY DEF Unpacked, Coded
<1>3. p = size /\ p \in 0 .. size
  BY <1>1, <1>2
<1>4. g[p].at = size /\ g[p].n \in Nat
  BY <1>2, <1>3 DEF Unpacked, Places
<1>5. g[p].n = 0
  <2>1. ~Waits(g[p])
    <3>1. Waits(g[p]) => g[p].at < End(g[p]) /\ End(g[p]) <= size /\ g[p].row \in Nat
      BY <1>2, <1>3 DEF Waits, Places
    <3>2. g[p].row \in Nat => End(g[p]) \in Nat
      BY <1>1, Product DEF End
    <3> QED BY <1>1, <1>4, <3>1, <3>2
  <2>2. ~(g[p].n > 0)
    BY <1>2, <2>1
  <2> QED BY <1>4, <2>2
<1>6. dst = size
  <2>1. 0 * line = 0 /\ dst = g[p].at - g[p].n * line
    BY <1>1 DEF Unpacked
  <2> QED BY <1>1, <1>4, <1>5, <2>1
<1>7. \A i \in 0 .. size - 1 : b[i] = Shown(frame[i])
  BY <1>6 DEF Unpacked
<1> QED BY <1>1, <1>3, <1>6, <1>7 DEF Done

LEMMA Unchanged ==
  ASSUME IInv, UNCHANGED vars
  PROVE  IInv'
<1>1. UNCHANGED <<shape, frame, b, pc, p, dst, l, next_line, size, line>>
  BY DEF vars, size, line
<1>2. Typed' /\ (pc \in {"pack", "unpack", "done"})'
  BY <1>1 DEF IInv, Typed
<1>3. ASSUME pc = "pack" PROVE l' = 0 /\ next_line' = 0 /\ (\E R, f : Packed(R, f)')
  <2>1. PICK S, g : Packed(S, g)
    BY <1>3 DEF IInv
  <2>2. Coded(b, S, g, 0, dst)'
    <3>1. Coded(b', S, g, 0, dst') /\ UNCHANGED <<shape, frame>>
      BY <1>1, <2>1 DEF Packed
    <3> QED BY <3>1, SameFrame
  <2>3. Packed(S, g)'
    BY <1>1, <2>1, <2>2 DEF Packed, Alike, Shown, magic_y
  <2> QED BY <1>1, <1>3, <2>3 DEF IInv
<1>4. ASSUME pc = "unpack" PROVE \E R, f : Unpacked(R, f)'
  <2>1. PICK S, g : Unpacked(S, g)
    BY <1>4 DEF IInv
  <2>2. Coded(b, S, g, p, size)'
    <3>1. Coded(b', S, g, p', size) /\ UNCHANGED <<shape, frame>>
      BY <1>1, <2>1 DEF Unpacked
    <3> QED BY <3>1, SameFrame
  <2>3. Unpacked(S, g)'
    BY <1>1, <2>1, <2>2 DEF Unpacked, End, Shown, magic_y
  <2> QED BY <2>3
<1>5. pc = "done" => Done'
  BY <1>1 DEF IInv, Done, Shown, magic_y
<1> QED BY <1>1, <1>2, <1>3, <1>4, <1>5 DEF IInv

-----------------------------------------------------------------------------
(* The theorems.                                                            *)

LEMMA InitPacked ==
  ASSUME Init
  PROVE  IInv
<1>1. /\ shape \in Shapes /\ frame = [i \in 0 .. size - 1 |-> frame[i]] /\ b = frame
      /\ pc = "pack" /\ p = 0 /\ dst = 0 /\ l = 0 /\ next_line = 0
  BY DEF Init, size
<1>2. size \in Nat /\ line \in Nat
  BY <1>1, ShapeFacts
<1>3. Typed
  BY <1>1 DEF Typed
<1> DEFINE S == {0}
           g == [i \in 0 .. size |-> [at |-> 0, n |-> 0, row |-> 0]]
<1>4. g[0].at = 0 /\ g[0].n = 0 /\ g \in [0 .. size -> Places]
  BY <1>2 DEF Places
<1>5. \A t \in S : t = 0
  OBVIOUS
<1>6. S \subseteq 0 .. 0 /\ 0 \in S
  OBVIOUS
<1> HIDE DEF S, g
<1>7. Coded(b, S, g, 0, 0)
  BY <1>2, <1>4, <1>5, <1>6 DEF Coded
<1>8. Packed(S, g)
  BY <1>1, <1>2, <1>4, <1>5, <1>7 DEF Packed
<1> QED BY <1>1, <1>3, <1>8 DEF IInv

LEMMA NextStep ==
  ASSUME IInv, [Next]_vars
  PROVE  IInv'
<1>1. ASSUME PackLine \/ PackMagic \/ PackWord \/ PackRun PROVE IInv'
  <2>1. /\ pc = "pack" /\ pc' = "pack" /\ l' = 0 /\ next_line' = 0 /\ Typed
    BY <1>1 DEF IInv, PackLine, PackMagic, PackWord, PackRun, NoRepeat, Packing
  <2>2. PICK S, g : Packed(S, g)
    BY <2>1 DEF IInv
  <2>3. Typed' /\ (\E R, f : Packed(R, f)')
    BY <1>1, <2>1, <2>2, PackLineStep, PackMagicStep, PackWordStep, PackRunStep
  <2> QED BY <2>1, <2>3 DEF IInv
<1>2. ASSUME UnpackLine \/ UnpackWords PROVE IInv'
  <2>1. pc = "unpack" /\ pc' = "unpack" /\ Typed
    BY <1>2 DEF IInv, UnpackLine, UnpackWords, Unpacking
  <2>2. PICK S, g : Unpacked(S, g)
    BY <2>1 DEF IInv
  <2>3. Typed' /\ (\E R, f : Unpacked(R, f)')
    BY <1>2, <2>1, <2>2, UnpackLineStep, UnpackWordsStep
  <2> QED BY <2>1, <2>3 DEF IInv
<1>3. CASE Finish
  <2>1. /\ pc = "unpack" /\ p >= size /\ pc' = "done" /\ Typed
        /\ UNCHANGED <<shape, frame, b, p, dst, l, next_line>>
    BY <1>3 DEF IInv, Finish
  <2>2. PICK S, g : Unpacked(S, g)
    BY <2>1 DEF IInv
  <2>3. Done
    BY <2>1, <2>2, AllShown
  <2>4. Done' /\ Typed'
    BY <2>1, <2>3 DEF Done, Typed, Shown, magic_y, size, line
  <2> QED BY <2>1, <2>4 DEF IInv
<1>4. CASE Send
  BY <1>4, SendStep
<1>5. CASE UNCHANGED vars
  BY <1>5, Unchanged
<1> QED BY <1>1, <1>2, <1>3, <1>4, <1>5 DEF Next

\* At every moment the words that were written are a code of the words that were
\* read, and those still to be read a code of the words still to be shown.
THEOREM IInvHolds == Spec => []IInv
<1>1. Init => IInv
  BY InitPacked
<1>2. IInv /\ [Next]_vars => IInv'
  BY NextStep
<1> QED BY <1>1, <1>2, PTL DEF Spec

\* The receiver shows the frame that was sent, but for the words that look like
\* codes.
THEOREM RoundTrips == Spec => []RoundTrip
<1>1. IInv => RoundTrip
  <2> SUFFICES ASSUME IInv, pc = "done"
               PROVE  b = [i \in 0 .. size - 1 |->
                             IF frame[i] \in {X, magic_y} THEN Rplc ELSE frame[i]]
    BY DEF RoundTrip
  <2>1. /\ b = [i \in 0 .. size - 1 |-> b[i]]
        /\ \A i \in 0 .. size - 1 : b[i] = IF frame[i] \in {X, magic_y} THEN Rplc ELSE frame[i]
    BY DEF IInv, Typed, Done, Shown
  <2> QED BY <2>1
<1> QED BY <1>1, IInvHolds, PTL

\* Neither loop overtakes itself or leaves the buffer, and rle_compress() finds
\* what it has not read yet as it was.
THEOREM WorksInPlace == Spec => []InPlace
<1>1. IInv => InPlace
  <2> SUFFICES ASSUME IInv PROVE InPlace
    OBVIOUS
  <2>1. Typed /\ size \in Nat /\ line \in Nat /\ p \in Nat /\ dst \in Nat
    BY ShapeFacts DEF IInv, Typed
  <2>2. CASE pc = "pack"
    <3>1. PICK S, g : Packed(S, g)
      BY <2>2 DEF IInv
    <3>2. dst \in S /\ g[dst].at = p /\ dst <= g[dst].at /\ g[dst].at <= size
      BY <3>1 DEF Packed, Coded
    <3>3. \A i \in p .. size - 1 : b[i] = frame[i]
      BY <3>1 DEF Packed
    <3> QED BY <2>1, <3>2, <3>3 DEF InPlace
  <2>3. CASE pc = "unpack"
    <3>1. PICK S, g : Unpacked(S, g)
      BY <2>3 DEF IInv
    <3>2. p \in S /\ S \subseteq p .. size /\ g \in [0 .. size -> Places] /\ g[p].at <= p
          /\ dst = g[p].at - g[p].n * line
      BY <3>1 DEF Unpacked, Coded
    <3>3. p <= size /\ p \in 0 .. size
      BY <2>1, <3>2
    <3>4. g[p].at \in Nat /\ g[p].n \in Nat
      BY <3>2, <3>3 DEF Places
    <3> DEFINE y == g[p].n * line
    <3>5. y \in Nat /\ dst = g[p].at - y
      BY <2>1, <3>2, <3>4, Product
    <3> HIDE DEF y
    <3>6. 0 <= dst /\ dst <= p
      BY <2>1, <3>2, <3>4, <3>5
    <3> QED BY <2>3, <3>3, <3>6 DEF InPlace
  <2>4. CASE pc = "done"
    BY <2>1, <2>4 DEF IInv, Done, InPlace
  <2> QED BY <2>2, <2>3, <2>4 DEF IInv
<1> QED BY <1>1, IInvHolds, PTL
=============================================================================
