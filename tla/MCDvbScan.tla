----------------------------- MODULE MCDvbScan -----------------------------
(* Instance of DvbScan for TLC. *)
EXTENDS DvbScan

CONSTANTS e1, e2

S(e, n, l) == [ext |-> e, sec |-> n, last |-> l]

\* Three sections fill a table up to what one word can tell apart; the NIT has
\* two extensions; the application's table numbers its sections with a gap.
Carousel ==
  [pat  |-> <<S(e1, 0, 2), S(e1, 1, 2), S(e1, 2, 2)>>,
   vct  |-> <<S(e1, 0, 0)>>,
   pmt1 |-> <<S(e1, 0, 0)>>,
   pmt2 |-> <<S(e2, 0, 0)>>,
   nit  |-> <<S(e1, 0, 0), S(e2, 0, 1), S(e2, 1, 1)>>,
   sdt  |-> <<S(e1, 0, 0)>>,
   nit2 |-> <<S(e1, 0, 0)>>,
   sdt2 |-> <<S(e1, 0, 0)>>,
   eit  |-> <<S(e1, 0, 3), S(e2, 1, 1), S(e1, 2, 3)>>]

TableIds ==
  [k \in DOMAIN Carousel |-> IF k \in {"pmt1", "pmt2"} THEN "pmt" ELSE k]

PatPrograms == <<"network", "pmt1", "pmt2">>
=============================================================================
