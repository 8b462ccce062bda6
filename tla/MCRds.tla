------------------------------- MODULE MCRds -------------------------------
(* Stations for Rds. *)
EXTENDS Rds

\* Three names of two segments, none with a character in common.
Name(x, y) ==
  LET seg(n, w) == <<"pi", [type |-> 0, ver |-> "A", seg |-> n], "af", w>>
  IN  <<seg(0, x), seg(1, y)>>
NameStation ==
  <<Name(<<"a", "b">>, <<"c", "d">>), Name(<<"e", "f">>, <<"g", "h">>),
    Name(<<"i", "j">>, <<"k", "l">>)>>
SentNames == {<<"a", "b", "c", "d">>, <<"e", "f", "g", "h">>, <<"i", "j", "k", "l">>}

\* Texts of up to six units with alternating flags; one ends early, one is in
\* groups of version B.
Text(flag, v, segs) ==
  [i \in 1 .. Len(segs) |->
     <<"pi", [type |-> 2, ver |-> v, seg |-> i - 1, ab |-> flag], segs[i][1], segs[i][2]>>]
TextStation ==
  <<Text(FALSE, "A", <<<<"a", "b">>, <<"c", "d">>, <<"e", "f">>>>),
    Text(TRUE, "A", <<<<"g", "h">>, <<"i", "CR">>>>),
    Text(FALSE, "A", <<<<"k", "l">>, <<"m", "n">>, <<"o", "p">>>>)>>
TextStationB ==
  <<Text(TRUE, "B", <<<<"pi", "q">>, <<"pi", "r">>, <<"pi", "s">>>>),
    Text(FALSE, "A", <<<<"k", "l">>, <<"m", "n">>, <<"o", "p">>>>)>>
SentTexts ==
  {<<"a", "b", "c", "d", "e", "f">>, <<"g", "h", "i">>, <<"k", "l", "m", "n", "o", "p">>,
   <<"q", "r", "s">>}

\* Every group three times, or twice.
Twice(s) == [i \in 1 .. 2 * Len(s) |-> s[(i - 1) \div 2 + 1]]
Thrice(s) == [i \in 1 .. 3 * Len(s) |-> s[(i - 1) \div 3 + 1]]
Group8(v, n, single, tuning, first, second, g, x) ==
  <<"pi", [type |-> 8, ver |-> v, single |-> single, tuning |-> tuning, ci |-> n],
    [first |-> first, second |-> second, gsi |-> g, data |-> x], x>>
Head8(n, x) == Group8("A", n, FALSE, FALSE, TRUE, FALSE, 0, x)
Data8(n, two, g, x) == Group8("A", n, FALSE, FALSE, FALSE, two, g, x)
Single8(x) == Group8("A", 5, TRUE, FALSE, FALSE, FALSE, 0, x)
Tuning8(n, x) == Group8("A", n, FALSE, TRUE, TRUE, TRUE, 0, x)
Open8B(n, x) == Group8("B", n, FALSE, FALSE, TRUE, TRUE, 0, x)

\* Messages of three groups; one of one, tuning information and a group of version B.
TmcStation ==
  <<Thrice(<<Head8(1, "u"), Data8(1, TRUE, 1, "v"), Data8(1, FALSE, 0, "w")>>),
    Twice(<<Single8("x"), Tuning8(1, "i"), Open8B(1, "j")>>),
    Thrice(<<Head8(2, "y"), Data8(2, TRUE, 1, "z"), Data8(2, FALSE, 0, "t")>>)>>

\* A message of five groups
LongStation ==
  <<Twice(<<Head8(3, "a"), Data8(3, TRUE, 3, "b"), Data8(3, FALSE, 2, "c"),
            Data8(3, FALSE, 1, "d"), Data8(3, FALSE, 0, "e")>>)>>

Sends(x, data) == [head |-> <<x, x>>, data |-> [i \in DOMAIN data |-> {<<data[i], data[i]>>}]]
SentMessages ==
  {Sends("u", <<"v", "w">>), Sends("y", <<"z", "t">>),
   Sends("a", <<"b", "c", "d", "e">>)}

AllStations == {NameStation, TextStation, TextStationB, TmcStation, LongStation}
ShortMessages == {TmcStation}
=============================================================================
