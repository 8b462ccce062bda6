------------------------------ MODULE RdsProofs ------------------------------
(***************************************************************************)
(* What TLAPS proves of the RDS decoder, for every station, every number   *)
(* of segments and whatever blocks are lost or spoilt.                     *)
(*                                                                         *)
(* First: the decoder is handed groups that were sent, never one that is   *)
(* put together from two (Aligned).  The names, texts and messages then    *)
(* follow from what one group does to them, each under a hypothesis about  *)
(* the stations without which the decoder cannot tell old from new.        *)
(***************************************************************************)
EXTENDS Rds, SequenceTheorems, FiniteSetTheorems, TLAPS

\* The place on air is one.
OnAir ==
  /\ station \in Stations /\ list \in DOMAIN station /\ group \in DOMAIN station[list]
  /\ block \in 0 .. 3 /\ gap \in 0 .. MaxGap /\ seen \subseteq 1 .. list

\* The first n blocks of the group on air
Heard(n) ==
  CASE n = 1 -> <<Sent[1]>>
    [] n = 2 -> <<Sent[1], Sent[2]>>
    [] n = 3 -> <<Sent[1], Sent[2], Sent[3]>>

\* What the decoder has of a group is of the one on air, and what is missing is
\* lost; or it is of the group before, and the next block will not fit.
Aligned ==
  raw # <<>> =>
    \E n \in 1 .. 3 :
      /\ Len(raw) = n
      /\ \/ n + gap = block + 4
         \/ n + gap = block /\ raw = Heard(n)

\* A step decodes the group on air, ...
Decodes ==
  /\ DecodeGroup(Sent[1], Sent[2], Sent[3], Sent[4])
  /\ seen' = seen \cup {list}
\* ... or none.
Idles == UNCHANGED <<names, texts, tmc, seen>>

LEMMA AirStep ==
  ASSUME OnAir, [Next]_vars
  PROVE  /\ OnAir' /\ station' = station
         /\ list' \in list .. list + 1
<1>1. CASE UNCHANGED vars \/ Reset
  <2>1. list \in Nat
    BY StationAssumption DEF OnAir
  <2>2. UNCHANGED air
    BY <1>1 DEF vars, Reset
  <2> QED BY <2>1, <2>2 DEF OnAir, air
<1>2. CASE Advance /\ gap' \in 0 .. MaxGap /\ seen' \subseteq seen \cup {list}
  <2>1. /\ Len(station) \in Nat \ {0} /\ DOMAIN station = 1 .. Len(station)
        /\ \A l \in DOMAIN station : /\ Len(station[l]) \in Nat \ {0}
                                     /\ DOMAIN station[l] = 1 .. Len(station[l])
    BY StationAssumption DEF OnAir
  <2>2. station' = station
    BY <1>2 DEF Advance
  <2>3. list' \in list .. list + 1 /\ list' \in 1 .. Len(station) /\ list \in 1 .. Len(station)
    BY <1>2, <2>1 DEF Advance, OnAir
  <2>4. group' \in 1 .. Len(station'[list']) /\ block' \in 0 .. 3
    <3>1. block' \in 0 .. 3
      BY <1>2 DEF Advance, OnAir
    <3>2. Len(station[list']) \in Nat \ {0} /\ 1 \in 1 .. Len(station[list'])
      BY <2>1, <2>3
    <3>3. CASE list' = list
      <4>1. group' = group \/ group' = group + 1 \/ group' = 1
        BY <1>2 DEF Advance
      <4>2. group' = group + 1 => group # Len(station[list]) \/ group' = 1
        BY <1>2, <2>1 DEF Advance, OnAir
      <4> QED BY <2>1, <2>2, <3>1, <3>2, <3>3, <4>1, <4>2 DEF OnAir
    <3>4. CASE list' # list
      BY <1>2, <2>2, <3>1, <3>2, <3>4 DEF Advance
    <3> QED BY <3>3, <3>4
  <2>5. seen' \subseteq 1 .. list'
    BY <1>2, <2>3 DEF OnAir
  <2> QED BY <1>2, <2>1, <2>2, <2>3, <2>4, <2>5 DEF OnAir
<1>3. Receive \/ Spoil \/ Lose => Advance /\ gap' \in 0 .. MaxGap /\ seen' \subseteq seen \cup {list}
  BY GapAssumption DEF Receive, Spoil, Lose, OnAir
<1> QED BY <1>1, <1>2, <1>3 DEF Next

\* While a group lasts it is the same.
LEMMA SentStays ==
  ASSUME OnAir, Advance, block # 3
  PROVE  block' = block + 1 /\ \A n \in 1 .. 3 : Heard(n)' = Heard(n)
<1>1. block' = block + 1 /\ UNCHANGED <<station, list, group>>
  BY DEF Advance, OnAir
<1> QED BY <1>1 DEF Heard, Sent

LEMMA GroupTurns ==
  ASSUME OnAir, Advance, block = 3
  PROVE  block' = 0
BY DEF Advance

LEMMA AppendOne == ASSUME NEW x PROVE Append(<<>>, x) = <<x>>
OBVIOUS

LEMMA AppendTwo == ASSUME NEW x, NEW y PROVE Append(<<x>>, y) = <<x, y>>
<1> DEFINE S == {x, y}  t == Append(<<x>>, y)
<1>1. <<x>> \in Seq(S) /\ Len(<<x>>) = 1 /\ y \in S
  OBVIOUS
<1>2. <<x, y>> \in Seq(S) /\ Len(<<x, y>>) = 2
  OBVIOUS
<1>3. t \in Seq(S) /\ Len(t) = 2 /\ t[1] = x /\ t[2] = y
  BY <1>1, AppendProperties
<1>4. \A i \in 1 .. 2 : t[i] = <<x, y>>[i]
  BY <1>3
<1> HIDE DEF S, t
<1> QED BY <1>2, <1>3, <1>4, SeqEqual DEF t

LEMMA AppendThree == ASSUME NEW x, NEW y, NEW z PROVE Append(<<x, y>>, z) = <<x, y, z>>
<1> DEFINE S == {x, y, z}  t == Append(<<x, y>>, z)
<1>1. <<x, y>> \in Seq(S) /\ Len(<<x, y>>) = 2 /\ z \in S
  OBVIOUS
<1>2. <<x, y, z>> \in Seq(S) /\ Len(<<x, y, z>>) = 3
  OBVIOUS
<1>3. t \in Seq(S) /\ Len(t) = 3 /\ t[1] = x /\ t[2] = y /\ t[3] = z
  BY <1>1, AppendProperties
<1>4. \A i \in 1 .. 3 : t[i] = <<x, y, z>>[i]
  BY <1>3
<1> HIDE DEF S, t
<1> QED BY <1>2, <1>3, <1>4, SeqEqual DEF t

LEMMA HeardGrows ==
  /\ Append(<<>>, Sent[1]) = Heard(1)
  /\ Append(Heard(1), Sent[2]) = Heard(2)
  /\ Append(Heard(2), Sent[3]) = Heard(3)
BY AppendOne, AppendTwo, AppendThree DEF Heard

\* The block that is due is the one that comes.
LEMMA BlockFits ==
  ASSUME OnAir, Aligned
  PROVE  /\ Len(raw) \in 0 .. 3 /\ (raw = <<>> => Len(raw) = 0)
         /\ IdOf(block) = Len(raw) \/ (IdOf(block) = 4 /\ Len(raw) = 2) <=> block = Len(raw)
         /\ block = Len(raw) /\ raw # <<>> => raw = Heard(block)
<1>1. Len(raw) \in 0 .. 3 /\ (raw = <<>> => Len(raw) = 0)
  BY DEF Aligned
<1>2. block = Len(raw) /\ raw # <<>> => raw = Heard(block)
  <2> SUFFICES ASSUME block = Len(raw), raw # <<>> PROVE raw = Heard(block)
    OBVIOUS
  <2>1. PICK n \in 1 .. 3 : /\ Len(raw) = n
                            /\ n + gap = block + 4 \/ (n + gap = block /\ raw = Heard(n))
    BY DEF Aligned
  <2>2. n + gap # block + 4
    BY <2>1, GapAssumption DEF OnAir
  <2> QED BY <2>1, <2>2
<1>3. IdOf(block) = Len(raw) \/ (IdOf(block) = 4 /\ Len(raw) = 2) <=> block = Len(raw)
  <2>1. IdOf(block) = block \/ (block = 2 /\ IdOf(block) = 4)
    BY DEF IdOf
  <2>2. block \in 0 .. 3
    BY DEF OnAir
  <2>3. ASSUME NEW id, NEW n \in 0 .. 3, id = block \/ (block = 2 /\ id = 4)
        PROVE  id = n \/ (id = 4 /\ n = 2) <=> block = n
    BY <2>2, <2>3
  <2> QED BY <1>1, <2>1, <2>3
<1> QED BY <1>1, <1>2, <1>3

LEMMA AlignedStep ==
  ASSUME OnAir, Aligned, [Next]_vars
  PROVE  Aligned' /\ (Decodes \/ Idles \/ Reset)
<1>1. CASE Receive
  <2>1. CASE block = Len(raw) /\ block # 3
    <3>1. raw' = Append(raw, Sent[block + 1]) /\ UNCHANGED <<names, texts, tmc>> /\ gap' = 0
      BY <1>1, <2>1, BlockFits DEF Receive, Add
    <3>2. seen' = seen
      BY <1>1, <2>1 DEF Receive
    <3>3. raw' = Heard(block + 1) /\ block + 1 \in 1 .. 3
      <4>1. raw = <<>> \/ raw = Heard(block)
        BY <2>1, BlockFits
      <4>2. block \in 0 .. 2 /\ (block = 0 => raw = <<>>) /\ (block # 0 => raw # <<>>)
        <5>1. block \in 0 .. 2 /\ (raw = <<>> => block = 0)
          BY <2>1, BlockFits DEF OnAir
        <5>2. raw # <<>> => block # 0
          BY <2>1 DEF Aligned
        <5> QED BY <5>1, <5>2
      <4>3. CASE block = 0
        BY <3>1, <4>2, <4>3, HeardGrows
      <4>4. CASE block = 1
        BY <3>1, <4>1, <4>2, <4>4, HeardGrows
      <4>5. CASE block = 2
        BY <3>1, <4>1, <4>2, <4>5, HeardGrows
      <4> QED BY <4>2, <4>3, <4>4, <4>5
    <3>4. PICK n \in 1 .. 3 : n = block + 1
      BY <3>3
    <3>5. block' = n /\ Heard(n)' = Heard(n)
      BY <1>1, <2>1, <3>4, SentStays DEF Receive
    <3>6. Len(Heard(n)) = n
      BY DEF Heard
    <3>7. raw' = Heard(n)' /\ Len(raw') = n /\ n + gap' = block'
      BY <3>1, <3>3, <3>4, <3>5, <3>6
    <3> QED BY <3>1, <3>2, <3>7 DEF Aligned, Idles
  <2>2. CASE block = Len(raw) /\ block = 3
    <3>1. raw = Heard(3)
      <4>1. raw # <<>>
        BY <2>2, BlockFits
      <4> QED BY <2>2, <4>1, BlockFits
    <3>2. raw[1] = Sent[1] /\ raw[2] = Sent[2] /\ raw[3] = Sent[3]
      BY <3>1 DEF Heard
    <3>3. raw' = <<>> /\ DecodeGroup(raw[1], raw[2], raw[3], Sent[4])
      BY <1>1, <2>2, BlockFits DEF Receive, Add
    <3>4. seen' = seen \cup {list}
      BY <1>1, <2>2 DEF Receive
    <3> QED BY <3>2, <3>3, <3>4 DEF Aligned, Decodes
  <2>3. CASE block # Len(raw)
    <3>1. raw' = <<>> /\ UNCHANGED <<names, texts, tmc>>
      BY <1>1, <2>3, BlockFits DEF Receive, Add
    <3>2. seen' = seen
      BY <1>1, <2>3 DEF Receive
    <3> QED BY <3>1, <3>2 DEF Aligned, Idles
  <2> QED BY <2>1, <2>2, <2>3
<1>2. CASE Spoil
  <2>1. raw' = <<>> /\ UNCHANGED <<names, texts, tmc>> /\ seen' = seen
    BY <1>2, BlockFits DEF Spoil, Add
  <2> QED BY <2>1 DEF Aligned, Idles
<1>3. CASE Lose
  <2>1. UNCHANGED <<raw, names, texts, tmc, seen>> /\ gap' = gap + 1
    BY <1>3 DEF Lose
  <2>2. ASSUME raw # <<>>, block # 3 PROVE Aligned'
    <3>1. block' = block + 1 /\ \A n \in 1 .. 3 : Heard(n)' = Heard(n)
      BY <1>3, <2>2, SentStays DEF Lose
    <3> QED BY <2>1, <2>2, <3>1 DEF Aligned, OnAir
  <2>3. ASSUME raw # <<>>, block = 3 PROVE Aligned'
    <3>1. block' = 0
      BY <1>3, <2>3, GroupTurns DEF Lose
    <3>2. PICK n \in 1 .. 3 : Len(raw) = n /\ (n + gap = block + 4 \/ n + gap = block)
      BY <2>3 DEF Aligned
    <3>3. n + gap = 3
      BY <1>3, <2>3, <3>2, GapAssumption DEF Lose, OnAir
    <3> QED BY <2>1, <3>1, <3>2, <3>3 DEF Aligned, OnAir
  <2> QED BY <2>1, <2>2, <2>3 DEF Aligned, Idles
<1>4. CASE Reset
  BY <1>4 DEF Reset, Aligned
<1>5. CASE UNCHANGED vars
  BY <1>5 DEF vars, air, Aligned, Heard, Sent, Idles
<1> QED BY <1>1, <1>2, <1>3, <1>4, <1>5 DEF Next

LEMMA InitAligned == Init => OnAir /\ Aligned
BY StationAssumption, GapAssumption DEF Init, OnAir, Aligned

-----------------------------------------------------------------------------
(* Traffic messages. *)

\* The groups of station s that belong to messages of several
Multi(s) == {at \in (DOMAIN s) \X UNION {DOMAIN s[l] : l \in DOMAIN s} :
               /\ at[2] \in DOMAIN s[at[1]]
               /\ s[at[1]][at[2]][2].type = 8 /\ s[at[1]][at[2]][2].ver = "A"
               /\ ~s[at[1]][at[2]][2].single /\ ~s[at[1]][at[2]][2].tuning}
Group(s, at) == s[at[1]][at[2]]
Index(s, at) == Group(s, at)[2].ci
Content(s, at) == <<Group(s, at)[3].data, Group(s, at)[4]>>

\* A group of message m: its head or some of its data, after which at most the
\* other data is awaited
PartOf(m, s, at) ==
  IF Group(s, at)[3].first THEN Content(s, at) = m.head
  ELSE Content(s, at) \in UNION Range(m.data) /\ Group(s, at)[3].gsi < Len(m.data)

\* A station gives each of its messages a continuity index of its own, other
\* than the 0 the decoder starts with.
OneIndexEach ==
  \A s \in Stations : \A at \in Multi(s) :
    /\ Index(s, at) # 0
    /\ \E m \in Messages : \A by \in Multi(s) : Index(s, by) = Index(s, at) => PartOf(m, s, by)

\* A head of message m, with what of its data was set behind the blocks
HeadOf(m, head) ==
  /\ m.head \in head /\ head \subseteq {m.head} \cup UNION Range(m.data)
  /\ Len(m.data) < 4 => head = {m.head}

\* The message that is put together is one of those sent.
Assembled(m) ==
  /\ \A by \in Multi(station) : Index(station, by) = continuity_id => PartOf(m, station, by)
  /\ HeadOf(m, new_tmc_msg.head)
  /\ Len(m.data) < 4 => new_tmc_msg.length + grp_seq_id <= 3
  /\ \A i \in DataBlocks : optional_tmc[i] \subseteq UNION Range(m.data)

\* How long it is and what is still awaited fit into the data blocks.
Bounded ==
  /\ grp_seq_id \in 0 .. 3
  /\ new_tmc_msg.length \in Nat /\ new_tmc_msg.length + grp_seq_id <= 4
  /\ new_tmc_msg = [head |-> new_tmc_msg.head, length |-> new_tmc_msg.length]
  /\ optional_tmc = [i \in DataBlocks |-> optional_tmc[i]]

TmcTrue ==
  /\ Bounded
  /\ continuity_id # 0 => \E m \in Messages : Assembled(m)
  /\ MessageUnmixed

LEMMA InitTmc ==
  ASSUME new_tmc_msg = [head |-> {}, length |-> 0], optional_tmc = NoData, grp_seq_id = 0,
         continuity_id = 0, tmc_msg = NoMessage
  PROVE  TmcTrue
BY DEF TmcTrue, Bounded, NoData, MessageUnmixed, Shown, NoMessage

LEMMA FourBlocks == Cardinality(DataBlocks) = 4
<1>1. Cardinality(0 .. 3) = IF 0 > 3 THEN 0 ELSE 3 - 0 + 1
  BY 0 \in Int, 3 \in Int, FS_Interval, Zenon
<1> QED BY <1>1 DEF DataBlocks

\* Head, length and blocks after a group of a message is stored
LEMMA StoredTrue ==
  ASSUME TmcTrue, NEW bits, NEW at \in 0 .. 4, NEW n \in 1 .. 4, NEW m \in Messages, NEW gsi \in 0 .. 3,
         Assembled(m), n + gsi <= 4, Len(m.data) < 4 => n + gsi <= 3, at \in {0, n},
         at = 0 => n = 1,
         bits \in UNION Range(m.data), NEW s \in Stored(bits, at, n)
  PROVE  /\ s[1] = [head |-> s[1].head, length |-> s[1].length]
         /\ s[1].length \in 1 .. n /\ HeadOf(m, s[1].head)
         /\ s[2] = [i \in DataBlocks |-> s[2][i]]
         /\ \A i \in DataBlocks : s[2][i] \subseteq UNION Range(m.data)
<1> DEFINE all == UNION Range(m.data)
           into(i) == [optional_tmc EXCEPT ![i] = @ \cup {bits}]
           head == new_tmc_msg.head
<1>1. \A j \in DataBlocks :
        /\ into(j) = [i \in DataBlocks |-> into(j)[i]]
        /\ \A i \in DataBlocks : into(j)[i] \subseteq all
  BY DEF TmcTrue, Bounded, Assembled
<1>2. /\ optional_tmc = [i \in DataBlocks |-> optional_tmc[i]]
      /\ \A i \in DataBlocks : optional_tmc[i] \subseteq all
  BY DEF TmcTrue, Bounded, Assembled
<1>3. HeadOf(m, head)
  BY DEF Assembled
<1>4. CASE at \in DataBlocks
  <2>1. s = <<[head |-> head, length |-> n], into(at)>>
    BY <1>4 DEF Stored
  <2>2. s[1] = [head |-> head, length |-> n] /\ s[2] = into(at)
    BY <2>1
  <2>3. /\ s[2] = [i \in DataBlocks |-> s[2][i]]
        /\ \A i \in DataBlocks : s[2][i] \subseteq all
    BY <1>1, <1>4, <2>2
  <2>4. s[1].head = head /\ s[1].length = n
    BY <2>2
  <2>5. s[1] = [head |-> s[1].head, length |-> s[1].length]
    BY <2>2, <2>4
  <2>6. HeadOf(m, s[1].head) /\ s[1].length \in 1 .. n
    BY <1>3, <2>4
  <2> QED BY <2>3, <2>5, <2>6 DEF all
<1>5. CASE at \notin DataBlocks
  <2>1. at = 4 /\ n = 4
    BY <1>5 DEF DataBlocks
  <2>2. HeadOf(m, head \cup {bits})
    BY <1>3, <2>1, MessageAssumption DEF HeadOf
  <2>3. 1 \in DataBlocks
    BY DEF DataBlocks
  <2>4. \/ \E h \in {head, head \cup {bits}}, l \in {n, 1} : s = <<[head |-> h, length |-> l], optional_tmc>>
        \/ s = <<[head |-> head, length |-> 1], into(1)>>
    BY <1>5 DEF Stored
  <2>5. CASE s = <<[head |-> head, length |-> 1], into(1)>>
    <3>1. s[1] = [head |-> head, length |-> 1] /\ s[2] = into(1)
      BY <2>5
    <3>2. /\ s[2] = [i \in DataBlocks |-> s[2][i]]
          /\ \A i \in DataBlocks : s[2][i] \subseteq all
      BY <1>1, <2>3, <3>1
    <3>3. s[1].head = head /\ s[1].length = 1
      BY <3>1
    <3>4. s[1] = [head |-> s[1].head, length |-> s[1].length]
      BY <3>1, <3>3
    <3>5. HeadOf(m, s[1].head) /\ s[1].length \in 1 .. n
      BY <1>3, <3>3
    <3> QED BY <3>2, <3>4, <3>5 DEF all
  <2> HIDE DEF into, all
  <2>6. ASSUME NEW h \in {head, head \cup {bits}}, NEW l \in {n, 1},
               s = <<[head |-> h, length |-> l], optional_tmc>>
        PROVE  /\ s[1] = [head |-> s[1].head, length |-> s[1].length]
               /\ s[1].length \in 1 .. n /\ HeadOf(m, s[1].head)
               /\ s[2] = [i \in DataBlocks |-> s[2][i]]
               /\ \A i \in DataBlocks : s[2][i] \subseteq all
    <3>1. s[1] = [head |-> h, length |-> l] /\ s[2] = optional_tmc
      BY <2>6
    <3>2. HeadOf(m, h)
      BY <1>3, <2>2, <2>6
    <3> QED BY <1>2, <3>1, <3>2
  <2> QED BY <2>4, <2>5, <2>6 DEF all
<1> QED BY <1>4, <1>5

\* One group of a message that is stored in its place.
LEMMA StoreTmc ==
  ASSUME TmcTrue, NEW c, NEW d, NEW at \in 0 .. 4, NEW n \in 1 .. 4, NEW m \in Messages,
         Assembled(m), c.gsi \in 0 .. 3, n + c.gsi <= 4, Len(m.data) < 4 => n + c.gsi <= 3,
         at \in {0, n}, at = 0 => n = 1,
         <<c.data, d>> \in UNION Range(m.data), Store(c, d, at, n), station' = station
  PROVE  TmcTrue'
<1> DEFINE all == UNION Range(m.data)
<1>1. PICK s \in Stored(<<c.data, d>>, at, n) :
        /\ grp_seq_id' = c.gsi /\ continuity_id' = continuity_id
        /\ new_tmc_msg' = s[1] /\ optional_tmc' = s[2]
        /\ tmc_msg' = IF c.gsi # 0 THEN tmc_msg
                      ELSE [kind |-> "multi", head |-> s[1].head,
                            data |-> Additional(s[1].length, s[2])]
  BY DEF Store
<1>2. /\ s[1] = [head |-> s[1].head, length |-> s[1].length]
      /\ s[1].length \in 1 .. n /\ HeadOf(m, s[1].head)
      /\ s[2] = [i \in DataBlocks |-> s[2][i]]
      /\ \A i \in DataBlocks : s[2][i] \subseteq all
  BY StoredTrue
<1>3. s[1].length \in Nat /\ s[1].length + c.gsi <= 4
      /\ (Len(m.data) < 4 => s[1].length + c.gsi <= 3)
  BY <1>2
<1>4. Bounded'
  BY <1>1, <1>2, <1>3 DEF Bounded
<1>5. Assembled(m)'
  BY <1>1, <1>2, <1>3 DEF Assembled
<1>6. MessageUnmixed'
  <2>1. CASE c.gsi # 0
    BY <1>1, <2>1 DEF TmcTrue, MessageUnmixed, Shown
  <2>2. CASE c.gsi = 0
    <3> DEFINE l == s[1].length
    <3>1. tmc_msg'.head = s[1].head /\ tmc_msg'.data = Additional(l, s[2])
      BY <1>1, <2>2
    <3>2. \A i \in 1 .. l : i - 1 \in DataBlocks
      BY <1>2 DEF DataBlocks
    <3>3. \A i \in 1 .. l : Additional(l, s[2])[i] \subseteq all
      BY <1>2, <3>2 DEF Additional
    <3>4. DOMAIN Additional(l, s[2]) = 1 .. l
      BY DEF Additional
    <3>5. \A i \in DOMAIN tmc_msg'.data : tmc_msg'.data[i] \subseteq all
      BY <3>1, <3>3, <3>4
    <3>6. HeadOf(m, tmc_msg'.head)
      BY <1>2, <3>1
    <3> QED BY <3>5, <3>6, FourBlocks DEF MessageUnmixed, HeadOf
  <2> QED BY <2>1, <2>2
<1> QED BY <1>4, <1>5, <1>6 DEF TmcTrue

\* What one group does.
LEMMA GroupTmc ==
  ASSUME OneIndexEach, OnAir, TmcTrue, DecodeGroup(Sent[1], Sent[2], Sent[3], Sent[4]),
         station' = station
  PROVE  TmcTrue'
<1> DEFINE b == Sent[2]  c == Sent[3]  d == Sent[4]  at == <<list, group>>
<1>1. GroupOK(Sent) /\ Sent = Group(station, at)
  BY StationAssumption DEF OnAir, Sent, Group
<1>2. CASE UNCHANGED <<continuity_id, grp_seq_id, new_tmc_msg, optional_tmc, tmc_msg>>
  BY <1>2 DEF TmcTrue, Bounded, Assembled, MessageUnmixed, Shown
<1>3. CASE b.type # 8
  <2>1. UNCHANGED tmc
    BY <1>1, <1>3 DEF DecodeGroup, DecodeGroup0, DecodeGroup2, GroupOK
  <2> QED BY <1>2, <2>1 DEF tmc
<1>4. CASE b.type = 8 /\ (b.single \/ b.tuning \/ b.ver # "A")
  <2>1. SingleGroup(b, c, d) \/
        UNCHANGED <<continuity_id, grp_seq_id, new_tmc_msg, optional_tmc, tmc_msg>>
    BY <1>4 DEF DecodeGroup, DecodeGroup8
  <2>2. ASSUME SingleGroup(b, c, d) PROVE TmcTrue'
    BY <2>2 DEF SingleGroup, TmcTrue, Bounded, Assembled, MessageUnmixed, Shown
  <2> QED BY <1>2, <2>1, <2>2
<1>5. CASE b.type = 8 /\ ~b.single /\ ~b.tuning /\ b.ver = "A"
  <2>1. at \in Multi(station) /\ station \in Stations
    BY <1>5 DEF Multi, OnAir, Sent
  <2>2. Index(station, at) = b.ci /\ Content(station, at) = <<c.data, d>>
    BY <1>1 DEF Index, Content
  <2>3. b.ci # 0 /\ \E m \in Messages :
          \A by \in Multi(station) : Index(station, by) = b.ci => PartOf(m, station, by)
    BY <2>1, <2>2 DEF OneIndexEach
  <2>4. c.gsi \in 0 .. 3
    BY <1>1, <1>5 DEF GroupOK
  <2>5. ASSUME FirstGroup(b, c, d) PROVE TmcTrue'
    <3>1. PICK m \in Messages :
            \A by \in Multi(station) : Index(station, by) = b.ci => PartOf(m, station, by)
      BY <2>3
    <3>2. m.head = <<c.data, d>>
      BY <1>1, <2>1, <2>2, <2>5, <3>1 DEF PartOf, FirstGroup
    <3>3. Assembled(m)'
      <4>1. HeadOf(m, new_tmc_msg'.head)
        BY <2>5, <3>2 DEF FirstGroup, HeadOf
      <4>2. new_tmc_msg'.length + grp_seq_id' <= 3
        BY <2>5 DEF FirstGroup, TmcTrue, Bounded
      <4> QED BY <2>5, <3>1, <4>1, <4>2 DEF Assembled, FirstGroup, NoData
    <3>4. Bounded'
      BY <2>5 DEF FirstGroup, TmcTrue, Bounded, NoData
    <3> QED BY <2>5, <3>3, <3>4 DEF TmcTrue, FirstGroup, MessageUnmixed, Shown
  <2>6. ASSUME Continues(b), ~c.first
        PROVE  \E m \in Messages : /\ Assembled(m) /\ <<c.data, d>> \in UNION Range(m.data)
                                   /\ c.gsi < Len(m.data)
    <3>1. PICK m \in Messages : Assembled(m)
      BY <2>3, <2>6 DEF TmcTrue, Continues
    <3>2. PartOf(m, station, at)
      BY <2>1, <2>2, <2>6, <3>1 DEF Assembled, Continues
    <3> QED BY <1>1, <2>2, <2>6, <3>1, <3>2 DEF PartOf
  <2>7. ASSUME SecondGroup(b, c, d) PROVE TmcTrue'
    <3>1. PICK m \in Messages : /\ Assembled(m) /\ <<c.data, d>> \in UNION Range(m.data)
                                /\ c.gsi < Len(m.data)
      BY <2>6, <2>7 DEF SecondGroup
    <3>2. Store(c, d, 0, 1) /\ 1 + c.gsi <= 4 /\ (Len(m.data) < 4 => 1 + c.gsi <= 3)
      BY <2>4, <2>7, <3>1, MessageAssumption DEF SecondGroup
    <3> HIDE DEF c, d
    <3> QED BY <2>4, <3>1, <3>2, StoreTmc
  <2>8. ASSUME NextGroup(b, c, d) PROVE TmcTrue'
    <3>1. PICK m \in Messages : Assembled(m) /\ <<c.data, d>> \in UNION Range(m.data)
      BY <2>6, <2>8 DEF NextGroup
    <3> DEFINE n == new_tmc_msg.length + 1
    <3>2. Store(c, d, n, n) /\ n \in 1 .. 4 /\ n \in 0 .. 4 /\ n + c.gsi <= 4
      BY <2>4, <2>8 DEF NextGroup, TmcTrue, Bounded
    <3>3. Len(m.data) < 4 => n + c.gsi <= 3
      BY <2>4, <2>8, <3>1 DEF NextGroup, TmcTrue, Bounded, Assembled
    <3> HIDE DEF c, d, n
    <3> QED BY <2>4, <3>1, <3>2, <3>3, StoreTmc
  <2>9. \/ FirstGroup(b, c, d) \/ SecondGroup(b, c, d) \/ NextGroup(b, c, d)
        \/ UNCHANGED <<continuity_id, grp_seq_id, new_tmc_msg, optional_tmc, tmc_msg>>
    BY <1>5 DEF DecodeGroup, DecodeGroup8, NoGroup
  <2> QED BY <1>2, <2>5, <2>7, <2>8, <2>9
<1> QED BY <1>3, <1>4, <1>5

\* Messages of several groups are shown with data of one message and, up to four
\* groups, with its head, whichever groups are lost, at every station that does
\* not use a continuity index for two of its messages.
THEOREM MessagesUnmixed == ASSUME OneIndexEach PROVE Spec => []MessageUnmixed
<1>1. Init => OnAir /\ Aligned /\ TmcTrue
  BY InitAligned, InitTmc DEF Init
<1>2. OnAir /\ Aligned /\ TmcTrue /\ [Next]_vars => (OnAir /\ Aligned /\ TmcTrue)'
  <2> SUFFICES ASSUME OnAir, Aligned, TmcTrue, [Next]_vars PROVE (OnAir /\ Aligned /\ TmcTrue)'
    OBVIOUS
  <2>1. CASE Decodes
    BY <2>1, AirStep, AlignedStep, GroupTmc DEF Decodes
  <2>2. CASE Idles
    <3>1. UNCHANGED <<station, continuity_id, grp_seq_id, new_tmc_msg, optional_tmc, tmc_msg>>
      BY <2>2, AirStep DEF Idles, tmc
    <3>2. TmcTrue'
      BY <3>1 DEF TmcTrue, Bounded, Assembled, MessageUnmixed, Shown
    <3> QED BY <3>2, AirStep, AlignedStep
  <2>3. CASE Reset
    <3>1. TmcTrue'
      BY <2>3 DEF Reset, TmcTrue, Bounded, NoData, MessageUnmixed, Shown, NoMessage
    <3> QED BY <3>1, AirStep, AlignedStep
  <2> QED BY <2>1, <2>2, <2>3, AlignedStep
<1>3. TmcTrue => MessageUnmixed
  BY DEF TmcTrue
<1> QED BY <1>1, <1>2, <1>3, PTL DEF Spec
-----------------------------------------------------------------------------
(* The name. *)

LEMMA TwoStored ==
  ASSUME NEW D, NEW f, f = [u \in D |-> f[u]], NEW p \in D, NEW q \in D, p # q, NEW x, NEW y,
         NEW e, e = [f EXCEPT ![p] = x, ![q] = y]
  PROVE  /\ e = [u \in D |-> e[u]] /\ e[p] = x /\ e[q] = y
         /\ \A u \in D : u # p /\ u # q => e[u] = f[u]
OBVIOUS

Segs == 0 .. NameSegs - 1

\* The pairs of characters that list l of station s sends for segment k
PairsOf(s, l, k) ==
  {<<s[l][g][4][1], s[l][g][4][2]>> :
     g \in {g \in DOMAIN s[l] : s[l][g][2].type = 0 /\ s[l][g][2].seg = k}}

\* Two names of a station differ in every segment, and from no name.
SegmentsDiffer ==
  \A s \in Stations : \A l, m \in DOMAIN s : \A k \in Segs : \A x \in PairsOf(s, l, k) :
    x # <<Nul, Nul>> /\ (l # m => x \notin PairsOf(s, m, k))

\* What a list sends for all segments is a name.
NamesListed ==
  \A s \in Stations : \A l \in DOMAIN s :
    {n \in [1 .. 2 * NameSegs -> UNION {{x[1], x[2]} : x \in UNION {PairsOf(s, l, k) : k \in Segs}}] :
       \A k \in Segs : <<n[2 * k + 1], n[2 * k + 2]>> \in PairsOf(s, l, k)} \subseteq Names

\* A name that is put together up to list L: what came twice is of this list, the
\* rest of it or of lists before.
Pair(chars, k) == <<chars[2 * k], chars[2 * k + 1]>>
Gathered(chars, valid, L) ==
  /\ chars = [p \in NamePos |-> chars[p]]
  /\ valid \in [NamePos -> BOOLEAN]
  /\ \A k \in Segs :
       /\ \/ Pair(chars, k) = <<Nul, Nul>>
          \/ \E l \in DOMAIN station : l <= L /\ Pair(chars, k) \in PairsOf(station, l, k)
       /\ valid[2 * k] \/ valid[2 * k + 1] => Pair(chars, k) \in PairsOf(station, L, k)

NameTrue ==
  /\ \E L \in DOMAIN station : L <= list /\ Gathered(new_ps, new_ps_valid, L)
  /\ NameWasSent

\* The places of a segment are its own.
LEMMA Places ==
  /\ \A k \in Segs : 2 * k \in NamePos /\ 2 * k + 1 \in NamePos
  /\ \A k, j \in Segs : j # k => 2 * j # 2 * k /\ 2 * j + 1 # 2 * k + 1
  /\ \A k, j \in Segs : 2 * j # 2 * k + 1
  /\ \A i \in 1 .. 2 * NameSegs : \E k \in Segs : i = 2 * k + 1 \/ i = 2 * k + 2
<1>1. \A k \in Segs : 2 * k \in NamePos /\ 2 * k + 1 \in NamePos
  BY SegAssumption DEF Segs, NamePos
<1>2. \A k, j \in Segs : /\ j # k => 2 * j # 2 * k /\ 2 * j + 1 # 2 * k + 1
                         /\ 2 * j # 2 * k + 1
  BY SegAssumption DEF Segs
<1>3. ASSUME NEW i \in 1 .. 2 * NameSegs PROVE \E k \in Segs : i = 2 * k + 1 \/ i = 2 * k + 2
  <2>1. /\ (i - 1) \div 2 \in Segs
        /\ i = 2 * ((i - 1) \div 2) + 1 \/ i = 2 * ((i - 1) \div 2) + 2
    BY SegAssumption DEF Segs
  <2> QED BY <2>1
<1> QED BY <1>1, <1>2, <1>3

\* One character: valid, if it was there before, ...
LEMMA AddPsOld ==
  ASSUME NEW chars, NEW valid, NEW pos
  PROVE  AddPs([chars |-> chars, valid |-> valid], pos, chars[pos]) =
           [chars |-> chars, valid |-> [valid EXCEPT ![pos] = TRUE]]
<1> DEFINE s == [chars |-> chars, valid |-> valid]
<1>1. AddPs(s, pos, chars[pos]) = [s EXCEPT !.valid[pos] = TRUE]
  BY DEF AddPs
<1>2. [s EXCEPT !.valid[pos] = TRUE] = [s EXCEPT !.valid = [valid EXCEPT ![pos] = TRUE]]
  OBVIOUS
<1>3. ASSUME NEW w
      PROVE  [s EXCEPT !.valid = w] = [chars |-> chars, valid |-> w]
  OBVIOUS
<1> HIDE DEF s
<1>4. AddPs(s, pos, chars[pos]) = [chars |-> chars, valid |-> [valid EXCEPT ![pos] = TRUE]]
  BY <1>1, <1>2, <1>3
<1> QED BY <1>4 DEF s

\* ... or else new.
LEMMA AddPsNew ==
  ASSUME NEW chars, NEW valid, NEW pos, NEW ch, ch # chars[pos]
  PROVE  AddPs([chars |-> chars, valid |-> valid], pos, ch) =
           [chars |-> [chars EXCEPT ![pos] = ch], valid |-> [p \in NamePos |-> FALSE]]
BY DEF AddPs

\* What the two characters of a segment do to a name: they take their places, and
\* if any of them is new nothing else stays valid.
LEMMA PairAdded ==
  ASSUME NEW chars, chars = [p \in NamePos |-> chars[p]], NEW valid \in [NamePos -> BOOLEAN],
         NEW k \in Segs, NEW x, NEW y,
         NEW one, one = AddPs([chars |-> chars, valid |-> valid], 2 * k, x),
         NEW two, two = AddPs(one, 2 * k + 1, y)
  PROVE  /\ two.chars = [chars EXCEPT ![2 * k] = x, ![2 * k + 1] = y]
         /\ two.valid \in [NamePos -> BOOLEAN]
         /\ \/ /\ chars[2 * k] = x /\ chars[2 * k + 1] = y
               /\ \A p \in NamePos : two.valid[p] => valid[p] \/ p \in {2 * k, 2 * k + 1}
            \/ \A p \in NamePos : two.valid[p] => p = 2 * k + 1
<1> DEFINE first == 2 * k
           second == 2 * k + 1
           mid == [chars EXCEPT ![first] = x]
           end == [mid EXCEPT ![second] = y]
           none == [p \in NamePos |-> FALSE]
           more(v, p) == [v EXCEPT ![p] = TRUE]
<1>1. first \in NamePos /\ second \in NamePos /\ first # second
  BY Places
<1>2. /\ chars[first] = x => mid = chars
      /\ mid[second] = chars[second] /\ (mid[second] = y => end = mid)
      /\ end = [chars EXCEPT ![first] = x, ![second] = y]
  BY <1>1
<1>3. /\ none \in [NamePos -> BOOLEAN] /\ \A p \in NamePos : ~none[p]
      /\ \A v \in [NamePos -> BOOLEAN], q \in NamePos :
           /\ more(v, q) \in [NamePos -> BOOLEAN]
           /\ \A p \in NamePos : more(v, q)[p] => v[p] \/ p = q
  OBVIOUS
<1> HIDE DEF first, second, mid
<1>4. /\ x = chars[first] => AddPs([chars |-> chars, valid |-> valid], first, x) =
                               [chars |-> chars, valid |-> more(valid, first)]
      /\ x # chars[first] => AddPs([chars |-> chars, valid |-> valid], first, x) =
                               [chars |-> mid, valid |-> none]
  BY AddPsOld, AddPsNew DEF mid
<1>5. ASSUME NEW v
      PROVE  /\ y = mid[second] => AddPs([chars |-> mid, valid |-> v], second, y) =
                                     [chars |-> mid, valid |-> more(v, second)]
             /\ y # mid[second] => AddPs([chars |-> mid, valid |-> v], second, y) =
                                     [chars |-> end, valid |-> none]
  <2>1. CASE y = mid[second]
    BY <2>1, AddPsOld
  <2>2. CASE y # mid[second]
    BY ONLY <2>2, AddPsNew
  <2> QED BY <2>1, <2>2
<1>6. one = AddPs([chars |-> chars, valid |-> valid], first, x) /\ two = AddPs(one, second, y)
  BY DEF first, second
<1> HIDE DEF end, none, more
<1>7. PICK v : /\ one = [chars |-> mid, valid |-> v]
               /\ \/ chars[first] = x /\ v = more(valid, first)
                  \/ v = none
  <2>1. CASE x = chars[first]
    BY <1>2, <1>4, <1>6, <2>1
  <2>2. CASE x # chars[first]
    BY <1>4, <1>6, <2>2
  <2> QED BY <2>1, <2>2
<1>8. /\ v \in [NamePos -> BOOLEAN]
      /\ \/ chars[first] = x /\ \A p \in NamePos : v[p] => valid[p] \/ p = first
         \/ \A p \in NamePos : ~v[p]
  BY <1>1, <1>3, <1>7
<1>9. /\ two.chars = end
      /\ \/ chars[second] = y /\ two.valid = more(v, second)
         \/ two.valid = none
  <2>1. two = AddPs([chars |-> mid, valid |-> v], second, y)
    BY <1>6, <1>7
  <2>2. CASE y = mid[second]
    <3>1. two = [chars |-> mid, valid |-> more(v, second)]
      BY <1>5, <2>1, <2>2
    <3>2. two.chars = mid /\ two.valid = more(v, second)
      BY <3>1
    <3> QED BY <1>2, <2>2, <3>2
  <2>3. CASE y # mid[second]
    <3>1. two = [chars |-> end, valid |-> none]
      BY <1>5, <2>1, <2>3
    <3> QED BY <3>1
  <2> QED BY <2>2, <2>3
<1>10. /\ two.valid \in [NamePos -> BOOLEAN]
       /\ \/ chars[second] = y /\ \A p \in NamePos : two.valid[p] => v[p] \/ p = second
          \/ \A p \in NamePos : ~two.valid[p]
  <2>1. ASSUME two.valid = more(v, second)
        PROVE  /\ two.valid \in [NamePos -> BOOLEAN]
               /\ \A p \in NamePos : two.valid[p] => v[p] \/ p = second
    <3>1. /\ more(v, second) \in [NamePos -> BOOLEAN]
          /\ \A p \in NamePos : more(v, second)[p] => v[p] \/ p = second
      BY <1>1, <1>3, <1>8, Zenon
    <3> QED BY <2>1, <3>1
  <2>2. ASSUME two.valid = none
        PROVE  two.valid \in [NamePos -> BOOLEAN] /\ \A p \in NamePos : ~two.valid[p]
    BY <1>3, <2>2, Zenon
  <2> QED BY <1>9, <2>1, <2>2, Zenon
<1>11. two.chars = [chars EXCEPT ![first] = x, ![second] = y]
  BY <1>2, <1>9
<1>12. \/ /\ chars[first] = x /\ chars[second] = y
          /\ \A p \in NamePos : two.valid[p] => valid[p] \/ p \in {first, second}
       \/ \A p \in NamePos : two.valid[p] => p = second
  BY <1>8, <1>10
<1> QED BY <1>10, <1>11, <1>12 DEF first, second

LEMMA GroupName ==
  ASSUME SegmentsDiffer, NamesListed, OnAir, NameTrue,
         DecodeGroup(Sent[1], Sent[2], Sent[3], Sent[4]), station' = station,
         list' \in list .. list + 1
  PROVE  NameTrue'
<1> DEFINE b == Sent[2]  d == Sent[4]
<1>1. /\ GroupOK(Sent) /\ DOMAIN station \subseteq Nat /\ station \in Stations
      /\ list \in DOMAIN station /\ list <= list'
  BY StationAssumption DEF OnAir, Sent
<1>2. CASE b.type # 0
  <2>1. UNCHANGED <<new_ps, new_ps_valid, ps>>
    BY <1>1, <1>2 DEF DecodeGroup, DecodeGroup2, DecodeGroup8, GroupOK, names
  <2>2. PICK L \in DOMAIN station : L <= list /\ Gathered(new_ps, new_ps_valid, L)
    BY DEF NameTrue
  <2>3. L <= list' /\ Gathered(new_ps, new_ps_valid, L)'
    BY <1>1, <2>1, <2>2 DEF Gathered
  <2> QED BY <2>1, <2>3 DEF NameTrue, NameWasSent
<1>3. CASE b.type = 0
  <2> DEFINE k == b.seg
             one == AddPs([chars |-> new_ps, valid |-> new_ps_valid], 2 * k, d[1])
             two == AddPs(one, 2 * k + 1, d[2])
             sent == <<d[1], d[2]>>
  <2>1. /\ new_ps' = two.chars /\ new_ps_valid' = two.valid
        /\ ps' = IF \A p \in NamePos : two.valid[p]
                 THEN [i \in 1 .. 2 * NameSegs |-> two.chars[i - 1]] ELSE ps
    BY <1>3 DEF DecodeGroup, DecodeGroup0
  <2>2. k \in Segs
    BY <1>1, <1>3 DEF GroupOK, Segs
  <2>3. sent \in PairsOf(station, list, k)
    BY <1>3 DEF PairsOf, OnAir, Sent
  <2>4. PICK L \in DOMAIN station : L <= list /\ Gathered(new_ps, new_ps_valid, L)
    BY DEF NameTrue
  <2>5. /\ two.chars = [new_ps EXCEPT ![2 * k] = d[1], ![2 * k + 1] = d[2]]
        /\ two.valid \in [NamePos -> BOOLEAN]
        /\ \/ /\ new_ps[2 * k] = d[1] /\ new_ps[2 * k + 1] = d[2]
              /\ \A p \in NamePos : two.valid[p] => new_ps_valid[p] \/ p \in {2 * k, 2 * k + 1}
           \/ \A p \in NamePos : two.valid[p] => p = 2 * k + 1
    <3>1. new_ps = [p \in NamePos |-> new_ps[p]] /\ new_ps_valid \in [NamePos -> BOOLEAN]
      BY <2>4 DEF Gathered
    <3> HIDE DEF k, d, one, two
    <3>2. one = AddPs([chars |-> new_ps, valid |-> new_ps_valid], 2 * k, d[1])
      BY DEF one
    <3>3. two = AddPs(one, 2 * k + 1, d[2])
      BY DEF two
    <3> QED BY <2>2, <3>1, <3>2, <3>3, PairAdded
  <2> HIDE DEF two, k, d
  <2>6. /\ two.chars = [p \in NamePos |-> two.chars[p]] /\ Pair(two.chars, k) = sent
        /\ \A j \in Segs : j # k => Pair(two.chars, j) = Pair(new_ps, j)
    <3>1. new_ps = [p \in NamePos |-> new_ps[p]]
      BY <2>4 DEF Gathered
    <3>2. /\ 2 * k \in NamePos /\ 2 * k + 1 \in NamePos /\ 2 * k # 2 * k + 1
          /\ \A j \in Segs : /\ 2 * j \in NamePos /\ 2 * j + 1 \in NamePos
                             /\ 2 * j # 2 * k + 1 /\ 2 * k # 2 * j + 1
                             /\ j # k => 2 * j # 2 * k /\ 2 * j + 1 # 2 * k + 1
      BY <2>2, Places
    <3>3. /\ two.chars = [p \in NamePos |-> two.chars[p]]
          /\ two.chars[2 * k] = d[1] /\ two.chars[2 * k + 1] = d[2]
          /\ \A p \in NamePos : p # 2 * k /\ p # 2 * k + 1 => two.chars[p] = new_ps[p]
      <4> DEFINE p == 2 * k  q == 2 * k + 1
      <4>1. p \in NamePos /\ q \in NamePos /\ p # q
        BY <3>2
      <4>2. two.chars = [new_ps EXCEPT ![p] = d[1], ![q] = d[2]]
        BY <2>5
      <4> HIDE DEF p, q
      <4>3. /\ two.chars = [u \in NamePos |-> two.chars[u]]
            /\ two.chars[p] = d[1] /\ two.chars[q] = d[2]
            /\ \A u \in NamePos : u # p /\ u # q => two.chars[u] = new_ps[u]
        BY <3>1, <4>1, <4>2, TwoStored
      <4> QED BY <4>3, Zenon DEF p, q
    <3> QED BY <3>2, <3>3 DEF Pair
  <2>7. ASSUME NEW j \in Segs
        PROVE  /\ \/ Pair(two.chars, j) = <<Nul, Nul>>
                  \/ \E l \in DOMAIN station :
                       l <= list /\ Pair(two.chars, j) \in PairsOf(station, l, j)
               /\ two.valid[2 * j] \/ two.valid[2 * j + 1] =>
                    Pair(two.chars, j) \in PairsOf(station, list, j)
    <3>1. CASE j = k
      BY <1>1, <2>3, <2>6, <3>1
    <3>2. CASE j # k
      <4>1. Pair(two.chars, j) = Pair(new_ps, j)
        BY <2>6, <3>2
      <4>2. \/ Pair(new_ps, j) = <<Nul, Nul>>
            \/ \E l \in DOMAIN station : l <= list /\ Pair(new_ps, j) \in PairsOf(station, l, j)
        BY <1>1, <2>4 DEF Gathered
      <4>3. ASSUME two.valid[2 * j] \/ two.valid[2 * j + 1]
            PROVE  Pair(new_ps, j) \in PairsOf(station, list, j)
        <5>1. /\ 2 * j \in NamePos /\ 2 * j + 1 \in NamePos
              /\ 2 * j \notin {2 * k, 2 * k + 1} /\ 2 * j + 1 \notin {2 * k, 2 * k + 1}
          BY <2>2, <3>2, Places
        <5>2. /\ new_ps[2 * k] = d[1] /\ new_ps[2 * k + 1] = d[2]
              /\ new_ps_valid[2 * j] \/ new_ps_valid[2 * j + 1]
          BY <2>5, <4>3, <5>1
        <5>3. Pair(new_ps, k) = sent
          BY <5>2 DEF Pair
        <5>4. PICK l \in DOMAIN station : l <= L /\ sent \in PairsOf(station, l, k)
          BY <1>1, <2>2, <2>3, <2>4, <5>3 DEF Gathered, SegmentsDiffer
        <5>5. l = list
          BY <1>1, <2>2, <2>3, <5>4 DEF SegmentsDiffer
        <5>6. L = list
          BY <1>1, <2>4, <5>4, <5>5
        <5> QED BY <2>4, <5>2, <5>6 DEF Gathered
      <4> QED BY <4>1, <4>2, <4>3
    <3> QED BY <3>1, <3>2
  <2>8. Gathered(two.chars, two.valid, list)
    BY <2>5, <2>6, <2>7 DEF Gathered
  <2>9. NameWasSent'
    <3>1. CASE \A p \in NamePos : two.valid[p]
      <4> DEFINE n == [i \in 1 .. 2 * NameSegs |-> two.chars[i - 1]]
                 all == UNION {{x[1], x[2]} : x \in UNION {PairsOf(station, list, j) : j \in Segs}}
      <4>1. ASSUME NEW j \in Segs
            PROVE  <<n[2 * j + 1], n[2 * j + 2]>> \in PairsOf(station, list, j)
        <5>1. 2 * j + 1 \in 1 .. 2 * NameSegs /\ 2 * j + 2 \in 1 .. 2 * NameSegs
              /\ 2 * j + 1 - 1 = 2 * j /\ 2 * j + 2 - 1 = 2 * j + 1
          BY SegAssumption DEF Segs
        <5>2. Pair(two.chars, j) \in PairsOf(station, list, j)
          <6>1. 2 * j \in NamePos
            BY Places
          <6>2. two.valid[2 * j] \/ two.valid[2 * j + 1]
            BY <3>1, <6>1
          <6> QED BY <2>7, <6>2, Zenon
        <5>3. n[2 * j + 1] = two.chars[2 * j] /\ n[2 * j + 2] = two.chars[2 * j + 1]
          BY <5>1, SegAssumption DEF Segs
        <5> HIDE DEF n
        <5> QED BY <5>2, <5>3 DEF Pair
      <4>2. n \in [1 .. 2 * NameSegs -> all]
        <5> SUFFICES ASSUME NEW i \in 1 .. 2 * NameSegs PROVE n[i] \in all
          OBVIOUS
        <5>1. PICK j \in Segs : i = 2 * j + 1 \/ i = 2 * j + 2
          BY Places
        <5>2. PICK x \in PairsOf(station, list, j) : n[i] \in {x[1], x[2]}
          <6> HIDE DEF n
          <6> QED BY <4>1, <5>1
        <5> HIDE DEF n
        <5> QED BY <5>2
      <4> HIDE DEF n
      <4>3. n \in Names
        BY <1>1, <4>1, <4>2 DEF NamesListed
      <4> QED BY <2>1, <3>1, <4>3 DEF NameWasSent, n
    <3>2. CASE ~\A p \in NamePos : two.valid[p]
      BY <2>1, <3>2 DEF NameWasSent, NameTrue
    <3> QED BY <3>1, <3>2
  <2> QED BY <1>1, <2>1, <2>8, <2>9 DEF NameTrue, Gathered
<1> QED BY <1>2, <1>3

\* The name shown is one the station sent, at every station whose names differ in
\* every segment, whichever blocks are lost.
THEOREM NamesSent == ASSUME SegmentsDiffer, NamesListed PROVE Spec => []NameWasSent
<1>1. ASSUME OnAir, new_ps = NoName, new_ps_valid = [p \in NamePos |-> FALSE], ps = <<>>
      PROVE  NameTrue
  <2>1. Gathered(new_ps, new_ps_valid, list)
    <3>1. \A k \in Segs : 2 * k \in NamePos /\ 2 * k + 1 \in NamePos
      BY Places
    <3> QED BY <1>1, <3>1 DEF Gathered, NoName, Pair
  <2>2. list \in DOMAIN station /\ list <= list
    BY <1>1, StationAssumption DEF OnAir
  <2> QED BY <1>1, <2>1, <2>2 DEF NameTrue, NameWasSent
<1>2. Init => OnAir /\ Aligned /\ NameTrue
  BY <1>1, InitAligned DEF Init
<1>3. OnAir /\ Aligned /\ NameTrue /\ [Next]_vars => (OnAir /\ Aligned /\ NameTrue)'
  <2> SUFFICES ASSUME OnAir, Aligned, NameTrue, [Next]_vars PROVE (OnAir /\ Aligned /\ NameTrue)'
    OBVIOUS
  <2>1. OnAir' /\ Aligned' /\ station' = station /\ list' \in list .. list + 1
    BY AirStep, AlignedStep
  <2>2. CASE Decodes
    BY <2>1, <2>2, GroupName DEF Decodes
  <2>3. CASE Idles
    <3>1. UNCHANGED <<new_ps, new_ps_valid, ps>>
      BY <2>3 DEF Idles, names
    <3>2. DOMAIN station \subseteq Nat
      BY StationAssumption DEF OnAir
    <3>3. NameTrue'
      BY <2>1, <3>1, <3>2 DEF NameTrue, Gathered, NameWasSent, OnAir
    <3> QED BY <2>1, <3>3
  <2>4. CASE Reset
    <3>1. /\ new_ps' = [p \in NamePos |-> Nul] /\ new_ps_valid' = [p \in NamePos |-> FALSE]
          /\ ps' = <<>>
      BY <2>4 DEF Reset, NoName
    <3>2. \E L \in DOMAIN station' : L <= list' /\ Gathered(new_ps, new_ps_valid, L)'
      <4>1. list' \in DOMAIN station' /\ list' <= list'
        BY <2>1, StationAssumption DEF OnAir
      <4>2. \A k \in Segs : 2 * k \in NamePos /\ 2 * k + 1 \in NamePos
        BY Places
      <4> QED BY <3>1, <4>1, <4>2 DEF Gathered, Pair
    <3> QED BY <2>1, <3>1, <3>2 DEF NameTrue, NameWasSent
  <2> QED BY <2>2, <2>3, <2>4, AlignedStep
<1>4. NameTrue => NameWasSent
  BY DEF NameTrue
<1> QED BY <1>2, <1>3, <1>4, PTL DEF Spec
-----------------------------------------------------------------------------
(* The text. *)

\* A list with a text, and what it sends for a unit of it
TextList(s, l) == \E g \in DOMAIN s[l] : s[l][g][2].type = 2
UnitsOf(s, l, u) ==
  LET in == {g \in DOMAIN s[l] : s[l][g][2].type = 2}
      long == {g \in in : s[l][g][2].ver = "A"}
  IN  {s[l][g][3] : g \in {g \in long : u = 2 * s[l][g][2].seg}}
      \cup {s[l][g][4] : g \in {g \in long : u = 2 * s[l][g][2].seg + 1}}
      \cup {s[l][g][4] : g \in {g \in in \ long : u = s[l][g][2].seg}}

\* A list with a text has nothing else, one flag, one version and one text.
TextsSteady ==
  \A s \in Stations : \A l \in DOMAIN s : TextList(s, l) =>
    /\ \A g, h \in DOMAIN s[l] :
         /\ s[l][g][2].type = 2
         /\ s[l][g][2].ab = s[l][h][2].ab /\ s[l][g][2].ver = s[l][h][2].ver
    /\ \A u \in TextUnits : \A x, y \in UnitsOf(s, l, u) : x = y

\* From one text to the next the flag changes.
FlagChanges ==
  \A s \in Stations : \A l, m \in DOMAIN s :
    /\ l < m /\ TextList(s, l) /\ TextList(s, m)
    /\ \A k \in l + 1 .. m - 1 : ~TextList(s, k)
    => \A g \in DOMAIN s[l], h \in DOMAIN s[m] : s[l][g][2].ab # s[m][h][2].ab

\* The text of list l ends with unit n: by a carriage return, of which there may be
\* two in a group, or for want of segments.
Ends(s, l, n) ==
  /\ \A u \in 0 .. n - 2 : CR \notin UnitsOf(s, l, u)
  /\ \/ CR \in UnitsOf(s, l, n)
     \/ /\ \A u \in 0 .. n - 1 : CR \notin UnitsOf(s, l, u)
        /\ \E g \in DOMAIN s[l] : n = Units(s[l][g][2]) * TextSegs
SentUnit(s, l, u) == {IF x = CR THEN Nul ELSE x : x \in UnitsOf(s, l, u)}
TextsListed ==
  \A s \in Stations : \A l \in DOMAIN s : TextList(s, l) =>
    \A n \in 0 .. 2 * TextSegs : Ends(s, l, n) =>
      {t \in [1 .. n -> UNION {SentUnit(s, l, u) : u \in TextUnits}] :
         \A i \in 1 .. n : t[i] \in SentUnit(s, l, i - 1)} \subseteq Texts

\* No list went by unseen.
WellSeen == \A l \in 1 .. list - 1 : l \in seen

\* The segments that were put together are those of list L, the last one seen.
Filled(L) ==
  /\ L \in DOMAIN station /\ L <= list /\ TextList(station, L)
  /\ \A k \in seen : TextList(station, k) => k <= L
  /\ \A g \in DOMAIN station[L] :
       /\ station[L][g][2].ab = rt_ab_flag
       /\ \A u \in 0 .. Units(station[L][g][2]) * next_rt_segment - 1 :
            new_rt[u] \in UnitsOf(station, L, u)

TextTrue ==
  /\ new_rt = [u \in TextUnits |-> new_rt[u]] /\ \A u \in TextUnits : new_rt[u] # CR
  /\ next_rt_segment \in 0 .. TextSegs - 1
  /\ WellSeen =>
       /\ next_rt_segment > 0 => \E L \in DOMAIN station : Filled(L)
       /\ rt.set => rt.text \in Texts

\* A group with the flag of the segments before is of their text.
LEMMA SameText ==
  ASSUME TextsSteady, FlagChanges, OnAir, WellSeen, Sent[2].type = 2, ~Fresh(Sent[2]),
         NEW L, Filled(L)
  PROVE  L = list
<1>1. station \in Stations /\ list \in DOMAIN station /\ DOMAIN station \subseteq Nat
      /\ group \in DOMAIN station[list] /\ L \in DOMAIN station /\ L <= list
  BY StationAssumption DEF OnAir, Filled
<1>2. TextList(station, L) /\ TextList(station, list)
  BY <1>1 DEF Filled, TextList, Sent
<1>3. SUFFICES ASSUME L < list PROVE FALSE
  BY <1>1
<1>4. PICK g \in DOMAIN station[L] : station[L][g][2].type = 2
  BY <1>2 DEF TextList
<1>5. station[L][g][2].ab = station[list][group][2].ab
  BY <1>4 DEF Filled, Fresh, Sent
<1>6. PICK k \in L + 1 .. list - 1 : TextList(station, k)
  BY <1>1, <1>2, <1>3, <1>4, <1>5 DEF FlagChanges
<1>7. k \in seen /\ L < k
  BY <1>1, <1>6 DEF WellSeen
<1> QED BY <1>1, <1>6, <1>7 DEF Filled

\* The segment that is stored joins those of the same text.
LEMMA SegmentStored ==
  ASSUME TextsSteady, FlagChanges, OnAir, WellSeen, TextTrue, Sent[2].type = 2,
         Awaited(Sent[2])
  PROVE  LET b == Sent[2]
             units == WithSegment(b, Sent[3], Sent[4])
         IN  /\ units = [u \in TextUnits |-> units[u]]
             /\ \A u \in TextUnits :
                  /\ u < Units(b) * (b.seg + 1) => units[u] \in UnitsOf(station, list, u)
                  /\ ~(Units(b) * b.seg <= u /\ u < Units(b) * (b.seg + 1)) =>
                       units[u] # CR
<1> DEFINE b == Sent[2]
           units == WithSegment(b, Sent[3], Sent[4])
           lo == Units(b) * b.seg
<1>1. b.seg \in 0 .. TextSegs - 1 /\ group \in DOMAIN station[list]
  BY StationAssumption DEF OnAir, Sent, GroupOK
<1>2. \A u \in TextUnits : u < lo => new_rt[u] \in UnitsOf(station, list, u)
  <2>1. CASE b.seg = 0
    BY <2>1 DEF Units, TextUnits
  <2>2. CASE b.seg # 0
    <3>1. ~Fresh(b) /\ b.seg = next_rt_segment /\ next_rt_segment > 0
      BY <1>1, <2>2 DEF Awaited
    <3>2. PICK L \in DOMAIN station : Filled(L)
      BY <3>1 DEF TextTrue
    <3>3. L = list
      BY <3>1, <3>2, SameText
    <3>4. \A u \in 0 .. Units(b) * next_rt_segment - 1 : new_rt[u] \in UnitsOf(station, list, u)
      BY <1>1, <3>2, <3>3 DEF Filled, Sent
    <3> QED BY <1>1, <3>1, <3>4 DEF TextUnits, Units
  <2> QED BY <2>1, <2>2
<1>3. CASE b.ver = "A"
  <2>1. Units(b) = 2 /\ 2 * b.seg \in TextUnits /\ 2 * b.seg + 1 \in TextUnits
    BY <1>1, <1>3, SegAssumption DEF Units, TextUnits
  <2>2. units = [new_rt EXCEPT ![2 * b.seg] = Sent[3], ![2 * b.seg + 1] = Sent[4]]
    BY <1>3 DEF WithSegment
  <2>3. /\ Sent[3] \in UnitsOf(station, list, 2 * b.seg)
        /\ Sent[4] \in UnitsOf(station, list, 2 * b.seg + 1)
    BY <1>1, <1>3 DEF UnitsOf, Sent
  <2>4. /\ units = [u \in TextUnits |-> units[u]]
        /\ units[2 * b.seg] = Sent[3] /\ units[2 * b.seg + 1] = Sent[4]
        /\ \A u \in TextUnits : u # 2 * b.seg /\ u # 2 * b.seg + 1 => units[u] = new_rt[u]
    <3>1. 2 * b.seg # 2 * b.seg + 1
      BY <1>1
    <3>2. new_rt = [u \in TextUnits |-> new_rt[u]]
      BY DEF TextTrue
    <3> HIDE DEF units, b
    <3> QED BY <2>1, <2>2, <3>1, <3>2, TwoStored
  <2> HIDE DEF units, b
  <2>5. \A u \in TextUnits : u \in Int
    BY DEF TextUnits
  <2> QED BY <1>1, <1>2, <2>1, <2>3, <2>4, <2>5 DEF TextTrue, units, b
<1>4. CASE b.ver # "A"
  <2>1. Units(b) = 1 /\ b.seg \in TextUnits
    BY <1>1, <1>4, SegAssumption DEF Units, TextUnits
  <2>2. units = [new_rt EXCEPT ![b.seg] = Sent[4]]
    BY <1>4 DEF WithSegment
  <2>3. Sent[4] \in UnitsOf(station, list, b.seg)
    BY <1>1, <1>4 DEF UnitsOf, Sent
  <2>4. /\ units = [u \in TextUnits |-> units[u]] /\ units[b.seg] = Sent[4]
        /\ \A u \in TextUnits : u # b.seg => units[u] = new_rt[u]
    BY <1>1, <2>1, <2>2 DEF TextTrue
  <2> HIDE DEF units, b
  <2>5. \A u \in TextUnits : u \in Int
    BY DEF TextUnits
  <2> QED BY <1>1, <1>2, <2>1, <2>3, <2>4, <2>5 DEF TextTrue, units, b
<1> QED BY <1>3, <1>4
\* What is kept of a text that ends is what was sent of it.
LEMMA TextEnds ==
  ASSUME TextsSteady, TextsListed, OnAir, Sent[2].type = 2, NEW n \in 0 .. 2 * TextSegs,
         NEW units, \A u \in 0 .. n - 1 : units[u] \in UnitsOf(station, list, u),
         \A u \in 0 .. n - 2 : units[u] # CR,
         \/ CR \in UnitsOf(station, list, n)
         \/ n = Units(Sent[2]) * TextSegs /\ \A u \in 0 .. n - 1 : units[u] # CR,
         NEW ended, \A u \in 0 .. n - 1 : ended[u] = IF units[u] = CR THEN Nul ELSE units[u]
  PROVE  Upto(ended, n) \in Texts
<1>1. /\ station \in Stations /\ list \in DOMAIN station /\ group \in DOMAIN station[list]
      /\ TextList(station, list)
  BY DEF OnAir, TextList, Sent
<1>2. \A u \in 0 .. n - 1 : u \in TextUnits
  BY SegAssumption DEF TextUnits
<1>3. \A u \in 0 .. n - 1 : units[u] # CR => CR \notin UnitsOf(station, list, u)
  BY <1>1, <1>2 DEF TextsSteady
<1>4. Ends(station, list, n)
  <2>1. \A u \in 0 .. n - 2 : u \in 0 .. n - 1
    OBVIOUS
  <2>2. \A u \in 0 .. n - 2 : CR \notin UnitsOf(station, list, u)
    BY <1>3, <2>1
  <2>3. CASE CR \in UnitsOf(station, list, n)
    BY <2>2, <2>3 DEF Ends
  <2>4. CASE n = Units(Sent[2]) * TextSegs /\ \A u \in 0 .. n - 1 : units[u] # CR
    BY <1>1, <1>3, <2>2, <2>4 DEF Ends, Sent
  <2> QED BY <2>3, <2>4
<1> DEFINE t == Upto(ended, n)
           all == UNION {SentUnit(station, list, u) : u \in TextUnits}
<1>5. \A i \in 1 .. n : i - 1 \in 0 .. n - 1
  OBVIOUS
<1>6. \A u \in 0 .. n - 1 : ended[u] \in SentUnit(station, list, u)
  BY DEF SentUnit
<1>7. t = [i \in 1 .. n |-> ended[i - 1]]
  BY DEF Upto
<1>8. \A i \in 1 .. n : t[i] \in SentUnit(station, list, i - 1)
  BY <1>5, <1>6, <1>7
<1>9. t \in [1 .. n -> all]
  BY <1>2, <1>5, <1>7, <1>8
<1> HIDE DEF t, all
<1> QED BY <1>1, <1>4, <1>8, <1>9 DEF TextsListed, t, all

\* The segments of the list on air, however far they are
LEMMA FilledHere ==
  ASSUME TextsSteady, OnAir, Sent[2].type = 2, station' = station, list' \in list .. list + 1,
         seen' = seen \cup {list}, rt_ab_flag' = Sent[2].ab, next_rt_segment' \in Nat,
         \A u \in 0 .. Units(Sent[2]) * next_rt_segment' - 1 :
           new_rt'[u] \in UnitsOf(station, list, u)
  PROVE  \E L \in DOMAIN station' : Filled(L)'
<1>1. /\ station \in Stations /\ list \in DOMAIN station /\ group \in DOMAIN station[list]
      /\ DOMAIN station \subseteq Nat
  BY StationAssumption DEF OnAir
<1>2. TextList(station, list)
  BY <1>1 DEF TextList, Sent
<1>3. \A k \in seen' : k <= list
  BY <1>1 DEF OnAir
<1>4. \A g \in DOMAIN station[list] :
        station[list][g][2].ab = Sent[2].ab /\ Units(station[list][g][2]) = Units(Sent[2])
  BY <1>1, <1>2 DEF TextsSteady, Sent, Units
<1>5. list <= list'
  BY <1>1
<1>6. PICK L \in DOMAIN station : L = list
  BY <1>1
<1> QED BY <1>1, <1>2, <1>3, <1>4, <1>5, <1>6 DEF Filled, TextList, UnitsOf

LEMMA GroupText ==
  ASSUME TextsSteady, FlagChanges, TextsListed, OnAir, TextTrue, Sent[2].type = 2,
         DecodeGroup2(Sent[2], Sent[3], Sent[4]), station' = station,
         list' \in list .. list + 1, seen' = seen \cup {list}
  PROVE  TextTrue'
<1> DEFINE b == Sent[2]
           units == WithSegment(b, Sent[3], Sent[4])
           full == Awaited(b) /\ b.seg = TextSegs - 1
           crs == {u \in TextUnits : units[u] = CR}
           ended == [u \in TextUnits |-> IF u \in crs THEN Nul ELSE units[u]]
           old == IF Fresh(b) THEN NoRt ELSE rt
           last == CHOOSE u \in crs : \A v \in crs : v <= u
           next == IF Fresh(b) THEN 0 ELSE next_rt_segment
<1>1. /\ rt_ab_flag' = b.ab /\ new_rt' = ended
      /\ rt' = IF crs = {}
               THEN IF full THEN [set |-> TRUE, text |-> Upto(units, Units(b) * TextSegs)] ELSE old
               ELSE [set |-> TRUE, text |-> Upto(ended, last)]
      /\ next_rt_segment' =
           CASE full \/ crs # {} -> 0
             [] ~full /\ crs = {} /\ Awaited(b) -> b.seg + 1
             [] OTHER -> next
  BY DEF DecodeGroup2
<1>2. /\ b.seg \in 0 .. TextSegs - 1
      /\ list \in Nat /\ Units(b) \in 1 .. 2
  BY StationAssumption DEF OnAir, Sent, GroupOK, Units
<1> HIDE DEF b, units, ended, last
<1>3. new_rt' = [u \in TextUnits |-> new_rt'[u]] /\ \A u \in TextUnits : new_rt'[u] # CR
  BY <1>1, CharAssumption DEF ended
<1>4. next_rt_segment' \in 0 .. TextSegs - 1
  BY <1>1, <1>2, SegAssumption DEF TextTrue
<1>5. WellSeen' => WellSeen
  BY <1>2 DEF WellSeen
<1>6. ASSUME WellSeen, next_rt_segment' > 0
      PROVE  \E L \in DOMAIN station' : Filled(L)'
  <2>1. crs = {} /\ ~full
    BY <1>1, <1>6
  <2>2. \A u \in TextUnits : new_rt'[u] = units[u]
    BY <1>1, <2>1 DEF ended
  <2>3. \A u \in 0 .. Units(b) * next_rt_segment' - 1 : u \in TextUnits
    BY <1>2, <1>4, SegAssumption DEF TextUnits
  <2>4. CASE Awaited(b)
    <3>1. next_rt_segment' = b.seg + 1
      BY <1>1, <2>1, <2>4
    <3>2. \A u \in TextUnits : u < Units(b) * (b.seg + 1) => units[u] \in UnitsOf(station, list, u)
      BY <1>6, <2>4, SegmentStored DEF b, units
    <3>3. \A u \in 0 .. Units(b) * next_rt_segment' - 1 : u < Units(b) * (b.seg + 1)
      BY <1>2, <3>1
    <3>4. \A u \in 0 .. Units(b) * next_rt_segment' - 1 : new_rt'[u] \in UnitsOf(station, list, u)
      BY <2>2, <2>3, <3>2, <3>3
    <3> QED BY <1>1, <1>4, <3>4, FilledHere DEF b
  <2>5. CASE ~Awaited(b)
    <3>1. next_rt_segment' = next_rt_segment /\ ~Fresh(b) /\ next_rt_segment > 0
      BY <1>1, <1>6, <2>1, <2>5
    <3>2. units = new_rt
      BY <2>5 DEF units, WithSegment, b
    <3>3. PICK L \in DOMAIN station : Filled(L)
      BY <1>6, <3>1 DEF TextTrue
    <3>4. L = list
      BY <1>6, <3>1, <3>3, SameText DEF b
    <3>5. \A u \in 0 .. Units(b) * next_rt_segment - 1 : new_rt[u] \in UnitsOf(station, list, u)
      BY <3>3, <3>4 DEF Filled, b, Sent, OnAir
    <3>6. \A u \in 0 .. Units(b) * next_rt_segment' - 1 : new_rt'[u] \in UnitsOf(station, list, u)
      BY <2>2, <2>3, <3>1, <3>2, <3>5
    <3> QED BY <1>1, <1>4, <3>6, FilledHere DEF b
  <2> QED BY <2>4, <2>5
<1>7. ASSUME WellSeen, rt'.set
      PROVE  rt'.text \in Texts
  <2> DEFINE lo == Units(b) * b.seg
  <2>1. Awaited(b) =>
          \A u \in TextUnits :
            /\ u < Units(b) * (b.seg + 1) => units[u] \in UnitsOf(station, list, u)
            /\ ~(lo <= u /\ u < Units(b) * (b.seg + 1)) => units[u] # CR
    BY <1>7, SegmentStored DEF b, units
  <2>2. CASE crs = {} /\ full
    <3> DEFINE n == Units(b) * TextSegs
    <3>1. n = Units(b) * (b.seg + 1) /\ n \in 0 .. 2 * TextSegs
      BY <1>2, <2>2, SegAssumption
    <3>2. \A u \in 0 .. n - 1 : u \in TextUnits /\ u < n
      BY <3>1, SegAssumption DEF TextUnits
    <3>3. \A u \in 0 .. n - 1 : units[u] \in UnitsOf(station, list, u) /\ units[u] # CR
      BY <2>1, <2>2, <3>1, <3>2
    <3>4. \A u \in 0 .. n - 2 : u \in 0 .. n - 1
      BY <3>1
    <3>5. Upto(units, n) \in Texts
      BY <3>1, <3>3, <3>4, TextEnds DEF b
    <3> QED BY <1>1, <2>2, <3>5
  <2>3. CASE crs = {} /\ ~full
    <3>1. rt' = rt \/ rt' = NoRt
      BY <1>1, <2>3
    <3> QED BY <1>7, <3>1 DEF NoRt, TextTrue
  <2>4. CASE crs # {}
    <3>1. Awaited(b)
      <4> SUFFICES ASSUME ~Awaited(b) PROVE FALSE
        OBVIOUS
      <4>1. units = new_rt
        BY DEF units, WithSegment, b
      <4> QED BY <2>4, <4>1 DEF TextTrue
    <3>2. \A u \in crs : u \in TextUnits /\ u \in lo .. lo + Units(b) - 1
      BY <1>2, <2>1, <3>1 DEF TextUnits
    <3>3. last \in crs
      <4>1. \E u \in crs : \A v \in crs : v <= u
        <5>1. CASE Units(b) = 2 /\ lo + 1 \in crs
          BY <1>2, <3>2, <5>1
        <5>2. CASE ~(Units(b) = 2 /\ lo + 1 \in crs)
          <6>1. \A u \in crs : u = lo
            BY <1>2, <3>2, <5>2
          <6> QED BY <1>2, <2>4, <6>1
        <5> QED BY <5>1, <5>2
      <4> QED BY <4>1 DEF last
    <3>4. last \in 0 .. 2 * TextSegs /\ last \in TextUnits /\ units[last] = CR
          /\ last < Units(b) * (b.seg + 1) /\ last < lo + 2
      BY <1>2, <3>2, <3>3, SegAssumption DEF TextUnits
    <3>5. \A u \in 0 .. last - 1 : u \in TextUnits /\ u < Units(b) * (b.seg + 1)
      BY <1>2, <3>4, SegAssumption DEF TextUnits
    <3>6. \A u \in 0 .. last - 1 : /\ units[u] \in UnitsOf(station, list, u)
                                   /\ ended[u] = IF units[u] = CR THEN Nul ELSE units[u]
      BY <2>1, <3>1, <3>5 DEF ended
    <3>7. \A u \in 0 .. last - 2 : units[u] # CR
      <4>1. \A u \in 0 .. last - 2 : u \in 0 .. last - 1 /\ ~(lo <= u)
        BY <1>2, <3>4
      <4> QED BY <2>1, <3>1, <3>5, <4>1
    <3>8. CR \in UnitsOf(station, list, last)
      BY <2>1, <3>1, <3>4
    <3>9. Upto(ended, last) \in Texts
      BY <3>4, <3>6, <3>7, <3>8, TextEnds DEF b
    <3> QED BY <1>1, <2>4, <3>9
  <2> QED BY <2>2, <2>3, <2>4
<1> QED BY <1>3, <1>4, <1>5, <1>6, <1>7 DEF TextTrue
\* Every other group leaves the text alone; a list it is of has no text.
LEMMA OtherText ==
  ASSUME TextsSteady, OnAir, TextTrue, UNCHANGED texts, station' = station,
         list' \in list .. list + 1,
         \/ seen' = seen
         \/ seen' = seen \cup {list} /\ Sent[2].type # 2
  PROVE  TextTrue'
<1>1. /\ station \in Stations /\ list \in DOMAIN station /\ DOMAIN station \subseteq Nat
      /\ group \in DOMAIN station[list] /\ list <= list' /\ list \in Nat
  BY StationAssumption DEF OnAir
<1>2. UNCHANGED <<new_rt, next_rt_segment, rt_ab_flag, rt>>
  BY DEF texts
<1>3. WellSeen' => WellSeen
  <2>1. seen' = seen \/ seen' = seen \cup {list}
    OBVIOUS
  <2>2. \A l \in 1 .. list - 1 : l \in 1 .. list' - 1 /\ l # list
    BY <1>1
  <2> QED BY <2>1, <2>2 DEF WellSeen
<1>4. seen' # seen => ~TextList(station, list)
  BY <1>1 DEF TextsSteady, Sent
<1>5. \A k \in seen' : k \in seen \/ ~TextList(station, k)
  BY <1>4
<1>6. ASSUME NEW L \in DOMAIN station, Filled(L) PROVE Filled(L)'
  BY <1>1, <1>2, <1>5, <1>6 DEF Filled, TextList, UnitsOf
<1> QED BY <1>2, <1>3, <1>6 DEF TextTrue

\* The text shown is whole and one the station sent, unless it went on to another
\* with the same flag while nothing was heard: at every station that changes the
\* flag with the text.
THEOREM TextsSent ==
  ASSUME TextsSteady, FlagChanges, TextsListed PROVE Spec => []TextWasSent
<1>1. ASSUME new_rt = NoText, next_rt_segment = 0, rt = NoRt PROVE TextTrue
  BY <1>1, SegAssumption, CharAssumption DEF TextTrue, NoText, NoRt
<1>2. Init => OnAir /\ Aligned /\ TextTrue
  BY <1>1, InitAligned DEF Init
<1>3. OnAir /\ Aligned /\ TextTrue /\ [Next]_vars => (OnAir /\ Aligned /\ TextTrue)'
  <2> SUFFICES ASSUME OnAir, Aligned, TextTrue, [Next]_vars
               PROVE  (OnAir /\ Aligned /\ TextTrue)'
    OBVIOUS
  <2>1. OnAir' /\ Aligned' /\ station' = station /\ list' \in list .. list + 1
    BY AirStep, AlignedStep
  <2>2. CASE Decodes
    <3>1. Sent[2].type \in {0, 2, 8}
      BY StationAssumption DEF OnAir, Sent, GroupOK
    <3>2. CASE Sent[2].type = 2
      <4>1. DecodeGroup2(Sent[2], Sent[3], Sent[4])
        BY <2>2, <3>2 DEF Decodes, DecodeGroup
      <4> QED BY <2>1, <2>2, <3>2, <4>1, GroupText DEF Decodes
    <3>3. CASE Sent[2].type # 2
      <4>1. UNCHANGED texts
        BY <2>2, <3>1, <3>3 DEF Decodes, DecodeGroup, DecodeGroup0, DecodeGroup8
      <4> QED BY <2>1, <2>2, <3>3, <4>1, OtherText DEF Decodes
    <3> QED BY <3>2, <3>3
  <2>3. CASE Idles
    BY <2>1, <2>3, OtherText DEF Idles
  <2>4. CASE Reset
    <3>1. new_rt' = [u \in TextUnits |-> Nul] /\ next_rt_segment' = 0 /\ ~rt'.set
      BY <2>4 DEF Reset, NoText, NoRt
    <3>2. TextTrue'
      BY <3>1, SegAssumption, CharAssumption DEF TextTrue
    <3> QED BY <2>1, <3>2
  <2> QED BY <2>2, <2>3, <2>4, AlignedStep
<1>4. TextTrue => TextWasSent
  BY DEF TextTrue, TextWasSent, WellSeen
<1> QED BY <1>2, <1>3, <1>4, PTL DEF Spec
=============================================================================
