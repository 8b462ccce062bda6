-------------------------------- MODULE Rds --------------------------------
(***************************************************************************)
(* The RDS decoder of libv4l2rds (lib/libv4l2rds/libv4l2rds.c):            *)
(* v4l2_rds_add() puts blocks A, B, C, D together to groups and decodes    *)
(* the programme service name (group 0), the radio text (group 2) and the  *)
(* traffic messages (group 8).  The station and the air, which loses and   *)
(* spoils blocks, are external.  The other fields are decoded on their own *)
(* and are left out.                                                       *)
(***************************************************************************)
EXTENDS Integers, Sequences, FiniteSets, Functions

CONSTANTS
  Stations,    \* sequences of lists of groups: what a station sends, list by list
  Names,       \* the names, texts and messages that are in these lists
  Texts,
  Messages,
  MaxGap,      \* bound on blocks in a row that get lost without notice
  NameSegs,    \* segments of a name: four in libv4l2rds.c
  TextSegs,    \* segments of a radio text: sixteen
  Nul, CR      \* a zero and a carriage return

ASSUME SegAssumption == NameSegs \in Nat \ {0} /\ TextSegs \in Nat \ {0}
ASSUME CharAssumption == Nul # CR

\* What fits into the bits of a group.
GroupOK(g) ==
  /\ g[2].type \in {0, 2, 8}
  /\ g[2].type = 0 => g[2].seg \in 0 .. NameSegs - 1
  /\ g[2].type = 2 => g[2].seg \in 0 .. TextSegs - 1 /\ g[2].ab \in BOOLEAN
  /\ g[2].type = 8 /\ g[2].ver = "A" => g[3].gsi \in 0 .. 3

\* A station sends at least one list, of at least one group each.
ASSUME StationAssumption ==
  \A s \in Stations :
    /\ Len(s) \in Nat \ {0} /\ DOMAIN s = 1 .. Len(s)
    /\ \A l \in DOMAIN s :
         /\ Len(s[l]) \in Nat \ {0} /\ DOMAIN s[l] = 1 .. Len(s[l])
         /\ \A g \in DOMAIN s[l] : GroupOK(s[l][g])

\* A message has a number of data blocks.
ASSUME MessageAssumption == \A m \in Messages : Len(m.data) \in Nat

\* With a whole group missing the next one would complete this one unnoticed.
ASSUME GapAssumption == MaxGap \in 0 .. 3

VARIABLES
  station, list, group, block, \* what is sent: a list, a group of it, a block
  gap,                         \* blocks lost without notice since the last one
  seen,                        \* lists of which a group came
  raw,                         \* rds_data_raw; its length is decode_state
  new_ps, new_ps_valid,        \* characters of the name, and which came twice
  ps,                          \* handle->ps, or <<>> while V4L2_RDS_PS is unset
  new_rt, next_rt_segment, rt_ab_flag,
  rt,                          \* handle->rt up to rt_length, while V4L2_RDS_RT is set
  prev_tmc_group,              \* to compare with; <<>> is a version no group has
  continuity_id, grp_seq_id,
  new_tmc_msg, optional_tmc,   \* the message that is put together, its data blocks
  tmc_msg                      \* the message, while V4L2_RDS_TMC_MG or _SG is set
                               \* (of a head and a block: what set bits there)

air == <<station, list, group, block, gap, seen>>
names == <<new_ps, new_ps_valid, ps>>
texts == <<new_rt, next_rt_segment, rt_ab_flag, rt>>
tmc == <<prev_tmc_group, continuity_id, grp_seq_id, new_tmc_msg, optional_tmc, tmc_msg>>
vars == <<air, raw, names, texts, tmc>>

NamePos == 0 .. 2 * NameSegs - 1
\* Two characters are one unit of a text.
TextUnits == 0 .. 2 * TextSegs - 1
\* Blocks of 28 bits in optional_tmc[112]
DataBlocks == 0 .. 3

NoMessage == [kind |-> "none", head |-> {}, data |-> <<>>]

NoName == [p \in NamePos |-> Nul]
NoText == [u \in TextUnits |-> Nul]
NoRt == [set |-> FALSE, text |-> <<>>]
NoData == [i \in DataBlocks |-> {}]

-----------------------------------------------------------------------------
(* Group 0: the name.  b.seg is the segment, d holds its two characters. *)

\* Mutant: a new character leaves the validation of the others alone.
AddPsKeeps(s, pos, ch) ==
  IF ch = s.chars[pos] THEN [s EXCEPT !.valid[pos] = TRUE]
  ELSE [chars |-> [s.chars EXCEPT ![pos] = ch], valid |-> s.valid]

\* rds_add_ps(): a character is valid when it came twice in a row; a new one
\* makes all others wait for a second time again.
AddPs(s, pos, ch) ==
  IF ch = s.chars[pos] THEN [s EXCEPT !.valid[pos] = TRUE]
  ELSE [chars |-> [s.chars EXCEPT ![pos] = ch], valid |-> [p \in NamePos |-> FALSE]]

DecodeGroup0(b, c, d) ==
  LET one == AddPs([chars |-> new_ps, valid |-> new_ps_valid], 2 * b.seg, d[1])
      two == AddPs(one, 2 * b.seg + 1, d[2])
  IN  /\ new_ps' = two.chars /\ new_ps_valid' = two.valid
      /\ ps' = IF \A p \in NamePos : two.valid[p]
               THEN [i \in 1 .. 2 * NameSegs |-> two.chars[i - 1]] ELSE ps
      /\ UNCHANGED <<texts, tmc>>

-----------------------------------------------------------------------------
(* Group 2: the text.  A group of version A brings two units, in c and d,  *)
(* one of version B brings one, in d.                                      *)

Units(b) == IF b.ver = "A" THEN 2 ELSE 1

Fresh(b) == b.ab # rt_ab_flag

\* Mutant: any segment is taken.
AwaitedAny(b) == b.seg \in 0 .. TextSegs

\* The segment that is awaited; the first one starts a text at any time.
Awaited(b) == b.seg = 0 \/ b.seg = (IF Fresh(b) THEN 0 ELSE next_rt_segment)

WithSegment(b, c, d) ==
  IF ~Awaited(b) THEN new_rt
  ELSE IF b.ver = "A"
       THEN [new_rt EXCEPT ![2 * b.seg] = c, ![2 * b.seg + 1] = d]
       ELSE [new_rt EXCEPT ![b.seg] = d]

Upto(u, n) == [i \in 1 .. n |-> u[i - 1]]

DecodeGroup2(b, c, d) ==
  LET units == WithSegment(b, c, d)
      full == Awaited(b) /\ b.seg = TextSegs - 1
      crs == {u \in TextUnits : units[u] = CR}
      ended == [u \in TextUnits |-> IF u \in crs THEN Nul ELSE units[u]]
      old == IF Fresh(b) THEN NoRt ELSE rt
      whole == IF full THEN [set |-> TRUE, text |-> Upto(units, Units(b) * TextSegs)] ELSE old
  IN  /\ rt_ab_flag' = b.ab
      /\ new_rt' = ended
      /\ rt' = IF crs = {} THEN whole
               ELSE LET last == CHOOSE u \in crs : \A v \in crs : v <= u
                    IN  [set |-> TRUE, text |-> Upto(ended, last)]
      /\ next_rt_segment' =
           CASE full \/ crs # {} -> 0
             [] ~full /\ crs = {} /\ Awaited(b) -> b.seg + 1
             [] OTHER -> IF Fresh(b) THEN 0 ELSE next_rt_segment
      /\ UNCHANGED <<names, tmc>>

-----------------------------------------------------------------------------
(* Group 8: traffic messages.  Of a single group, b.single, c and d are the *)
(* message.  Otherwise c.first, c.second and c.gsi tell where the group     *)
(* belongs, b.ci to which message, and c.data with d are the head or data.  *)
(* A group of b.tuning brings tuning information, a field of its own.       *)

\* Mutant: the continuity index is not looked at.
ContinuesAny(b) == b.ci \in Nat

\* The group belongs to the message whose first group came last.
Continues(b) == b.ci = continuity_id

SingleGroup(b, c, d) ==
  /\ tmc_msg' = [kind |-> "single", head |-> {<<c.data, d>>}, data |-> <<>>]
  /\ UNCHANGED <<continuity_id, grp_seq_id, new_tmc_msg, optional_tmc>>

FirstGroup(b, c, d) ==
  /\ c.first
  /\ continuity_id' = b.ci
  /\ new_tmc_msg' = [head |-> {<<c.data, d>>}, length |-> 0]
  /\ optional_tmc' = NoData
  /\ UNCHANGED <<grp_seq_id, tmc_msg>>

\* rds_tmc_decode_additional() reads the data from the start.
Additional(n, blocks) == [i \in 1 .. n |-> blocks[i - 1]]

\* Message and blocks once the bits of data block `at' are set, n blocks in all.
\* A fifth block lies behind the array: its bits are set in the head and in the
\* length of the message, and where the length is read anew, the rest in block 1.
Stored(bits, at, n) ==
  LET msg(h, l) == [head |-> h, length |-> l]
      into(i) == [optional_tmc EXCEPT ![i] = @ \cup {bits}]
      head == new_tmc_msg.head
  IN  IF at \in DataBlocks THEN {<<msg(head, n), into(at)>>}
      ELSE {<<msg(h, l), optional_tmc>> : h \in {head, head \cup {bits}}, l \in {n, 1}}
             \cup {<<msg(head, 1), into(1)>>}

\* The message is done at gsi 0.
Store(c, d, at, n) ==
  \E s \in Stored(<<c.data, d>>, at, n) :
    /\ grp_seq_id' = c.gsi
    /\ new_tmc_msg' = s[1] /\ optional_tmc' = s[2]
    /\ tmc_msg' = IF c.gsi # 0 THEN tmc_msg
                  ELSE [kind |-> "multi", head |-> s[1].head,
                        data |-> Additional(s[1].length, s[2])]
    /\ UNCHANGED continuity_id

SecondGroup(b, c, d) == ~c.first /\ c.second /\ Continues(b) /\ Store(c, d, 0, 1)

\* The length is incremented before it is used as the place of the block.
NextGroup(b, c, d) ==
  /\ ~c.first /\ ~(c.second /\ Continues(b))
  /\ Continues(b) /\ c.gsi = grp_seq_id - 1
  /\ Store(c, d, new_tmc_msg.length + 1, new_tmc_msg.length + 1)

NoGroup(b, c, d) ==
  /\ ~c.first /\ ~(Continues(b) /\ (c.second \/ c.gsi = grp_seq_id - 1))
  /\ UNCHANGED <<continuity_id, grp_seq_id, new_tmc_msg, optional_tmc, tmc_msg>>

\* A group counts when it came twice in a row, and then not a third time.
DecodeGroup8(a, b, c, d) ==
  LET message == <<continuity_id, grp_seq_id, new_tmc_msg, optional_tmc, tmc_msg>>
      twice == prev_tmc_group = <<a, b, c, d>>
  IN  /\ UNCHANGED <<names, texts>>
      /\ prev_tmc_group' = IF b.ver # "A" THEN prev_tmc_group
                           ELSE IF twice THEN <<>> ELSE <<a, b, c, d>>
      /\ IF b.ver # "A" \/ ~twice \/ b.tuning THEN UNCHANGED message
         ELSE IF b.single THEN SingleGroup(b, c, d)
         ELSE FirstGroup(b, c, d) \/ SecondGroup(b, c, d)
              \/ NextGroup(b, c, d) \/ NoGroup(b, c, d)

-----------------------------------------------------------------------------
(* v4l2_rds_add() *)

DecodeGroup(a, b, c, d) ==
  CASE b.type = 0 -> DecodeGroup0(b, c, d)
    [] b.type = 2 -> DecodeGroup2(b, c, d)
    [] b.type = 8 -> DecodeGroup8(a, b, c, d)

\* A block that is not the expected one, or spoilt, empties the decoder; even
\* a block A is then lost, and a block C' (id 4) is taken as a C.
Add(id, v) ==
  LET expected == id = Len(raw) \/ (id = 4 /\ Len(raw) = 2)
  IN  IF expected /\ Len(raw) = 3
        THEN /\ raw' = <<>>
             /\ DecodeGroup(raw[1], raw[2], raw[3], v)
        ELSE /\ raw' = IF expected THEN Append(raw, v) ELSE <<>>
             /\ UNCHANGED <<names, texts, tmc>>

\* v4l2_rds_reset(): all is as calloc() made it.
Reset ==
  /\ raw' = <<>>
  /\ new_ps' = NoName /\ new_ps_valid' = [p \in NamePos |-> FALSE] /\ ps' = <<>>
  /\ new_rt' = NoText /\ next_rt_segment' = 0 /\ rt_ab_flag' = FALSE /\ rt' = NoRt
  /\ prev_tmc_group' = <<>> /\ continuity_id' = 0 /\ grp_seq_id' = 0
  /\ new_tmc_msg' = [head |-> {}, length |-> 0] /\ optional_tmc' = NoData
  /\ tmc_msg' = NoMessage
  /\ UNCHANGED air

-----------------------------------------------------------------------------
(* The station and the air (external). *)

Sent == station[list][group]
IdOf(b) == IF b = 2 /\ Sent[2].ver = "B" THEN 4 ELSE b

\* The next block; the station goes on to its next list after any group.
Advance ==
  /\ UNCHANGED station
  /\ \/ /\ block < 3 /\ block' = block + 1
        /\ UNCHANGED <<list, group>>
     \/ /\ block = 3 /\ block' = 0
        /\ \/ /\ group' = IF group = Len(station[list]) THEN 1 ELSE group + 1
              /\ UNCHANGED list
           \/ /\ list < Len(station)
              /\ list' = list + 1 /\ group' = 1

Receive ==
  /\ Add(IdOf(block), Sent[block + 1])
  /\ gap' = 0
  /\ seen' = IF block = 3 /\ Len(raw) = 3 THEN seen \cup {list} ELSE seen
  /\ Advance

\* The block comes with V4L2_RDS_BLOCK_ERROR, or as one more invalid block.
Spoil ==
  /\ Add(-1, Nul)
  /\ gap' = 0
  /\ Advance
  /\ UNCHANGED seen

\* The block does not come at all.
Lose ==
  /\ gap < MaxGap /\ gap' = gap + 1
  /\ Advance
  /\ UNCHANGED <<seen, raw, names, texts, tmc>>

-----------------------------------------------------------------------------
Init ==
  /\ station \in Stations
  /\ list = 1 /\ group = 1 /\ block = 0 /\ gap = 0 /\ seen = {}
  /\ raw = <<>>
  /\ new_ps = NoName /\ new_ps_valid = [p \in NamePos |-> FALSE] /\ ps = <<>>
  /\ new_rt = NoText /\ next_rt_segment = 0 /\ rt_ab_flag = FALSE /\ rt = NoRt
  /\ prev_tmc_group = <<>> /\ continuity_id = 0 /\ grp_seq_id = 0
  /\ new_tmc_msg = [head |-> {}, length |-> 0] /\ optional_tmc = NoData
  /\ tmc_msg = NoMessage

Next == Receive \/ Spoil \/ Lose \/ Reset

Spec == Init /\ [][Next]_vars

-----------------------------------------------------------------------------
(* The name shown is one the station sent, however many blocks are lost    *)
(* and wherever the station changes its name: rds_add_ps() never lets one  *)
(* half of each pass.  It is so for names that differ in every segment; a  *)
(* segment they have in common is validated by either.                     *)
NameWasSent == ps # <<>> => ps \in Names

(* The radio text shown is whole and one that was sent, whatever is lost,  *)
(* unless every group of a text between two with the same A/B flag was:    *)
(* rds_decode_group2() drops its segments when the flag changes only.      *)
TextWasSent ==
  rt.set /\ (\A l \in 1 .. list - 1 : l \in seen) => rt.text \in Texts

Shown == tmc_msg.kind = "multi"

(* A traffic message of several groups is never put together from groups   *)
(* of different messages, whichever groups are lost, and up to four groups *)
(* its head is what was sent as such: rds_decode_tmc_multi_group() goes by *)
(* the continuity index, which must differ from the last message's and,    *)
(* after a reset, from 0.  With five groups the last one is stored over    *)
(* the head (HeadKept), so that the head is then of the message only.      *)
MessageUnmixed ==
  Shown =>
    \E m \in Messages :
      /\ m.head \in tmc_msg.head
      /\ tmc_msg.head \subseteq {m.head} \cup UNION Range(m.data)
      /\ Len(m.data) < Cardinality(DataBlocks) => tmc_msg.head = {m.head}
      /\ \A i \in DOMAIN tmc_msg.data : tmc_msg.data[i] \subseteq UNION Range(m.data)

(* "(up to) 4 blocks of 28 bits each, which are to be treated as a         *)
(* consecutive bit-array" (libv4l2rds.c:335): a message is shown whole.    *)
MessageWhole ==
  Shown => \E m \in Messages : tmc_msg.head = {m.head} /\ tmc_msg.data = m.data

(* "buffer for up to 112 bits [...] (112 is the maximal possible length    *)
(* specified by the standard)" (libv4l2rds.c:57): whatever is stored there *)
(* leaves event and location of the message as they were sent.  With five  *)
(* groups that fails, as README.md tells, so that no run has it.           *)
HeadKept == Shown => \E m \in Messages : tmc_msg.head = {m.head}
=============================================================================
