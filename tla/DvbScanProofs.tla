---------------------------- MODULE DvbScanProofs ----------------------------
(***************************************************************************)
(* What TLAPS proves of DvbScan for every broadcast, every number of       *)
(* buffers and of failures.                                                *)
(*                                                                         *)
(* Sections are of the table that is read because those left over from the *)
(* last one are flushed before its filter is replaced (OneTable); and the  *)
(* buffers add up because none is at two places (Apart).  A read has all   *)
(* sections of its table: their numbers are set in the bits (Counted), or  *)
(* the carousel has turned since the first one of each extension (Turned). *)
(***************************************************************************)
EXTENDS DvbScan, FiniteSetTheorems, TLAPS

\* Where sections of which table are.
OneTable ==
  /\ pc = "init" => rd = "idle"
  /\ pc = "end" => rd \in {"idle", "deinit"}
  /\ rd = "deinit" => stream /\ pc = "end"
  /\ rd \in {"poll", "held"} => \A i \in DOMAIN done : done[i].section.key = key
  /\ rd # "held" => held = <<>>
  /\ rd = "held" => Len(held) = 1 /\ held[1].section.key = key
  /\ filter # None => /\ filter = key /\ pos \in DOMAIN Air[filter]
                      /\ rd \in {"poll", "held", "stop"}
  /\ rd = "flush" => stream
  /\ stream /\ rd \in {"idle", "back", "deinit"} => done = <<>>

\* A buffer is queued, filled, in the reader's hand or lost.
OnePlace ==
  /\ \A i \in DOMAIN done : done[i].buf \in Bufs \ queued
  /\ \A i, j \in DOMAIN done : done[i].buf = done[j].buf => i = j
  /\ held # <<>> => /\ held[1].buf \in Bufs \ queued
                    /\ \A i \in DOMAIN done : done[i].buf # held[1].buf
Apart == stream => OnePlace

IInv == TypeOK /\ OneTable /\ Apart /\ BuffersAccounted

-----------------------------------------------------------------------------
(* Helpers of the model. *)

LEMMA SectionOnAir ==
  ASSUME NEW k \in DOMAIN Air, NEW i \in DOMAIN Air[k]
  PROVE  SectionAt(k, i) \in Sections /\ SectionAt(k, i).key = k
  BY DEF SectionAt, Sections

LEMMA SectionFields ==
  ASSUME NEW h \in Sections
  PROVE  /\ h.ext \in Exts
         /\ h.sec \in Nat /\ h.last \in Nat
         /\ h.key \in DOMAIN Air
  BY AirAssumption DEF Sections, SectionAt, Exts

\* dvb_parse_section() keeps the types of what it knows of the extensions.
LEMMA ParseTyped ==
  ASSUME TypeOK, NEW h \in Sections, ParseSection(h)
  PROVE  /\ key' = key /\ tsid' = tsid /\ gaps' = gaps
         /\ ret' \in {-1, 0, 1}
         /\ twice' \in BOOLEAN
         /\ DOMAIN ext' \subseteq Exts
         /\ \A e \in DOMAIN ext' :
              ext'[e] \in [first : Nat, last : Nat, bits : SUBSET Nat, done : BOOLEAN]
         /\ parsed' \subseteq Exts \X Nat
<1> DEFINE Ext == [first : Nat, last : Nat, bits : SUBSET Nat, done : BOOLEAN]
<1>1. h.ext \in Exts /\ h.sec \in Nat /\ h.last \in Nat
  BY SectionFields
<1>2. NewExt(h) \in Ext
  BY <1>1 DEF NewExt
<1>3. Known(h) => ext[h.ext] \in Ext
  BY DEF TypeOK, SectTyped, Known
<1>5. Stored(h) \in Ext
  <2> DEFINE e == IF Known(h) THEN ext[h.ext] ELSE NewExt(h)
             bits == IF Counting THEN e.bits \cup {h.sec} ELSE e.bits
             whole == Counting /\ AllBitsSet(e.last, bits)
  <2>1. e \in Ext
    BY <1>2, <1>3
  <2>2. bits \in SUBSET Nat
    BY <2>1, <1>1
  <2>3. whole \in BOOLEAN
    BY DEF AllBitsSet
  <2>4. Stored(h) = [e EXCEPT !.bits = bits, !.done = whole]
    BY DEF Stored
  <2> HIDE DEF e, bits, whole
  <2> QED BY <2>1, <2>2, <2>3, <2>4
<1>6. Known(h) => [ext[h.ext] EXCEPT !.done = TRUE] \in Ext
  BY <1>3
<1>7. ASSUME NEW r \in Ext, ext' = Put(h.ext, r)
      PROVE  /\ DOMAIN ext' \subseteq Exts
             /\ \A e \in DOMAIN ext' : ext'[e] \in Ext
  BY <1>1, <1>7 DEF Put, TypeOK, SectTyped
<1>8. Repeated(h) => Known(h)
  BY DEF Repeated
<1>9. /\ DOMAIN ext' \subseteq Exts
      /\ \A e \in DOMAIN ext' : ext'[e] \in Ext
  <2>1. CASE UNCHANGED ext
    BY <2>1 DEF TypeOK, SectTyped
  <2>2. CASE ext' = Put(h.ext, IF Repeated(h) THEN [ext[h.ext] EXCEPT !.done = TRUE]
                                              ELSE Stored(h))
    BY <2>2, <1>5, <1>6, <1>7, <1>8
  <2> QED BY <2>1, <2>2 DEF ParseSection
<1>10. parsed' \subseteq Exts \X Nat
  BY <1>1 DEF ParseSection, TypeOK, SectTyped
<1>11. twice' \in BOOLEAN
  BY DEF ParseSection, TypeOK, SectTyped
<1>12. ret' \in {-1, 0, 1}
  BY DEF ParseSection, Verdict
<1>13. key' = key /\ tsid' = tsid /\ gaps' = gaps
  BY DEF ParseSection
<1> QED BY <1>9, <1>10, <1>11, <1>12, <1>13

\* The queue is finite; a buffer goes in or comes out.
LEMMA QueuedFinite ==
  ASSUME TypeOK
  PROVE  IsFiniteSet(queued) /\ Cardinality(queued) \in Nat
<1>1. IsFiniteSet(Bufs)
  BY BufAssumption, FS_Interval DEF Bufs
<1> QED BY <1>1, FS_Subset, FS_CardinalityType DEF TypeOK, BufsTyped

LEMMA QueuedOneMore ==
  ASSUME TypeOK, NEW b, b \notin queued
  PROVE  Cardinality(queued \cup {b}) = Cardinality(queued) + 1
  BY QueuedFinite, FS_AddElement

LEMMA QueuedOneLess ==
  ASSUME TypeOK, NEW b \in queued
  PROVE  Cardinality(queued \ {b}) = Cardinality(queued) - 1
  BY QueuedFinite, FS_RemoveElement

-----------------------------------------------------------------------------
(* Reading a table. *)

\* The state a read starts from and ends in: what was flushed stays away.
LEMMA StartReadStep ==
  ASSUME IInv, NEW k \in DOMAIN Air, NEW t \in TsIds \cup {NoTs}, NEW g \in BOOLEAN,
         pc \notin {"init", "end"}, StartRead(k, t, g)
  PROVE  IInv'
<1> USE DEF IInv, TypeOK
<1>1. /\ rd = "idle" /\ rd' \in {"poll", "back"} /\ ret' \in {-1, 0}
      /\ UNCHANGED <<pc, prog, nprog, stream, atsc, other, vct, abort>>
  BY DEF StartRead, ctl
<1>2. ScanTyped'
  BY <1>1 DEF ScanTyped
<1>3. /\ key' = k /\ tsid' = t /\ gaps' = g
      /\ ext' = <<>> /\ parsed' = {} /\ twice' = FALSE
  BY DEF StartRead
<1>4. SectTyped'
  <2>1. ext' = <<>> /\ DOMAIN ext' = {}
    BY <1>3
  <2> QED BY <1>3, <2>1 DEF SectTyped
<1>5. UNCHANGED <<held, bufcnt, flag, queued, dropped, cut, spoilt>>
  BY DEF StartRead, bufs, ghost
<1>6. \/ /\ rd' = "poll"
         /\ filter' = k /\ pos' \in DOMAIN Air[k]
         /\ done' = (IF stream THEN done ELSE <<>>)
         /\ faults' = faults
      \/ /\ faults < MaxFaults /\ faults' = faults + 1
         /\ rd' = "back"
         /\ UNCHANGED <<filter, pos, done>>
  BY DEF StartRead, Fault
<1>7. BufsTyped'
  <2>1. pos' \in Nat
    BY <1>6, AirAssumption DEF BufsTyped
  <2>2. faults' \in 0 .. MaxFaults
    BY <1>6, BufAssumption DEF BufsTyped
  <2>3. done' \in Seq(Taken)
    <3>1. done' = done \/ done' = <<>>
      BY <1>6
    <3>2. <<>> \in Seq(Taken)
      OBVIOUS
    <3> QED BY <3>1, <3>2 DEF BufsTyped
  <2>4. filter' \in DOMAIN Air \cup {None}
    BY <1>6 DEF BufsTyped
  <2> QED BY <1>5, <2>1, <2>2, <2>3, <2>4 DEF BufsTyped
<1>8. OneTable'
  BY <1>1, <1>3, <1>5, <1>6, NameAssumption DEF OneTable, None
<1>9. Apart'
  BY <1>1, <1>5, <1>6 DEF Apart, OnePlace
<1>10. BuffersAccounted'
  BY <1>1, <1>5, <1>6 DEF BuffersAccounted
<1> QED BY <1>2, <1>4, <1>7, <1>8, <1>9, <1>10

LEMMA PollEndsStep == ASSUME IInv, PollEnds PROVE IInv'
<1> USE DEF IInv, TypeOK
<1>1. /\ rd = "poll" /\ rd' = "stop" /\ ret' \in {-1, 0}
      /\ UNCHANGED <<pc, prog, nprog, stream, atsc, other, vct, abort>>
      /\ UNCHANGED <<key, tsid, gaps, ext, parsed, twice>>
      /\ UNCHANGED <<held, bufcnt, flag, filter, pos, queued, done>>
      /\ UNCHANGED <<dropped, cut, spoilt>>
      /\ faults' = faults \/ (faults < MaxFaults /\ faults' = faults + 1)
  BY DEF PollEnds, ctl, sect, bufs, demux, ghost, Fault
<1>2. ScanTyped' /\ SectTyped'
  BY <1>1 DEF ScanTyped, SectTyped
<1>3. BufsTyped'
  BY <1>1, BufAssumption DEF BufsTyped
<1>4. OneTable' /\ Apart' /\ BuffersAccounted'
  BY <1>1 DEF OneTable, Apart, OnePlace, BuffersAccounted
<1> QED BY <1>2, <1>3, <1>4

\* The oldest of the filled buffers, and the others behind it
LEMMA DoneHead ==
  ASSUME TypeOK, done # <<>>
  PROVE  /\ Head(done) \in Taken /\ Head(done) = done[1] /\ 1 \in DOMAIN done
         /\ Tail(done) \in Seq(Taken) /\ Len(Tail(done)) = Len(done) - 1
         /\ Len(done) \in Nat
         /\ \A i \in DOMAIN Tail(done) : i + 1 \in DOMAIN done /\ Tail(done)[i] = done[i + 1]
         /\ \A i \in DOMAIN Tail(done) : i \in Nat \ {0}
  BY DEF TypeOK, BufsTyped

LEMMA DequeueStep == ASSUME IInv, Dequeue PROVE IInv'
<1> USE DEF IInv, TypeOK
<1> DEFINE d == Head(done)
<1>1. /\ rd = "poll" /\ rd' = "held" /\ done # <<>>
      /\ held' = <<d>> /\ done' = Tail(done)
      /\ flag' = (IF stream THEN [flag EXCEPT ![d.buf] = FALSE] ELSE flag)
      /\ UNCHANGED <<pc, prog, nprog, stream, atsc, other, vct, abort, ret>>
      /\ UNCHANGED <<key, tsid, gaps, ext, parsed, twice>>
      /\ UNCHANGED <<bufcnt, filter, pos, queued, dropped, cut, spoilt, faults>>
  BY DEF Dequeue, ctl, sect, ghost
<1>2. /\ d \in Taken /\ d = done[1] /\ 1 \in DOMAIN done
      /\ Tail(done) \in Seq(Taken) /\ Len(Tail(done)) = Len(done) - 1
      /\ Len(done) \in Nat
      /\ \A i \in DOMAIN Tail(done) : i + 1 \in DOMAIN done /\ Tail(done)[i] = done[i + 1]
      /\ \A i \in DOMAIN Tail(done) : i \in Nat \ {0}
  BY <1>1, DoneHead
<1> HIDE DEF d
<1>3. held' \in Seq(Taken) /\ Len(held') = 1 /\ held'[1] = d /\ held' # <<>>
  BY <1>1, <1>2
<1>4. ScanTyped' /\ SectTyped'
  BY <1>1 DEF ScanTyped, SectTyped
<1>5. BufsTyped'
  BY <1>1, <1>2, <1>3 DEF BufsTyped
<1>6. OneTable'
  BY <1>1, <1>2, <1>3 DEF OneTable
<1>7. Apart'
  <2> SUFFICES ASSUME stream PROVE OnePlace'
    BY <1>1 DEF Apart, OnePlace
  <2>1. /\ \A i \in DOMAIN done : done[i].buf \in Bufs \ queued
        /\ \A i, j \in DOMAIN done : done[i].buf = done[j].buf => i = j
    BY DEF Apart, OnePlace
  <2>2. \A i \in DOMAIN Tail(done) : Tail(done)[i].buf \in Bufs \ queued
    BY <1>2, <2>1
  <2>3. \A i, j \in DOMAIN Tail(done) :
          Tail(done)[i].buf = Tail(done)[j].buf => i + 1 = j + 1
    BY <1>2, <2>1
  <2>4. \A i \in DOMAIN Tail(done) : Tail(done)[i].buf # d.buf
    BY <1>2, <2>1
  <2> QED BY SMTT(30), <1>1, <1>2, <1>3, <2>1, <2>2, <2>3, <2>4 DEF Apart, OnePlace
<1>8. BuffersAccounted'
  <2>1. held = <<>> /\ Len(held) = 0
    BY <1>1 DEF OneTable
  <2> SUFFICES ASSUME stream'
               PROVE  bufcnt' = Cardinality(queued') + Len(done') + Len(held') + spoilt'
    BY DEF BuffersAccounted
  <2>2. bufcnt = Cardinality(queued) + Len(done) + 0 + spoilt
    BY <1>1, <2>1 DEF BuffersAccounted
  <2>3. Cardinality(queued) \in Nat /\ spoilt \in Nat
    BY QueuedFinite DEF BufsTyped
  <2> QED BY <1>1, <1>2, <1>3, <2>2, <2>3
<1> QED BY <1>4, <1>5, <1>6, <1>7, <1>8

LEMMA BadSectionStep == ASSUME IInv, BadSection PROVE IInv'
<1> USE DEF IInv, TypeOK
<1>1. /\ rd = "held" /\ rd' = "stop" /\ ret' \in {-1, -2, -3} /\ held' = <<>>
      /\ UNCHANGED <<pc, prog, nprog, stream, atsc, other, vct, abort>>
      /\ UNCHANGED <<key, tsid, gaps, ext, parsed, twice>>
      /\ UNCHANGED <<bufcnt, flag, filter, pos, queued, done, dropped, cut>>
      /\ spoilt' = spoilt + 1
      /\ faults < MaxFaults /\ faults' = faults + 1
  BY DEF BadSection, ctl, sect, bufs, demux, Fault
<1>2. ScanTyped' /\ SectTyped'
  BY <1>1 DEF ScanTyped, SectTyped
<1>3. BufsTyped'
  BY <1>1, BufAssumption DEF BufsTyped
<1>4. OneTable' /\ Apart'
  <2>1. OneTable'
    BY <1>1 DEF OneTable
  <2>2. Apart'
    BY <1>1 DEF Apart, OnePlace
  <2> QED BY <2>1, <2>2
<1>5. Len(held) = 1 /\ Len(held') = 0
  BY <1>1 DEF OneTable
<1>6. BuffersAccounted'
  <2> SUFFICES ASSUME stream'
               PROVE  bufcnt' = Cardinality(queued') + Len(done') + Len(held') + spoilt'
    BY DEF BuffersAccounted
  <2>1. bufcnt = Cardinality(queued) + Len(done) + 1 + spoilt
    BY <1>1, <1>5 DEF BuffersAccounted
  <2>2. Cardinality(queued) \in Nat /\ Len(done) \in Nat /\ spoilt \in Nat
    BY QueuedFinite DEF BufsTyped
  <2> QED BY <1>1, <1>5, <2>1, <2>2
<1> QED BY <1>2, <1>3, <1>4, <1>6

LEMMA HandleStep == ASSUME IInv, Handle PROVE IInv'
<1> USE DEF IInv, TypeOK
<1> DEFINE h == Head(held)
<1>1. rd = "held" /\ ParseSection(h.section)
  BY DEF Handle
<1>2. Len(held) = 1 /\ h \in Taken /\ h = held[1] /\ held # <<>>
  <2>1. Len(held) = 1
    BY <1>1 DEF OneTable
  <2>2. held \in Seq(Taken)
    BY DEF BufsTyped
  <2> QED BY <2>1, <2>2
<1>3. h.section \in Sections /\ h.buf \in 0 .. NBuf
  BY <1>2 DEF Taken
<1>4. /\ key' = key /\ tsid' = tsid /\ gaps' = gaps
      /\ ret' \in {-1, 0, 1}
      /\ twice' \in BOOLEAN
      /\ DOMAIN ext' \subseteq Exts
      /\ \A e \in DOMAIN ext' :
           ext'[e] \in [first : Nat, last : Nat, bits : SUBSET Nat, done : BOOLEAN]
      /\ parsed' \subseteq Exts \X Nat
  BY <1>1, <1>3, ParseTyped
<1>5. stream => h.buf \in Bufs \ queued
  BY <1>2 DEF Apart, OnePlace
<1>6. /\ held' = <<>> /\ Len(held') = 0 /\ rd' \in {"poll", "stop"}
      /\ UNCHANGED <<pc, prog, nprog, stream, atsc, other, vct, abort>>
      /\ UNCHANGED <<bufcnt, filter, pos, done, dropped>>
  BY DEF Handle, ctl
<1>7. \/ /\ queued' = (IF stream THEN queued \cup {h.buf} ELSE queued)
         /\ flag' = (IF stream THEN [flag EXCEPT ![h.buf] = TRUE] ELSE flag)
         /\ UNCHANGED <<cut, spoilt, faults>>
      \/ /\ faults < MaxFaults /\ faults' = faults + 1
         /\ cut' = TRUE /\ spoilt' = spoilt + 1
         /\ UNCHANGED <<queued, flag>>
  BY DEF Handle, Fault
<1> HIDE DEF h
<1>8. ScanTyped'
  BY <1>4, <1>6 DEF ScanTyped
<1>9. SectTyped'
  BY <1>4 DEF SectTyped
<1>10. BufsTyped'
  <2>1. queued' \subseteq Bufs
    BY <1>7, <1>5 DEF BufsTyped
  <2>2. flag' \in [Bufs -> BOOLEAN]
    BY <1>7, <1>5 DEF BufsTyped
  <2>3. cut' \in BOOLEAN
    <3>1. cut' = cut \/ cut' = TRUE
      BY <1>7
    <3> QED BY <3>1 DEF BufsTyped
  <2>5. spoilt' \in Nat /\ faults' \in 0 .. MaxFaults
    BY <1>7, BufAssumption DEF BufsTyped
  <2>4. held' \in Seq(Taken)
    BY <1>6
  <2> QED BY <1>6, <2>1, <2>2, <2>3, <2>4, <2>5 DEF BufsTyped
<1>11. OneTable'
  BY <1>1, <1>4, <1>6 DEF OneTable
<1>12. Apart'
  BY <1>2, <1>5, <1>6, <1>7 DEF Apart, OnePlace
<1>13. BuffersAccounted'
  <2> SUFFICES ASSUME stream'
               PROVE  bufcnt' = Cardinality(queued') + Len(done') + Len(held') + spoilt'
    BY DEF BuffersAccounted
  <2>1. bufcnt = Cardinality(queued) + Len(done) + 1 + spoilt
    BY <1>2, <1>6 DEF BuffersAccounted
  <2>2. Cardinality(queued \cup {h.buf}) = Cardinality(queued) + 1 /\ Cardinality(queued) \in Nat
    BY <1>5, <1>6, QueuedOneMore, QueuedFinite
  <2>3. Len(done) \in Nat /\ spoilt \in Nat
    BY DEF BufsTyped
  <2>4. CASE queued' = queued \cup {h.buf} /\ spoilt' = spoilt
    BY <2>1, <2>2, <2>3, <2>4, <1>6
  <2>5. CASE queued' = queued /\ spoilt' = spoilt + 1
    BY <2>1, <2>2, <2>3, <2>5, <1>6
  <2> QED BY <2>4, <2>5, <1>6, <1>7
<1> QED BY <1>8, <1>9, <1>10, <1>11, <1>12, <1>13

LEMMA StopReadStep == ASSUME IInv, StopRead PROVE IInv'
<1> USE DEF IInv, TypeOK
<1>1. /\ rd = "stop" /\ rd' = (IF stream THEN "flush" ELSE "back")
      /\ filter' = None /\ pos' = 1
      /\ UNCHANGED <<pc, prog, nprog, stream, atsc, other, vct, abort, ret>>
      /\ UNCHANGED <<key, tsid, gaps, ext, parsed, twice>>
      /\ UNCHANGED <<held, bufcnt, flag, queued, done, dropped, cut, spoilt, faults>>
  BY DEF StopRead, ctl, sect, bufs, ghost
<1>2. ScanTyped' /\ SectTyped'
  BY <1>1 DEF ScanTyped, SectTyped
<1>3. BufsTyped'
  BY <1>1 DEF BufsTyped
<1>4. OneTable'
  BY <1>1 DEF OneTable
<1>5. Apart' /\ BuffersAccounted'
  BY <1>1 DEF Apart, OnePlace, BuffersAccounted
<1> QED BY <1>2, <1>3, <1>4, <1>5

LEMMA FlushStep == ASSUME IInv, Flush PROVE IInv'
<1> USE DEF IInv, TypeOK
<1> DEFINE d == Head(done)
<1>1. /\ rd = "flush"
      /\ UNCHANGED <<pc, prog, nprog, stream, atsc, other, vct, abort, ret>>
      /\ UNCHANGED <<key, tsid, gaps, ext, parsed, twice>>
      /\ UNCHANGED <<held, bufcnt, flag, filter, pos, dropped, cut>>
  BY DEF Flush, ctl, sect, bufs
<1>2. held = <<>> /\ Len(held) = 0 /\ filter = None
  BY <1>1 DEF OneTable
<1>3. CASE done = <<>> /\ rd' = "back" /\ UNCHANGED <<queued, done, spoilt, faults>>
  <2>1. ScanTyped' /\ SectTyped'
    BY <1>1, <1>3 DEF ScanTyped, SectTyped
  <2>2. BufsTyped'
    BY <1>1, <1>3 DEF BufsTyped
  <2>3. OneTable'
    BY <1>1, <1>2, <1>3 DEF OneTable
  <2>4. Apart' /\ BuffersAccounted'
    BY <1>1, <1>3 DEF Apart, OnePlace, BuffersAccounted
  <2> QED BY <2>1, <2>2, <2>3, <2>4
<1>4. ASSUME done # <<>>, done' = Tail(done), rd' = rd,
             \/ queued' = queued \cup {d.buf} /\ UNCHANGED <<spoilt, faults>>
             \/ /\ faults < MaxFaults /\ faults' = faults + 1
                /\ spoilt' = spoilt + 1 /\ queued' = queued
      PROVE  IInv'
  <2>1. /\ d \in Taken /\ d = done[1] /\ 1 \in DOMAIN done
        /\ Tail(done) \in Seq(Taken) /\ Len(Tail(done)) = Len(done) - 1
        /\ Len(done) \in Nat
        /\ \A i \in DOMAIN Tail(done) : i + 1 \in DOMAIN done /\ Tail(done)[i] = done[i + 1]
        /\ \A i \in DOMAIN Tail(done) : i \in Nat \ {0}
    BY <1>4, DoneHead
  <2>2. stream => d.buf \in Bufs \ queued
    BY <2>1 DEF Apart, OnePlace
  <2> HIDE DEF d
  <2>3. ScanTyped' /\ SectTyped'
    BY <1>1, <1>4 DEF ScanTyped, SectTyped
  <2>4. stream
    BY <1>1 DEF OneTable
  <2>5. queued' \subseteq Bufs /\ spoilt' \in Nat /\ faults' \in 0 .. MaxFaults
    BY <1>4, <2>2, <2>4, BufAssumption DEF BufsTyped
  <2>6. BufsTyped'
    BY <1>1, <1>4, <2>1, <2>5 DEF BufsTyped
  <2>7. OneTable'
    BY <1>1, <1>2, <1>4 DEF OneTable
  <2>8. Apart'
    <3>1. /\ \A i \in DOMAIN done : done[i].buf \in Bufs \ queued
          /\ \A i, j \in DOMAIN done : done[i].buf = done[j].buf => i = j
      BY <2>4 DEF Apart, OnePlace
    <3>2. \A i \in DOMAIN Tail(done) : Tail(done)[i].buf \in Bufs \ queued'
      BY <1>4, <2>1, <3>1
    <3>3. \A i, j \in DOMAIN Tail(done) :
            Tail(done)[i].buf = Tail(done)[j].buf => i + 1 = j + 1
      BY <2>1, <3>1
    <3> QED BY <1>1, <1>2, <1>4, <2>1, <3>2, <3>3 DEF Apart, OnePlace
  <2>9. BuffersAccounted'
    <3>1. bufcnt = Cardinality(queued) + Len(done) + 0 + spoilt
      BY <1>2, <2>4 DEF BuffersAccounted
    <3>2. /\ Cardinality(queued \cup {d.buf}) = Cardinality(queued) + 1
          /\ Cardinality(queued) \in Nat /\ spoilt \in Nat
      BY <2>2, <2>4, QueuedOneMore, QueuedFinite DEF BufsTyped
    <3>3. CASE queued' = queued \cup {d.buf} /\ spoilt' = spoilt
      BY <1>1, <1>2, <1>4, <2>1, <3>1, <3>2, <3>3 DEF BuffersAccounted
    <3>4. CASE queued' = queued /\ spoilt' = spoilt + 1
      BY <1>1, <1>2, <1>4, <2>1, <3>1, <3>2, <3>4 DEF BuffersAccounted
    <3> QED BY <1>4, <3>3, <3>4
  <2> QED BY <2>3, <2>6, <2>7, <2>8, <2>9
<1> QED BY <1>3, <1>4 DEF Flush, Fault

-----------------------------------------------------------------------------
(* The scan. *)

LEMMA StreamInitStep == ASSUME IInv, StreamInit PROVE IInv'
<1> USE DEF IInv, TypeOK
<1>1. /\ pc = "init"
      /\ \/ pc' = "pat" /\ rd' = rd
         \/ pc' = "end" /\ rd' = "deinit" /\ stream
      /\ UNCHANGED <<prog, nprog, stream, atsc, other, vct, abort, ret>>
      /\ UNCHANGED <<key, tsid, gaps, ext, parsed, twice>>
      /\ UNCHANGED <<held, filter, pos, dropped, cut>>
      /\ done' = <<>>
  BY DEF StreamInit, sect
<1>2. rd = "idle" /\ held = <<>> /\ Len(held) = 0 /\ filter = None
  BY <1>1 DEF OneTable
<1>3. ScanTyped' /\ SectTyped'
  <2>1. ScanTyped'
    BY <1>1, ProgramAssumption DEF ScanTyped
  <2>2. SectTyped'
    BY <1>1 DEF SectTyped
  <2> QED BY <2>1, <2>2
<1>4. OneTable'
  BY <1>1, <1>2 DEF OneTable
<1>5. PICK n \in 0 .. NBuf : \E m \in 0 .. n : Buffers(n, m)
  <2>1. CASE \E n \in Bufs : \E m \in 0 .. n : Buffers(n, m)
    BY <2>1 DEF Bufs
  <2>2. CASE \E n \in Bufs : Buffers(n, n)
    BY <2>2 DEF Bufs
  <2>3. CASE Buffers(0, 0)
    BY <2>3, BufAssumption
  <2> QED BY <2>1, <2>2, <2>3 DEF StreamInit
<1>6. PICK m \in 0 .. n : Buffers(n, m)
  BY <1>5
<1>7. /\ bufcnt' = n /\ queued' = 1 .. m /\ spoilt' = n - m
      /\ flag' \in [Bufs -> BOOLEAN]
  BY <1>6 DEF Buffers
<1>8. BufsTyped'
  <2>1. queued' \subseteq Bufs /\ bufcnt' \in 0 .. NBuf /\ spoilt' \in Nat
    BY <1>7, BufAssumption DEF Bufs
  <2>2. done' \in Seq(Taken)
    BY <1>1
  <2>3. faults' \in 0 .. MaxFaults
    BY BufAssumption DEF StreamInit, Fault, BufsTyped
  <2> QED BY <1>1, <1>7, <2>1, <2>2, <2>3 DEF BufsTyped
<1>9. Apart'
  BY <1>1, <1>2 DEF Apart, OnePlace
<1>10. BuffersAccounted'
  <2>1. Cardinality(queued') = m
    BY <1>7, FS_Interval
  <2> QED BY <1>1, <1>2, <1>7, <2>1 DEF BuffersAccounted
<1> QED BY <1>3, <1>4, <1>8, <1>9, <1>10

\* No buffer is filled by then: one that is waited for never comes.
LEMMA DeinitStep == ASSUME IInv, Deinit PROVE IInv'
<1> USE DEF IInv, TypeOK
<1>1. /\ rd = "deinit" /\ rd' = "idle"
      /\ UNCHANGED <<pc, prog, nprog, stream, atsc, other, vct, abort, ret>>
      /\ UNCHANGED <<key, tsid, gaps, ext, parsed, twice>>
      /\ UNCHANGED <<held, bufcnt, flag, filter, pos, queued>>
      /\ UNCHANGED <<dropped, cut, spoilt, faults>>
  BY DEF Deinit, ctl, sect, bufs, ghost
<1>2. stream /\ pc = "end" /\ done = <<>>
  BY <1>1 DEF OneTable
<1>3. done' = done
  <2>1. Flagged \subseteq 1 .. bufcnt /\ bufcnt \in Nat
    BY DEF Flagged, BufsTyped
  <2>2. Cardinality(Flagged) \in Nat
    <3>1. IsFiniteSet(1 .. bufcnt)
      BY <2>1, FS_Interval
    <3> QED BY <2>1, <3>1, FS_Subset, FS_CardinalityType
  <2>3. done' = SubSeq(done, Cardinality(Flagged) + 1, Len(done))
    BY DEF Deinit
  <2> QED BY <1>2, <2>2, <2>3
<1>4. ScanTyped' /\ SectTyped'
  BY <1>1 DEF ScanTyped, SectTyped
<1>5. BufsTyped'
  BY <1>1, <1>3 DEF BufsTyped
<1>6. OneTable'
  BY <1>1, <1>2, <1>3 DEF OneTable
<1>7. Apart' /\ BuffersAccounted'
  BY <1>1, <1>3 DEF Apart, OnePlace, BuffersAccounted
<1> QED BY <1>4, <1>5, <1>6, <1>7

\* Whatever table is next, it is a table or an end.
LEMMA NextTableTyped ==
  ASSUME ScanTyped, SectTyped, NextTable, pc # "init", pc # "end"
  PROVE  /\ pc' \in DOMAIN Air \cup {"init", "app", "end"}
         /\ prog' \in Nat /\ nprog' \in 0 .. Len(Programs)
         /\ vct' \in BOOLEAN
<1>1. Len(Programs) \in Nat
  BY ProgramAssumption
<1>2. ASSUME NEW i \in Nat \ {0}, NEW n \in 0 .. Len(Programs), ToProgram(i, n)
      PROVE  /\ pc' \in DOMAIN Air \cup {"init", "app", "end"}
             /\ prog' \in Nat /\ nprog' \in 0 .. Len(Programs)
  <2>1. nprog' = n
    BY <1>2 DEF ToProgram
  <2>2. CASE prog' = n + 1 /\ pc' = "nit"
    BY <1>1, <2>1, <2>2, ProgramAssumption
  <2>3. ASSUME NEW j \in i .. n, Programs[j] # NetworkPid, prog' = j, pc' = Programs[j]
        PROVE  prog' \in Nat /\ pc' \in DOMAIN Air
    <3>1. j \in 1 .. Len(Programs)
      BY <1>1
    <3> QED BY <2>3, <3>1, ProgramAssumption
  <2> QED BY <2>1, <2>2, <2>3, <1>2 DEF ToProgram
<1>3. {"pat", "vct", "nit", "sdt", "nit2", "sdt2"} \subseteq DOMAIN Air
  BY ProgramAssumption
<1>4. CASE pc = "pat"
  <2>1. CASE pc' = "end" /\ UNCHANGED <<prog, nprog, vct>>
    BY <2>1 DEF ScanTyped
  <2>2. ASSUME NEW n \in 0 .. Len(Programs), vct' = vct,
               \/ pc' = "vct" /\ nprog' = n /\ prog' = prog
               \/ ToProgram(1, n)
        PROVE  /\ pc' \in DOMAIN Air \cup {"init", "app", "end"}
               /\ prog' \in Nat /\ nprog' \in 0 .. Len(Programs)
               /\ vct' \in BOOLEAN
    BY <1>2, <1>3, <2>2 DEF ScanTyped
  <2> QED BY <1>4, <2>1, <2>2 DEF NextTable
<1>5. CASE pc = "vct"
  <2>1. ToProgram(1, nprog) /\ vct' = (parsed # {})
    BY <1>5 DEF NextTable
  <2> QED BY <1>2, <2>1 DEF ScanTyped
<1>6. CASE pc \notin {"pat", "vct", "nit", "sdt", "nit2", "sdt2", "app"}
  <2>1. ToProgram(prog + 1, nprog) /\ vct' = vct
    BY <1>6 DEF NextTable
  <2>2. prog + 1 \in Nat \ {0} /\ nprog \in 0 .. Len(Programs)
    BY DEF ScanTyped
  <2> QED BY <1>2, <2>1, <2>2 DEF ScanTyped
<1>7. CASE pc \in {"nit", "sdt", "nit2", "sdt2", "app"}
  <2>1. pc' \in {"sdt", "app", "nit2", "sdt2", "end"} /\ UNCHANGED <<prog, nprog, vct>>
    BY <1>7 DEF NextTable, AfterNit
  <2> QED BY <1>3, <2>1 DEF ScanTyped
<1> QED BY <1>4, <1>5, <1>6, <1>7

LEMMA NextNoInit ==
  ASSUME ScanTyped, NextTable, pc # "init", pc # "end"
  PROVE  pc' # "init"
<1>1. {"pat", "vct", "nit", "sdt", "nit2", "sdt2"} \subseteq DOMAIN Air
  BY ProgramAssumption
<1>2. Len(Programs) \in Nat
  BY ProgramAssumption
<1>3. ASSUME NEW i \in Nat \ {0}, NEW n \in 0 .. Len(Programs), ToProgram(i, n)
      PROVE  pc' # "init"
  <2>1. CASE pc' = "nit"
    BY <2>1
  <2>2. ASSUME NEW j \in i .. n, Programs[j] # NetworkPid, pc' = Programs[j]
        PROVE  pc' \in DOMAIN Air
    <3>1. j \in 1 .. Len(Programs)
      BY <1>2
    <3> QED BY <2>2, <3>1, ProgramAssumption
  <2> QED BY <1>3, <2>1, <2>2, NameAssumption DEF ToProgram
<1>4. prog + 1 \in Nat \ {0} /\ nprog \in 0 .. Len(Programs)
  BY DEF ScanTyped
<1> QED BY <1>3, <1>4 DEF NextTable, AfterNit

LEMMA ReadReturnsStep == ASSUME IInv, ReadReturns PROVE IInv'
<1> USE DEF IInv, TypeOK
<1>1. /\ rd = "back" /\ ret' = 0
      /\ rd' \in {"idle", "deinit"}
      /\ rd' = "deinit" => stream /\ pc' = "end"
      /\ \/ pc' = "end" /\ UNCHANGED <<prog, nprog, vct>>
         \/ NextTable
      /\ UNCHANGED <<stream, atsc, other, abort>>
      /\ UNCHANGED <<held, bufcnt, flag, filter, pos, queued, done, spoilt, faults>>
      /\ dropped' = FALSE /\ cut' = FALSE
  BY DEF ReadReturns, bufs, demux
<1>2. pc # "init" /\ pc # "end"
  BY <1>1 DEF OneTable
<1>3. ScanTyped'
  <2>1. /\ pc' \in DOMAIN Air \cup {"init", "app", "end"}
        /\ prog' \in Nat /\ nprog' \in 0 .. Len(Programs)
        /\ vct' \in BOOLEAN
    <3>1. CASE pc' = "end" /\ UNCHANGED <<prog, nprog, vct>>
      BY <3>1 DEF ScanTyped
    <3> QED BY <1>1, <1>2, <3>1, NextTableTyped
  <2> QED BY <1>1, <2>1 DEF ScanTyped
<1>4. /\ key' = None /\ tsid' = NoTs /\ gaps' = FALSE
      /\ ext' = <<>> /\ parsed' = {} /\ twice' = FALSE
  BY DEF ReadReturns, NoSect
<1>5. SectTyped'
  <2>1. DOMAIN ext' = {}
    BY <1>4
  <2> QED BY <1>4, <2>1 DEF SectTyped
<1>6. BufsTyped'
  BY <1>1 DEF BufsTyped
<1>7. OneTable'
  <2>1. pc' # "init"
    BY <1>1, <1>2, NextNoInit
  <2> QED BY <1>1, <2>1 DEF OneTable
<1>8. Apart'
  BY <1>1 DEF Apart, OnePlace
<1>9. BuffersAccounted'
  BY <1>1 DEF BuffersAccounted
<1> QED BY <1>3, <1>5, <1>6, <1>7, <1>8, <1>9

LEMMA NextTransponderStep == ASSUME IInv, NextTransponder PROVE IInv'
<1> USE DEF IInv, TypeOK
<1>1. /\ pc = "end" /\ rd = "idle" /\ pc' = "init" /\ prog' = 1 /\ nprog' = 0
      /\ vct' = FALSE /\ ret' = 0
      /\ UNCHANGED <<stream, atsc, other, abort, rd>>
      /\ UNCHANGED <<key, tsid, gaps, ext, parsed, twice>>
      /\ UNCHANGED <<held, bufcnt, flag, filter, pos, queued, done>>
      /\ UNCHANGED <<dropped, cut, spoilt, faults>>
  BY DEF NextTransponder, sect, bufs, demux, ghost
<1>2. ScanTyped'
  <2>1. prog' \in Nat /\ nprog' \in 0 .. Len(Programs) /\ ret' \in -3 .. 1
    BY <1>1, ProgramAssumption
  <2>2. vct' \in BOOLEAN
    BY <1>1
  <2> QED BY <1>1, <2>1, <2>2 DEF ScanTyped
<1>3. SectTyped' /\ BufsTyped'
  BY <1>1 DEF SectTyped, BufsTyped
<1>4. OneTable' /\ Apart' /\ BuffersAccounted'
  BY <1>1 DEF OneTable, Apart, OnePlace, BuffersAccounted
<1> QED BY <1>2, <1>3, <1>4

LEMMA AbortStep == ASSUME IInv, Abort PROVE IInv'
<1> USE DEF IInv, TypeOK
<1>1. /\ abort' = TRUE
      /\ UNCHANGED <<pc, prog, nprog, stream, atsc, other, vct, rd, ret>>
      /\ UNCHANGED <<key, tsid, gaps, ext, parsed, twice>>
      /\ UNCHANGED <<held, bufcnt, flag, filter, pos, queued, done>>
      /\ UNCHANGED <<dropped, cut, spoilt, faults>>
  BY DEF Abort, ctl, sect, bufs, demux, ghost
<1>2. ScanTyped' /\ SectTyped' /\ BufsTyped'
  BY <1>1 DEF ScanTyped, SectTyped, BufsTyped
<1>3. OneTable' /\ Apart' /\ BuffersAccounted'
  BY <1>1 DEF OneTable, Apart, OnePlace, BuffersAccounted
<1> QED BY <1>2, <1>3

-----------------------------------------------------------------------------
(* The demux. *)

\* The carousel turns.
LEMMA AdvanceTyped ==
  ASSUME filter \in DOMAIN Air, pos \in DOMAIN Air[filter], Advance
  PROVE  pos' \in DOMAIN Air[filter] /\ pos' \in Nat
  BY AirAssumption DEF Advance

LEMMA DropStep == ASSUME IInv, Drop PROVE IInv'
<1> USE DEF IInv, TypeOK
<1>1. /\ filter # None /\ Advance /\ dropped' = TRUE
      /\ faults < MaxFaults /\ faults' = faults + 1
      /\ UNCHANGED <<pc, prog, nprog, stream, atsc, other, vct, abort, rd, ret>>
      /\ UNCHANGED <<key, tsid, gaps, ext, parsed, twice>>
      /\ UNCHANGED <<held, bufcnt, flag, filter, queued, done, cut, spoilt>>
  BY DEF Drop, ctl, sect, bufs, Fault
<1>2. pos' \in DOMAIN Air[filter] /\ pos' \in Nat
  BY <1>1, AdvanceTyped DEF OneTable, BufsTyped
<1>3. ScanTyped' /\ SectTyped'
  BY <1>1 DEF ScanTyped, SectTyped
<1>4. BufsTyped'
  BY <1>1, <1>2, BufAssumption DEF BufsTyped
<1>5. OneTable'
  BY <1>1, <1>2 DEF OneTable
<1>6. Apart' /\ BuffersAccounted'
  BY <1>1 DEF Apart, OnePlace, BuffersAccounted
<1> QED BY <1>3, <1>4, <1>5, <1>6

LEMMA DeliverStep == ASSUME IInv, Deliver PROVE IInv'
<1> USE DEF IInv, TypeOK
<1>1. PICK b \in 0 .. NBuf :
        /\ done' = Append(done, [buf |-> b, section |-> SectionAt(filter, pos)])
        /\ \/ stream /\ b \in queued /\ queued' = queued \ {b}
           \/ ~stream /\ queued' = queued
  <2>1. CASE stream
    BY <2>1 DEF Deliver, BufsTyped, Bufs
  <2>2. CASE ~stream
    <3>1. 0 \in 0 .. NBuf
      BY BufAssumption
    <3> QED BY <2>2, <3>1 DEF Deliver
  <2> QED BY <2>1, <2>2 DEF ScanTyped
<1>2. /\ filter # None /\ Advance
      /\ UNCHANGED <<pc, prog, nprog, stream, atsc, other, vct, abort, rd, ret>>
      /\ UNCHANGED <<key, tsid, gaps, ext, parsed, twice>>
      /\ UNCHANGED <<held, bufcnt, flag, filter, dropped, cut, spoilt, faults>>
  BY DEF Deliver, ctl, sect, bufs, ghost
<1>3. /\ filter = key /\ filter \in DOMAIN Air /\ pos \in DOMAIN Air[filter]
      /\ rd \in {"poll", "held", "stop"}
  BY <1>2 DEF OneTable, BufsTyped
<1>4. pos' \in DOMAIN Air[filter] /\ pos' \in Nat
  BY <1>2, <1>3, AdvanceTyped
<1> DEFINE d == [buf |-> b, section |-> SectionAt(filter, pos)]
<1>5. d \in Taken /\ d.section.key = key /\ d.buf = b
  BY <1>3, SectionOnAir DEF Taken
<1> HIDE DEF d
<1>6. done' = Append(done, d)
  BY <1>1 DEF d
<1>7. /\ done' \in Seq(Taken) /\ Len(done) \in Nat /\ Len(done') = Len(done) + 1
      /\ \A i \in DOMAIN done' : i \in DOMAIN done \/ i = Len(done) + 1
      /\ \A i \in DOMAIN done : done'[i] = done[i] /\ i # Len(done) + 1
      /\ done'[Len(done) + 1] = d
  BY <1>5, <1>6 DEF BufsTyped
<1>8. ScanTyped' /\ SectTyped'
  BY <1>2 DEF ScanTyped, SectTyped
<1>9. BufsTyped'
  BY <1>1, <1>2, <1>4, <1>7 DEF BufsTyped
<1>10. OneTable'
  <2>1. rd \in {"poll", "held"} => \A i \in DOMAIN done' : done'[i].section.key = key
    BY <1>5, <1>7 DEF OneTable
  <2> QED BY <1>2, <1>3, <1>4, <2>1 DEF OneTable
<1>11. Apart'
  <2> SUFFICES ASSUME stream PROVE OnePlace'
    BY <1>2 DEF Apart
  <2>1. /\ \A i \in DOMAIN done : done[i].buf \in Bufs \ queued
        /\ \A i, j \in DOMAIN done : done[i].buf = done[j].buf => i = j
    BY DEF Apart, OnePlace
  <2>2. b \in queued /\ queued' = queued \ {b} /\ b \in Bufs
    BY <1>1 DEF BufsTyped
  <2>3. \A i \in DOMAIN done' : done'[i].buf \in Bufs \ queued'
    BY <1>5, <1>7, <2>1, <2>2
  <2>4. \A i, j \in DOMAIN done' : done'[i].buf = done'[j].buf => i = j
    BY <1>5, <1>7, <2>1, <2>2
  <2>5. held # <<>> => /\ held[1].buf \in Bufs \ queued'
                      /\ \A i \in DOMAIN done' : done'[i].buf # held[1].buf
    BY <1>5, <1>7, <2>2 DEF Apart, OnePlace
  <2> QED BY <1>2, <2>3, <2>4, <2>5 DEF OnePlace
<1>12. BuffersAccounted'
  <2> SUFFICES ASSUME stream'
               PROVE  bufcnt' = Cardinality(queued') + Len(done') + Len(held') + spoilt'
    BY DEF BuffersAccounted
  <2>1. bufcnt = Cardinality(queued) + Len(done) + Len(held) + spoilt
    BY <1>2 DEF BuffersAccounted
  <2>2. Cardinality(queued') = Cardinality(queued) - 1 /\ Cardinality(queued) \in Nat
    BY <1>1, <1>2, QueuedOneLess, QueuedFinite
  <2>3. Len(held) \in Nat /\ spoilt \in Nat
    BY DEF BufsTyped
  <2> QED BY <1>2, <1>7, <2>1, <2>2, <2>3
<1> QED BY <1>8, <1>9, <1>10, <1>11, <1>12

-----------------------------------------------------------------------------
(* The specification. *)

LEMMA InitIInv == Init => IInv
<1> SUFFICES ASSUME Init PROVE IInv
  OBVIOUS
<1>1. ScanTyped
  <2>1. prog \in Nat /\ nprog \in 0 .. Len(Programs) /\ ret \in -3 .. 1
    BY ProgramAssumption DEF Init
  <2>2. vct \in BOOLEAN /\ abort \in BOOLEAN
    BY DEF Init
  <2>3. /\ pc = "init" /\ rd = "idle"
        /\ stream \in BOOLEAN /\ atsc \in BOOLEAN /\ other \in BOOLEAN
    BY DEF Init
  <2> QED BY <2>1, <2>2, <2>3 DEF ScanTyped
<1>2. SectTyped
  <2>1. ext = <<>> /\ DOMAIN ext = {}
    BY DEF Init
  <2> QED BY <2>1 DEF Init, SectTyped
<1>3. BufsTyped
  <2>1. held \in Seq(Taken) /\ done \in Seq(Taken)
    BY DEF Init
  <2>2. /\ bufcnt \in 0 .. NBuf /\ queued \subseteq Bufs
        /\ filter \in DOMAIN Air \cup {None} /\ pos \in Nat
        /\ spoilt \in Nat /\ faults \in 0 .. MaxFaults
    BY BufAssumption DEF Init
  <2>3. flag \in [Bufs -> BOOLEAN]
    BY DEF Init
  <2>4. dropped \in BOOLEAN /\ cut \in BOOLEAN
    BY DEF Init
  <2> QED BY <2>1, <2>2, <2>3, <2>4 DEF BufsTyped
<1>4. OneTable
  BY DEF Init, OneTable
<1>5. Apart
  BY DEF Init, Apart, OnePlace
<1>6. BuffersAccounted
  BY FS_EmptySet DEF Init, BuffersAccounted
<1> QED BY <1>1, <1>2, <1>3, <1>4, <1>5, <1>6 DEF IInv, TypeOK

LEMMA NextIInv == IInv /\ [Next]_vars => IInv'
<1> SUFFICES ASSUME IInv, [Next]_vars PROVE IInv'
  OBVIOUS
<1>1. CASE UNCHANGED vars
  BY <1>1 DEF vars, ctl, sect, bufs, demux, ghost, IInv, TypeOK, ScanTyped, SectTyped,
              BufsTyped, OneTable, Apart, OnePlace, BuffersAccounted
<1>2. CASE ReadNext
  <2>1. pc \in DOMAIN Air /\ StartRead(pc, NoTs, FALSE)
    BY <1>2 DEF ReadNext
  <2>2. pc \notin {"init", "end"}
    BY <2>1, NameAssumption
  <2> QED BY <2>1, <2>2, StartReadStep
<1>3. CASE AppRead
  <2>1. pc \notin {"init", "end"} /\ "eit" \in DOMAIN Air
    BY <1>3, ProgramAssumption DEF AppRead
  <2>2. PICK t \in TsIds, g \in BOOLEAN : StartRead("eit", t, g)
    BY <1>3 DEF AppRead
  <2> QED BY <2>1, <2>2, StartReadStep
<1> QED
  BY <1>1, <1>2, <1>3, PollEndsStep, DequeueStep, BadSectionStep, HandleStep,
     StopReadStep, FlushStep, StreamInitStep, DeinitStep, ReadReturnsStep, NextTransponderStep,
     AbortStep, DeliverStep, DropStep DEF Next, Reader

THEOREM IInvHolds == Spec => []IInv
  BY InitIInv, NextIInv, PTL DEF Spec

\* Everything stays of its type, whatever is broadcast, lost or refused.
THEOREM TypeCorrect == Spec => []TypeOK
<1>1. IInv => TypeOK
  BY DEF IInv
<1> QED BY <1>1, IInvHolds, PTL

\* A read never meets a section of the table read before it.
THEOREM NeverStale == Spec => []NoStaleSection
<1>1. IInv => NoStaleSection
  BY DEF IInv, TypeOK, BufsTyped, OneTable, NoStaleSection
<1> QED BY <1>1, IInvHolds, PTL

\* Every buffer is with the driver or the reader, or was spent on a section
\* that spoilt a read or on a refusal to queue it.
THEOREM BuffersCorrect == Spec => []BuffersAccounted
<1>1. IInv => BuffersAccounted
  BY DEF IInv
<1> QED BY <1>1, IInvHolds, PTL

-----------------------------------------------------------------------------
(* What a read has of its table.                                           *)

\* A carousel says once how many sections an extension has, and few enough that
\* is_all_bits_set(), which looks at one word, can tell.
OneWord ==
  \A k \in DOMAIN Air : \A i \in DOMAIN Air[k] :
    /\ Air[k][i].last < WordBits
    /\ \A j \in DOMAIN Air[k] :
         Air[k][i].ext = Air[k][j].ext => Air[k][i].last = Air[k][j].last

\* In one turn of the carousel a section comes once.
EachOnce ==
  \A k \in DOMAIN Air : \A i, j \in DOMAIN Air[k] :
    Air[k][i].ext = Air[k][j].ext /\ Air[k][i].sec = Air[k][j].sec => i = j

\* What is known of a table: each section that was parsed is of an extension
\* that was met.
Met == \A x \in parsed : x[1] \in DOMAIN ext

\* A read in progress has its filter set.
Filtering == rd \in {"poll", "held"} => filter = key /\ key \in DOMAIN Air

\* With bits, those set are the sections parsed; ...
CountedOf(e) ==
  /\ ext[e].bits = SectionsOf(e) /\ ext[e].bits # {}
  /\ ext[e].bits \subseteq 0 .. ext[e].last /\ ext[e].last < WordBits
  /\ \A i \in DOMAIN Air[key] : Air[key][i].ext = e => Air[key][i].last = ext[e].last
  /\ ext[e].done => AllBitsSet(ext[e].last, ext[e].bits)
Counted ==
  Counting => ~twice /\ \A e \in DOMAIN ext : key \in DOMAIN Air /\ CountedOf(e)

\* ... without, the sections that were parsed are those on air from the first
\* one of their extension to the one that is to be parsed next.
Following(n, i) == IF i = n THEN 1 ELSE i + 1
Arc(n, q, c) == {i \in 1 .. n : IF q < c THEN q <= i /\ i < c ELSE q <= i \/ i < c}
Place(h) == CHOOSE i \in DOMAIN Air[h.key] : SectionAt(h.key, i) = h
Ahead == IF done # <<>> THEN Place(done[1].section) ELSE pos
Here == IF held # <<>> THEN Place(held[1].section) ELSE Ahead
Turn == Len(Air[key])

InOrder ==
  /\ \A i \in DOMAIN done : i + 1 \in DOMAIN done =>
       Place(done[i + 1].section) = Following(Turn, Place(done[i].section))
  /\ done # <<>> => pos = Following(Turn, Place(done[Len(done)].section))
  /\ held # <<>> => Ahead = Following(Turn, Place(held[1].section))

Foreign(e) == tsid # NoTs /\ e # tsid
Passed(e, c) ==
  \E q \in DOMAIN Air[key] :
    /\ Air[key][q].ext = e /\ Air[key][q].sec = ext[e].first
    /\ SectionsOf(e) = {Air[key][i].sec : i \in {j \in Arc(Turn, q, c) : Air[key][j].ext = e}}
TurnedOf(e) ==
  /\ Foreign(e) => ~ext[e].done
  /\ ext[e].done => SectionsOf(e) = Broadcast(e)
  /\ rd \in {"poll", "held"} /\ ~Foreign(e) /\ ~ext[e].done => Passed(e, Here)
Turned ==
  ~Counting /\ ~dropped =>
    /\ ~twice
    /\ rd \in {"poll", "held"} => InOrder
    /\ \A e \in DOMAIN ext : TurnedOf(e)

\* A read that ends well has all it met.
Ended ==
  rd \in {"stop", "flush", "back"} /\ ret >= 0 /\ ~abort /\ ~cut =>
    \A e \in DOMAIN ext : ext[e].done

Whole == Met /\ Filtering /\ Counted /\ Turned /\ Ended

-----------------------------------------------------------------------------
(* Places on the carousel. *)

LEMMA PlaceIs ==
  ASSUME EachOnce, NEW k \in DOMAIN Air, NEW i \in DOMAIN Air[k]
  PROVE  Place(SectionAt(k, i)) = i
<1> DEFINE h == SectionAt(k, i)
<1>1. h.key = k
  BY DEF SectionAt
<1>2. \A j \in DOMAIN Air[k] : SectionAt(k, j) = h => j = i
  BY DEF SectionAt, EachOnce
<1> HIDE DEF h
<1>3. Place(h) = CHOOSE j \in DOMAIN Air[k] : SectionAt(k, j) = h
  BY <1>1 DEF Place
<1>4. \E j \in DOMAIN Air[k] : SectionAt(k, j) = h
  BY DEF h
<1>5. Place(h) \in DOMAIN Air[k] /\ SectionAt(k, Place(h)) = h
  BY <1>3, <1>4
<1> QED BY <1>2, <1>5 DEF h

LEMMA PlaceOnAir ==
  ASSUME EachOnce, NEW h \in Sections
  PROVE  /\ h.key \in DOMAIN Air
         /\ Place(h) \in DOMAIN Air[h.key] /\ SectionAt(h.key, Place(h)) = h
<1>1. PICK k \in DOMAIN Air : h \in {SectionAt(k, i) : i \in DOMAIN Air[k]}
  BY DEF Sections
<1>2. PICK i \in DOMAIN Air[k] : h = SectionAt(k, i)
  BY <1>1
<1>3. h.key = k
  BY <1>2 DEF SectionAt
<1> QED BY <1>2, <1>3, PlaceIs

LEMMA TurnIs ==
  ASSUME NEW k \in DOMAIN Air
  PROVE  Len(Air[k]) \in Nat \ {0} /\ DOMAIN Air[k] = 1 .. Len(Air[k])
  BY AirAssumption

LEMMA ArcStarts ==
  ASSUME NEW n \in Nat \ {0}, NEW c \in 1 .. n
  PROVE  Arc(n, c, Following(n, c)) = {c} /\ Arc(n, c, c) = 1 .. n
  BY DEF Arc, Following

LEMMA ArcGrows ==
  ASSUME NEW n \in Nat \ {0}, NEW q \in 1 .. n, NEW c \in 1 .. n, q # c
  PROVE  Arc(n, q, Following(n, c)) = Arc(n, q, c) \cup {c} /\ c \notin Arc(n, q, c)
<1>1. CASE q < c /\ c < n
  BY <1>1 DEF Arc, Following
<1>2. CASE q < c /\ c = n
  BY <1>2 DEF Arc, Following
<1>3. CASE c < q
  BY <1>3 DEF Arc, Following
<1> QED BY <1>1, <1>2, <1>3

LEMMA SectionsMember ==
  ASSUME SectTyped, NEW e, NEW s
  PROVE  s \in SectionsOf(e) <=> <<e, s>> \in parsed
<1>1. ASSUME NEW x \in parsed PROVE x = <<x[1], x[2]>>
  BY DEF SectTyped
<1> QED BY <1>1 DEF SectionsOf

-----------------------------------------------------------------------------
(* dvb_parse_section() again. *)

\* A section is thrown away, ends its extension, or is stored.
LEMMA ParseOutcomes ==
  ASSUME SectTyped, NEW h, ParseSection(h), h.key = key
  PROVE  \/ Unwanted(h) /\ ret' = 0 /\ UNCHANGED <<ext, parsed, twice>>
         \/ /\ ~Unwanted(h) /\ Repeated(h)
            /\ ext' = Put(h.ext, [ext[h.ext] EXCEPT !.done = TRUE])
            /\ UNCHANGED <<parsed, twice>> /\ ret' = Verdict(ext', h.ext)
         \/ /\ ~Unwanted(h) /\ ~Repeated(h)
            /\ ext' = Put(h.ext, Stored(h))
            /\ parsed' = parsed \cup {<<h.ext, h.sec>>}
            /\ twice' = (twice \/ <<h.ext, h.sec>> \in parsed)
            /\ ret' = Verdict(ext', h.ext)
<1>1. TableOf[h.key] = TableOf[key]
  OBVIOUS
<1>2. CASE Unwanted(h)
  BY <1>1, <1>2 DEF ParseSection
<1>3. CASE ~Unwanted(h) /\ Repeated(h)
  <2>1. twice \in BOOLEAN
    BY DEF SectTyped
  <2>2. twice' = twice /\ parsed' = parsed
    BY <1>1, <1>3, <2>1 DEF ParseSection
  <2> QED BY <1>1, <1>3, <2>2 DEF ParseSection
<1>4. CASE ~Unwanted(h) /\ ~Repeated(h)
  BY <1>1, <1>4 DEF ParseSection
<1> QED BY <1>2, <1>3, <1>4

LEMMA PutIs ==
  ASSUME NEW e, NEW r
  PROVE  /\ DOMAIN Put(e, r) = DOMAIN ext \cup {e}
         /\ Put(e, r)[e] = r
         /\ \A x \in DOMAIN ext : x # e => Put(e, r)[x] = ext[x]
  BY DEF Put

\* What is stored of a section.
LEMMA StoredIs ==
  ASSUME SectTyped, NEW h \in Sections
  PROVE  /\ Known(h) => Stored(h).first = ext[h.ext].first /\ Stored(h).last = ext[h.ext].last
         /\ ~Known(h) => Stored(h).first = h.sec /\ Stored(h).last = h.last
         /\ Stored(h).bits = (IF Known(h) THEN ext[h.ext].bits ELSE {})
                               \cup (IF Counting THEN {h.sec} ELSE {})
         /\ Stored(h).done <=> Counting /\ AllBitsSet(Stored(h).last, Stored(h).bits)
<1> DEFINE e == IF Known(h) THEN ext[h.ext] ELSE NewExt(h)
           bits == IF Counting THEN e.bits \cup {h.sec} ELSE e.bits
           whole == Counting /\ AllBitsSet(e.last, bits)
           Ext == [first : Nat, last : Nat, bits : SUBSET Nat, done : BOOLEAN]
<1>1. e \in Ext
  BY SectionFields DEF SectTyped, Known, NewExt
<1>2. Stored(h) = [e EXCEPT !.bits = bits, !.done = whole]
  BY DEF Stored
<1>3. /\ Known(h) => e = ext[h.ext]
      /\ ~Known(h) => e.first = h.sec /\ e.last = h.last /\ e.bits = {}
  BY DEF NewExt
<1>4. bits = e.bits \cup (IF Counting THEN {h.sec} ELSE {})
  OBVIOUS
<1> HIDE DEF e, bits, whole
<1>5. /\ Stored(h).first = e.first /\ Stored(h).last = e.last
      /\ Stored(h).bits = bits /\ Stored(h).done = whole
  BY <1>1, <1>2
<1> QED BY <1>3, <1>4, <1>5 DEF whole

LEMMA ParseMet ==
  ASSUME Met, SectTyped, NEW h, ParseSection(h), h.key = key
  PROVE  Met'
<1>1. CASE UNCHANGED parsed /\ DOMAIN ext \subseteq DOMAIN ext'
  BY <1>1 DEF Met
<1>2. CASE parsed' = parsed \cup {<<h.ext, h.sec>>} /\ DOMAIN ext' = DOMAIN ext \cup {h.ext}
  BY <1>2 DEF Met
<1>3. \A r : DOMAIN Put(h.ext, r) = DOMAIN ext \cup {h.ext}
  BY DEF Put
<1> QED BY <1>1, <1>2, <1>3, ParseOutcomes

-----------------------------------------------------------------------------
(* Steps that parse nothing. *)

\* Nothing is parsed and the reader does not wait for the demux afterwards.
LEMMA TableKept ==
  ASSUME Met, Counted, Turned, UNCHANGED <<key, tsid, gaps, ext, parsed, twice>>,
         dropped => dropped', rd' \notin {"poll", "held"}
  PROVE  Met' /\ Filtering' /\ Counted' /\ Turned'
<1>1. Met' /\ Filtering'
  BY DEF Met, Filtering
<1>2. \A e : SectionsOf(e)' = SectionsOf(e)
  BY DEF SectionsOf
<1>3. Counting' = Counting /\ \A e : Foreign(e)' = Foreign(e) /\ Broadcast(e)' = Broadcast(e)
  BY DEF Counting, Foreign, Broadcast
<1>4. Counted'
  BY <1>2, <1>3 DEF Counted, CountedOf, AllBitsSet
<1>5. Turned'
  BY <1>2, <1>3 DEF Turned, TurnedOf
<1> QED BY <1>1, <1>4, <1>5

\* An empty table has nothing to answer for.
LEMMA TableEmpty ==
  ASSUME ext' = <<>>, parsed' = {}, twice' = FALSE,
         rd' \in {"poll", "held"} => filter' = key' /\ key' \in DOMAIN Air /\ InOrder'
  PROVE  Met' /\ Filtering' /\ Counted' /\ Turned'
<1>1. DOMAIN ext' = {}
  OBVIOUS
<1> QED BY <1>1 DEF Met, Filtering, Counted, Turned

LEMMA StartReadWhole ==
  ASSUME IInv, Whole, NEW k \in DOMAIN Air, NEW t, NEW g, StartRead(k, t, g)
  PROVE  Whole'
<1>1. /\ key' = k /\ ext' = <<>> /\ parsed' = {} /\ twice' = FALSE /\ held' = held
      /\ rd = "idle"
      /\ \/ /\ rd' = "poll" /\ filter' = k
            /\ done' = IF stream THEN done ELSE <<>>
         \/ rd' = "back" /\ ret' = -1
  BY DEF StartRead
<1>2. DOMAIN ext' = {}
  BY <1>1
<1>3. rd' = "poll" => done' = <<>> /\ held' = <<>>
  BY <1>1 DEF IInv, OneTable
<1>4. rd' = "poll" => InOrder'
  BY <1>3 DEF InOrder
<1>5. Met' /\ Filtering' /\ Counted' /\ Turned'
  BY <1>1, <1>4, TableEmpty
<1>6. Ended'
  BY <1>2 DEF Ended
<1> QED BY <1>5, <1>6 DEF Whole

LEMMA ReadReturnsWhole == ASSUME ReadReturns PROVE Whole'
<1>1. rd' \in {"idle", "deinit"} /\ ext' = <<>> /\ parsed' = {} /\ twice' = FALSE
  BY DEF ReadReturns, NoSect
<1>2. Met' /\ Filtering' /\ Counted' /\ Turned'
  BY <1>1, TableEmpty
<1> QED BY <1>1, <1>2 DEF Whole, Ended

\* The read is over: it failed or was aborted, or had ended before.
LEMMA StoppedWhole ==
  ASSUME Whole, UNCHANGED <<key, tsid, gaps, ext, parsed, twice>>,
         dropped => dropped', rd' \notin {"poll", "held"},
         \/ rd' \in {"idle", "deinit"}
         \/ ret' \in {-1, -2, -3}
         \/ abort'
         \/ /\ rd \in {"stop", "flush", "back"} /\ UNCHANGED <<ret, cut>>
            /\ abort => abort'
  PROVE  Whole'
<1>1. Met' /\ Filtering' /\ Counted' /\ Turned'
  BY TableKept DEF Whole
<1>2. Ended'
  <2>1. ret' \in {-1, -2, -3} => ~(ret' >= 0)
    OBVIOUS
  <2> QED BY <2>1 DEF Whole, Ended
<1> QED BY <1>1, <1>2 DEF Whole

LEMMA QuietWhole ==
  ASSUME IInv, Whole,
         PollEnds \/ BadSection \/ StopRead \/ Flush \/ StreamInit \/ Deinit \/ NextTransponder
  PROVE  Whole'
<1>1. CASE PollEnds
  <2>1. /\ UNCHANGED <<key, tsid, gaps, ext, parsed, twice, dropped, abort>>
        /\ rd' = "stop" /\ (abort \/ ret' = -1)
    BY <1>1 DEF PollEnds, sect, ghost
  <2> QED BY <2>1, StoppedWhole
<1>2. CASE BadSection
  <2>1. /\ UNCHANGED <<key, tsid, gaps, ext, parsed, twice, dropped>>
        /\ rd' = "stop" /\ ret' \in {-1, -2, -3}
    BY <1>2 DEF BadSection, sect
  <2> QED BY <2>1, StoppedWhole
<1>3. CASE StopRead
  <2>1. /\ UNCHANGED <<key, tsid, gaps, ext, parsed, twice, dropped, cut, ret, abort>>
        /\ rd = "stop" /\ rd' \in {"flush", "back"}
    BY <1>3 DEF StopRead, sect, ghost
  <2> QED BY <2>1, StoppedWhole
<1>4. CASE Flush
  <2>1. /\ UNCHANGED <<key, tsid, gaps, ext, parsed, twice, dropped, cut, ret, abort>>
        /\ rd = "flush" /\ rd' \in {"flush", "back"}
    BY <1>4 DEF Flush, sect
  <2> QED BY <2>1, StoppedWhole
<1>5. CASE StreamInit \/ Deinit \/ NextTransponder
  <2>1. rd \in {"idle", "deinit"} /\ rd' \in {"idle", "deinit"}
    BY <1>5 DEF StreamInit, Deinit, NextTransponder, IInv, OneTable
  <2>2. UNCHANGED <<key, tsid, gaps, ext, parsed, twice, dropped>>
    BY <1>5 DEF StreamInit, Deinit, NextTransponder, sect, ghost
  <2> QED BY <2>1, <2>2, StoppedWhole
<1> QED BY <1>1, <1>2, <1>3, <1>4, <1>5

\* An abort leaves the order of the sections alone, and so does a lost section,
\* of which the table need not know.
LEMMA SameTable ==
  ASSUME Whole, UNCHANGED <<key, tsid, gaps, ext, parsed, twice, rd, held, filter>>,
         UNCHANGED <<done, pos, dropped>> \/ dropped' = TRUE,
         UNCHANGED <<ret, cut>>, abort => abort'
  PROVE  Whole'
<1>1. \A e : SectionsOf(e)' = SectionsOf(e)
  BY DEF SectionsOf
<1>2. Counting' = Counting /\ \A e : Foreign(e)' = Foreign(e) /\ Broadcast(e)' = Broadcast(e)
  BY DEF Counting, Foreign, Broadcast
<1>3. Met' /\ Filtering' /\ Ended'
  BY DEF Whole, Met, Filtering, Ended
<1>4. Counted'
  BY <1>1, <1>2 DEF Whole, Counted, CountedOf, AllBitsSet
<1>5. Turned'
  <2> SUFFICES ASSUME ~dropped' PROVE Turned'
    BY DEF Turned
  <2>1. UNCHANGED <<done, pos, dropped>>
    OBVIOUS
  <2> QED BY <2>1, <1>1, <1>2
          DEF Whole, Turned, TurnedOf, Passed, InOrder, Here, Ahead, Turn
<1> QED BY <1>3, <1>4, <1>5 DEF Whole

-----------------------------------------------------------------------------
(* The demux delivers, the reader takes: what is parsed next stays the same. *)

\* What the queue keeps of the order while nothing was dropped.
LEMMA HereOnAir ==
  ASSUME EachOnce, IInv, Filtering, rd \in {"poll", "held"}
  PROVE  /\ key \in DOMAIN Air /\ pos \in DOMAIN Air[key]
         /\ \A i \in DOMAIN done : /\ done[i].section \in Sections
                                   /\ Place(done[i].section) \in DOMAIN Air[key]
                                   /\ SectionAt(key, Place(done[i].section)) = done[i].section
         /\ Ahead \in DOMAIN Air[key]
<1>1. key \in DOMAIN Air /\ filter = key
  BY DEF Filtering
<1>2. pos \in DOMAIN Air[key]
  BY <1>1, NameAssumption DEF IInv, OneTable, None
<1>3. ASSUME NEW i \in DOMAIN done
      PROVE  /\ done[i].section \in Sections
             /\ Place(done[i].section) \in DOMAIN Air[key]
             /\ SectionAt(key, Place(done[i].section)) = done[i].section
  <2>1. done[i] \in Taken
    BY DEF IInv, TypeOK, BufsTyped
  <2>2. done[i].section \in Sections
    BY <2>1 DEF Taken
  <2>3. done[i].section.key = key
    BY DEF IInv, OneTable
  <2> QED BY <2>2, <2>3, PlaceOnAir
<1>4. done # <<>> => 1 \in DOMAIN done
  BY DEF IInv, TypeOK, BufsTyped
<1> QED BY <1>1, <1>2, <1>3, <1>4 DEF Ahead

\* Sections come in and move on; the one that is parsed next stays the same.
LEMMA OrderKept ==
  ASSUME Whole, UNCHANGED <<key, tsid, gaps, ext, parsed, twice, dropped, filter>>,
         rd \in {"poll", "held"}, rd' \in {"poll", "held"},
         ~Counting /\ ~dropped => InOrder' /\ Here' = Here
  PROVE  Whole'
<1>1. \A e : SectionsOf(e)' = SectionsOf(e)
  BY DEF SectionsOf
<1>2. Counting' = Counting /\ \A e : Foreign(e)' = Foreign(e) /\ Broadcast(e)' = Broadcast(e)
  BY DEF Counting, Foreign, Broadcast
<1>3. Met' /\ Filtering' /\ Ended'
  BY DEF Whole, Met, Filtering, Ended
<1>4. Counted'
  BY <1>1, <1>2 DEF Whole, Counted, CountedOf, AllBitsSet
<1>5. Turned'
  <2> SUFFICES ASSUME ~Counting, ~dropped PROVE Turned'
    BY <1>2 DEF Turned
  <2>1. InOrder' /\ Here' = Here
    OBVIOUS
  <2>2. ASSUME NEW e, Passed(e, Here) PROVE Passed(e, Here)'
    BY <2>1, <2>2, <1>1 DEF Passed, Turn
  <2>3. \A e \in DOMAIN ext : TurnedOf(e)'
    BY <1>1, <1>2, <2>2 DEF Whole, Turned, TurnedOf
  <2> QED BY <1>2, <2>1, <2>3 DEF Whole, Turned
<1> QED BY <1>3, <1>4, <1>5 DEF Whole

LEMMA DequeueWhole == ASSUME EachOnce, IInv, Whole, Dequeue PROVE Whole'
<1>1. /\ rd = "poll" /\ rd' = "held" /\ done # <<>>
      /\ held' = <<Head(done)>> /\ done' = Tail(done)
      /\ UNCHANGED <<key, tsid, gaps, ext, parsed, twice, dropped, filter, pos>>
  BY DEF Dequeue, sect, ghost
<1>2. /\ Head(done) = done[1] /\ 1 \in DOMAIN done /\ Len(done) \in Nat
      /\ Len(done') = Len(done) - 1
      /\ done \in Seq(Taken) /\ done' \in Seq(Taken)
      /\ \A i \in DOMAIN done' : i + 1 \in DOMAIN done /\ done'[i] = done[i + 1]
      /\ held = <<>>
  BY <1>1, DoneHead DEF IInv, OneTable, TypeOK, BufsTyped
<1>3. held' # <<>> /\ held'[1] = done[1]
  BY <1>1, <1>2
<1>4. Here' = Here
  BY <1>1, <1>2, <1>3 DEF Here, Ahead
<1>5. ASSUME InOrder PROVE InOrder'
  <2>0. Turn' = Turn
    BY <1>1 DEF Turn
  <2>1. ASSUME NEW i \in DOMAIN done', i + 1 \in DOMAIN done'
        PROVE  Place(done'[i + 1].section) = Following(Turn, Place(done'[i].section))
    BY <1>2, <1>5, <2>1 DEF InOrder
  <2>2. ASSUME done' # <<>>
        PROVE  /\ pos = Following(Turn, Place(done'[Len(done')].section))
               /\ 2 \in DOMAIN done /\ done'[1] = done[2]
    <3>1. /\ Len(done') \in DOMAIN done' /\ Len(done') + 1 = Len(done)
          /\ 1 \in DOMAIN done' /\ 1 + 1 = 2
      BY <1>2, <2>2
    <3> QED BY <3>1, <1>1, <1>2, <1>5 DEF InOrder
  <2>3. done' = <<>> => Len(done) = 1
    BY <1>2
  <2>4. Ahead' = Following(Turn, Place(done[1].section))
    <3>1. CASE done' = <<>>
      BY <3>1, <2>3, <1>1, <1>2, <1>5 DEF InOrder, Ahead
    <3>2. CASE done' # <<>>
      <4>1. 1 \in DOMAIN done /\ 1 + 1 = 2
        BY <1>2
      <4>2. Place(done[2].section) = Following(Turn, Place(done[1].section))
        BY <4>1, <2>2, <3>2, <1>5 DEF InOrder
      <4> QED BY <3>2, <4>2, <2>2 DEF Ahead
    <3> QED BY <3>1, <3>2
  <2> QED BY <1>1, <1>3, <2>0, <2>1, <2>2, <2>4 DEF InOrder
<1> QED BY <1>1, <1>4, <1>5, OrderKept DEF Whole, Turned

LEMMA DeliverWhole == ASSUME EachOnce, IInv, Whole, Deliver PROVE Whole'
<1>1. PICK b : done' = Append(done, [buf |-> b, section |-> SectionAt(filter, pos)])
  BY DEF Deliver
<1>2. /\ filter # None /\ Advance
      /\ UNCHANGED <<key, tsid, gaps, ext, parsed, twice, dropped, filter, held, rd>>
      /\ UNCHANGED <<ret, cut, abort>>
  BY DEF Deliver, sect, ghost
<1>3. CASE rd \notin {"poll", "held"}
  <2>1. rd = "stop"
    BY <1>2, <1>3 DEF IInv, OneTable
  <2> QED BY <1>2, <2>1, StoppedWhole
<1>4. CASE rd \in {"poll", "held"}
  <2>1. /\ key \in DOMAIN Air /\ pos \in DOMAIN Air[key] /\ filter = key
        /\ \A i \in DOMAIN done : Place(done[i].section) \in DOMAIN Air[key]
    BY <1>4, HereOnAir DEF Whole, Filtering
  <2> DEFINE d == [buf |-> b, section |-> SectionAt(filter, pos)]
  <2>2. Place(d.section) = pos
    BY <2>1, PlaceIs
  <2> HIDE DEF d
  <2>3. done' = Append(done, d)
    BY <1>1 DEF d
  <2>4. /\ Len(done) \in Nat /\ Len(done') = Len(done) + 1
        /\ DOMAIN done = 1 .. Len(done) /\ DOMAIN done' = 1 .. Len(done')
        /\ \A i \in DOMAIN done : done'[i] = done[i]
        /\ done'[Len(done')] = d /\ done' # <<>>
        /\ done # <<>> => 1 \in DOMAIN done
        /\ done = <<>> => Len(done) = 0
    BY <2>3 DEF IInv, TypeOK, BufsTyped
  <2>5. pos' = Following(Turn, pos)
    BY <1>2, <2>1 DEF Advance, Following, Turn
  <2>6. Turn' = Turn
    BY <1>2 DEF Turn
  <2>7. Ahead' = Ahead
    <3>1. CASE done = <<>>
      <4>1. done'[1] = d
        BY <2>4, <3>1
      <4> QED BY <2>2, <2>4, <3>1, <4>1 DEF Ahead
    <3>2. CASE done # <<>>
      BY <2>4, <3>2 DEF Ahead
    <3> QED BY <3>1, <3>2
  <2>8. Here' = Here
    BY <1>2, <2>7 DEF Here
  <2>9. ASSUME InOrder PROVE InOrder'
    <3>1. ASSUME NEW i \in DOMAIN done', i + 1 \in DOMAIN done'
          PROVE  Place(done'[i + 1].section) = Following(Turn, Place(done'[i].section))
      <4>1. CASE i + 1 \in DOMAIN done
        <5>1. i \in DOMAIN done
          BY <2>4, <3>1, <4>1
        <5> QED BY <2>4, <2>9, <4>1, <5>1 DEF InOrder
      <4>2. CASE i + 1 \notin DOMAIN done
        <5>1. i = Len(done) /\ i + 1 = Len(done') /\ i \in DOMAIN done /\ done # <<>>
          BY <2>4, <3>1, <4>2
        <5> QED BY <2>2, <2>4, <2>9, <5>1 DEF InOrder
      <4> QED BY <4>1, <4>2
    <3>2. pos' = Following(Turn, Place(done'[Len(done')].section))
      BY <2>2, <2>4, <2>5
    <3> QED BY <1>2, <2>6, <2>7, <2>9, <3>1, <3>2 DEF InOrder
  <2> QED BY <1>2, <1>4, <2>8, <2>9, OrderKept DEF Whole, Turned
<1> QED BY <1>3, <1>4

-----------------------------------------------------------------------------
(* A section is parsed. *)

\* A table read with bits: no section is taken twice, and an extension is done
\* when it has them all.
LEMMA ParseCounted ==
  ASSUME OneWord, SectTyped, Whole, Counting, NEW h \in Sections, h.key = key,
         ParseSection(h), UNCHANGED <<key, tsid, gaps>>
  PROVE  Met' /\ Counted'
<1>1. Counting' = Counting
  BY DEF Counting
<1>2. /\ ~twice /\ h.sec \in Nat /\ h.last \in Nat
      /\ \A e \in DOMAIN ext : key \in DOMAIN Air /\ CountedOf(e)
  BY SectionFields DEF Whole, Counted
<1>3. CASE UNCHANGED <<ext, parsed, twice>>
  BY <1>1, <1>3 DEF Whole, Met, Counted, CountedOf, SectionsOf, AllBitsSet
<1>4. ~Repeated(h)
  BY DEF Repeated
<1>5. CASE /\ ~Unwanted(h)
           /\ ext' = Put(h.ext, Stored(h))
           /\ parsed' = parsed \cup {<<h.ext, h.sec>>}
           /\ twice' = (twice \/ <<h.ext, h.sec>> \in parsed)
  <2>1. /\ DOMAIN ext' = DOMAIN ext \cup {h.ext} /\ ext'[h.ext] = Stored(h)
        /\ \A x \in DOMAIN ext : x # h.ext => ext'[x] = ext[x]
    BY <1>5 DEF Put
  <2>2. <<h.ext, h.sec>> \notin parsed
    <3> SUFFICES ASSUME <<h.ext, h.sec>> \in parsed PROVE FALSE
      OBVIOUS
    <3>1. h.ext \in DOMAIN ext
      BY DEF Whole, Met
    <3>2. h.sec \in ext[h.ext].bits
      BY <1>2, <3>1, SectionsMember DEF CountedOf
    <3> QED BY <1>5, <3>1, <3>2 DEF Unwanted, Known
  <2>3. ~twice'
    BY <1>2, <1>5, <2>2
  <2>4. \A e, s : s \in SectionsOf(e)' <=> s \in SectionsOf(e) \/ (e = h.ext /\ s = h.sec)
    <3>1. \A e, s : s \in SectionsOf(e)' <=> \E x \in parsed' : x[1] = e /\ x[2] = s
      BY DEF SectionsOf
    <3>2. \A e, s : s \in SectionsOf(e) <=> \E x \in parsed : x[1] = e /\ x[2] = s
      BY DEF SectionsOf
    <3> QED BY <1>5, <3>1, <3>2
  <2>5. /\ Stored(h).bits = (IF Known(h) THEN ext[h.ext].bits ELSE {}) \cup {h.sec}
        /\ Known(h) => Stored(h).last = ext[h.ext].last
        /\ ~Known(h) => Stored(h).last = h.last
        /\ Stored(h).done <=> AllBitsSet(Stored(h).last, Stored(h).bits)
    BY StoredIs
  <2>6. PICK i \in DOMAIN Air[key] : h = SectionAt(key, i)
    <3>1. PICK k \in DOMAIN Air : h \in {SectionAt(k, i) : i \in DOMAIN Air[k]}
      BY DEF Sections
    <3>2. PICK i \in DOMAIN Air[k] : h = SectionAt(k, i)
      BY <3>1
    <3>3. h.key = k
      BY <3>2 DEF SectionAt
    <3> QED BY <3>2, <3>3
  <2>7. /\ key \in DOMAIN Air
        /\ Air[key][i].ext = h.ext /\ Air[key][i].last = h.last /\ Air[key][i].sec = h.sec
        /\ h.sec \in 0 .. h.last /\ h.last < WordBits
        /\ \A j \in DOMAIN Air[key] : Air[key][j].ext = h.ext => Air[key][j].last = h.last
    <3>1. key \in DOMAIN Air
      BY SectionFields
    <3>2. Air[key][i].ext = h.ext /\ Air[key][i].last = h.last /\ Air[key][i].sec = h.sec
      BY <2>6 DEF SectionAt
    <3> QED BY <3>1, <3>2, AirAssumption DEF OneWord
  <2>8. CountedOf(h.ext)'
    <3>1. Stored(h).last = h.last
      <4>1. CASE Known(h)
        BY <1>2, <2>5, <2>7, <4>1 DEF Known, CountedOf
      <4> QED BY <2>5, <4>1
    <3>2. ~Known(h) => SectionsOf(h.ext) = {}
      <4> SUFFICES ASSUME ~Known(h), NEW s \in SectionsOf(h.ext) PROVE FALSE
        OBVIOUS
      <4>1. <<h.ext, s>> \in parsed
        BY SectionsMember
      <4> QED BY <4>1 DEF Whole, Met, Known
    <3>3. (IF Known(h) THEN ext[h.ext].bits ELSE {}) = SectionsOf(h.ext)
      BY <1>2, <3>2 DEF Known, CountedOf
    <3>4. Stored(h).bits = SectionsOf(h.ext) \cup {h.sec}
      BY <2>5, <3>3
    <3>5. SectionsOf(h.ext) \subseteq 0 .. h.last
      <4>1. CASE Known(h)
        <5>1. h.ext \in DOMAIN ext
          BY <4>1 DEF Known
        <5>2. CountedOf(h.ext)
          BY <1>2, <5>1
        <5>3. ext[h.ext].last = h.last
          BY <2>5, <3>1, <4>1
        <5> QED BY <5>2, <5>3 DEF CountedOf
      <4> QED BY <3>2, <4>1
    <3>6. Stored(h).bits = SectionsOf(h.ext)'
      BY <2>4, <3>4
    <3> DEFINE st == Stored(h)
    <3>7. /\ ext'[h.ext] = st /\ st.bits = SectionsOf(h.ext)' /\ st.bits # {}
          /\ st.bits \subseteq 0 .. st.last /\ st.last < WordBits /\ st.last = h.last
          /\ st.done => AllBitsSet(st.last, st.bits)
      BY <2>1, <2>5, <2>7, <3>1, <3>4, <3>5, <3>6
    <3> HIDE DEF st
    <3>8. key' = key
      OBVIOUS
    <3> QED BY <2>7, <3>7, <3>8 DEF CountedOf, AllBitsSet
  <2>9. ASSUME NEW e \in DOMAIN ext, e # h.ext PROVE CountedOf(e)'
    <3>1. SectionsOf(e)' = SectionsOf(e)
      <4>1. \A s : s \in SectionsOf(e)' <=> s \in SectionsOf(e)
        BY <2>4, <2>9
      <4> QED BY <4>1 DEF SectionsOf
    <3> QED BY <1>2, <2>1, <2>9, <3>1 DEF CountedOf, AllBitsSet
  <2>10. Met'
    BY <1>5, <2>1 DEF Whole, Met
  <2> QED BY <1>1, <2>1, <2>3, <2>7, <2>8, <2>9, <2>10 DEF Counted
<1> QED BY <1>3, <1>4, <1>5, ParseOutcomes

\* The sections of extension e at places of the carousel
Secs(e, A) == {Air[key][i].sec : i \in {j \in A : Air[key][j].ext = e}}

\* A table read without bits: an extension is done when the first of its sections
\* comes again, and then the carousel has turned once.
LEMMA ParseTurned ==
  ASSUME EachOnce, SectTyped, Whole, ~Counting, ~dropped, rd = "held",
         NEW h \in Sections, h.key = key, ParseSection(h), UNCHANGED <<key, tsid, gaps>>,
         NEW c, c = Place(h), NEW d, d = Following(Turn, c),
         \A e \in DOMAIN ext : ~Foreign(e) /\ ~ext[e].done => Passed(e, c)
  PROVE  /\ Met' /\ ~twice'
         /\ \A e \in DOMAIN ext' :
              /\ Foreign(e) => ~ext'[e].done
              /\ ext'[e].done => SectionsOf(e)' = Broadcast(e)
              /\ ~Foreign(e) /\ ~ext'[e].done => Passed(e, d)'
<1> DEFINE T == Turn
           Fine(e) == /\ Foreign(e) => ~ext'[e].done
                      /\ ext'[e].done => SectionsOf(e)' = Broadcast(e)
                      /\ ~Foreign(e) /\ ~ext'[e].done => Passed(e, d)'
<1>1. /\ key \in DOMAIN Air /\ DOMAIN Air[key] = 1 .. T /\ T \in Nat \ {0}
      /\ c \in 1 .. T /\ Air[key][c].ext = h.ext /\ Air[key][c].sec = h.sec
  BY PlaceOnAir, TurnIs DEF SectionAt, Turn
<1>2. \A i, j \in 1 .. T : Air[key][i].ext = Air[key][j].ext /\ Air[key][i].sec = Air[key][j].sec => i = j
  BY <1>1 DEF EachOnce
<1>3. /\ ~twice
      /\ \A e \in DOMAIN ext : /\ Foreign(e) => ~ext[e].done
                               /\ ext[e].done => SectionsOf(e) = Broadcast(e)
  BY DEF Whole, Turned, TurnedOf
<1>4. T' = T
  BY DEF Turn
<1> HIDE DEF T
<1>5. \A e : Passed(e, c) <=> \E r \in 1 .. T :
                        /\ Air[key][r].ext = e /\ Air[key][r].sec = ext[e].first
                        /\ SectionsOf(e) = Secs(e, Arc(T, r, c))
  BY <1>1 DEF Passed, Secs, T
<1>6. \A e : Passed(e, d)' <=> \E r \in 1 .. T :
                        /\ Air[key][r].ext = e /\ Air[key][r].sec = ext'[e].first
                        /\ SectionsOf(e)' = Secs(e, Arc(T, r, d))
  BY <1>1, <1>4 DEF Passed, Secs, T
<1>7. \A e : Broadcast(e) = Secs(e, 1 .. T)
  BY <1>1 DEF Broadcast, Secs
<1>8. \A q \in 1 .. T : q # c => Arc(T, q, d) = Arc(T, q, c) \cup {c} /\ c \notin Arc(T, q, c)
  BY <1>1, ArcGrows DEF T
<1>9. Arc(T, c, d) = {c} /\ Arc(T, c, c) = 1 .. T
  BY <1>1, ArcStarts DEF T
<1>10. \A e, A : /\ e # h.ext => Secs(e, A \cup {c}) = Secs(e, A)
                 /\ e = h.ext => Secs(e, A \cup {c}) = Secs(e, A) \cup {h.sec}
  BY <1>1 DEF Secs
<1>11. Secs(h.ext, {c}) = {h.sec}
  BY <1>1 DEF Secs
\* The other extensions
<1>12. ASSUME NEW e \in DOMAIN ext, e # h.ext, ext'[e] = ext[e],
              SectionsOf(e)' = SectionsOf(e)
       PROVE  Fine(e)
  <2>1. ASSUME Passed(e, c) PROVE Passed(e, d)'
    <3>1. PICK q \in 1 .. T : /\ Air[key][q].ext = e /\ Air[key][q].sec = ext[e].first
                              /\ SectionsOf(e) = Secs(e, Arc(T, q, c))
      BY <1>5, <2>1
    <3>2. q # c
      BY <1>1, <1>12, <3>1
    <3>3. Secs(e, Arc(T, q, d)) = Secs(e, Arc(T, q, c))
      BY <1>8, <1>10, <1>12, <3>2
    <3> QED BY <1>6, <1>12, <3>1, <3>3
  <2> QED BY <1>3, <1>12, <2>1
<1> HIDE DEF Fine
<1>13. CASE Unwanted(h) /\ UNCHANGED <<ext, parsed, twice>>
  <2>1. \A e : SectionsOf(e)' = SectionsOf(e)
    BY <1>13 DEF SectionsOf
  <2>2. ASSUME h.ext \in DOMAIN ext PROVE Fine(h.ext)
    <3>1. Foreign(h.ext) \/ ext[h.ext].done
      BY <1>13, <2>2 DEF Unwanted, Foreign, Known
    <3> QED BY <1>3, <1>13, <2>1, <2>2, <3>1 DEF Fine
  <2>3. \A e \in DOMAIN ext' : Fine(e)
    BY <1>12, <1>13, <2>1, <2>2
  <2> QED BY <1>3, <1>13, <2>3 DEF Fine, Whole, Met
\* The extension of h, if it is known, is neither done nor foreign.
<1>14. ASSUME ~Unwanted(h), Known(h)
       PROVE  /\ h.ext \in DOMAIN ext /\ ~ext[h.ext].done /\ ~Foreign(h.ext)
              /\ \E q \in 1 .. T :
                   /\ Air[key][q].ext = h.ext /\ Air[key][q].sec = ext[h.ext].first
                   /\ SectionsOf(h.ext) = Secs(h.ext, Arc(T, q, c))
  <2>1. h.ext \in DOMAIN ext /\ ~ext[h.ext].done /\ ~Foreign(h.ext)
    BY <1>14 DEF Unwanted, Known, Foreign
  <2> QED BY <1>5, <2>1
<1>15. CASE /\ ~Unwanted(h) /\ Repeated(h)
            /\ ext' = Put(h.ext, [ext[h.ext] EXCEPT !.done = TRUE])
            /\ UNCHANGED <<parsed, twice>>
  <2>1. Known(h) /\ ext[h.ext].first = h.sec
    BY <1>15 DEF Repeated
  <2>2. /\ h.ext \in DOMAIN ext /\ DOMAIN ext' = DOMAIN ext
        /\ \A x \in DOMAIN ext : x # h.ext => ext'[x] = ext[x]
    BY <1>15, <2>1 DEF Put, Known
  <2>3. \A e : SectionsOf(e)' = SectionsOf(e)
    BY <1>15 DEF SectionsOf
  <2>4. SectionsOf(h.ext) = Secs(h.ext, 1 .. T)
    <3>1. PICK q \in 1 .. T :
             /\ Air[key][q].ext = h.ext /\ Air[key][q].sec = ext[h.ext].first
             /\ SectionsOf(h.ext) = Secs(h.ext, Arc(T, q, c))
      BY <1>14, <1>15, <2>1
    <3>2. q = c
      BY <1>1, <1>2, <2>1, <3>1
    <3> QED BY <1>9, <3>1, <3>2
  <2>5. ext'[h.ext].done
    <3>1. ext[h.ext] \in [first : Nat, last : Nat, bits : SUBSET Nat, done : BOOLEAN]
      BY <2>2 DEF SectTyped
    <3> QED BY <1>15, <2>2, <3>1 DEF Put
  <2>6. Fine(h.ext)
    BY <1>7, <1>14, <1>15, <2>1, <2>3, <2>4, <2>5 DEF Fine
  <2>7. \A e \in DOMAIN ext' : Fine(e)
    BY <1>12, <2>2, <2>3, <2>6
  <2> QED BY <1>3, <1>15, <2>2, <2>7 DEF Fine, Whole, Met
<1>16. CASE /\ ~Unwanted(h) /\ ~Repeated(h)
            /\ ext' = Put(h.ext, Stored(h))
            /\ parsed' = parsed \cup {<<h.ext, h.sec>>}
            /\ twice' = (twice \/ <<h.ext, h.sec>> \in parsed)
  <2>1. /\ DOMAIN ext' = DOMAIN ext \cup {h.ext} /\ ext'[h.ext] = Stored(h)
        /\ \A x \in DOMAIN ext : x # h.ext => ext'[x] = ext[x]
    BY <1>16 DEF Put
  <2>2. \A e, s : s \in SectionsOf(e)' <=> s \in SectionsOf(e) \/ (e = h.ext /\ s = h.sec)
    <3>1. \A e, s : s \in SectionsOf(e)' <=> \E x \in parsed' : x[1] = e /\ x[2] = s
      BY DEF SectionsOf
    <3>2. \A e, s : s \in SectionsOf(e) <=> \E x \in parsed : x[1] = e /\ x[2] = s
      BY DEF SectionsOf
    <3> QED BY <1>16, <3>1, <3>2
  <2>3. /\ SectionsOf(h.ext)' = SectionsOf(h.ext) \cup {h.sec}
        /\ \A e : e # h.ext => SectionsOf(e)' = SectionsOf(e)
    <3>1. \A s : s \in SectionsOf(h.ext)' <=> s \in SectionsOf(h.ext) \cup {h.sec}
      BY <2>2
    <3>2. ASSUME NEW e, e # h.ext PROVE SectionsOf(e)' = SectionsOf(e)
      <4>1. \A s : s \in SectionsOf(e)' <=> s \in SectionsOf(e)
        BY <2>2, <3>2
      <4> QED BY <4>1 DEF SectionsOf
    <3> QED BY <3>1, <3>2
  <2>4. /\ Known(h) => ext'[h.ext].first = ext[h.ext].first
        /\ ~Known(h) => ext'[h.ext].first = h.sec
        /\ ~ext'[h.ext].done
    BY <2>1, StoredIs
  <2>5. <<h.ext, h.sec>> \notin parsed /\ Passed(h.ext, d)'
    <3>1. CASE Known(h)
      <4>1. PICK q \in 1 .. T :
               /\ Air[key][q].ext = h.ext /\ Air[key][q].sec = ext[h.ext].first
               /\ SectionsOf(h.ext) = Secs(h.ext, Arc(T, q, c))
        BY <1>14, <1>16, <3>1
      <4>2. ext[h.ext].first # h.sec
        BY <1>16, <3>1 DEF Repeated
      <4>3. q # c
        BY <1>1, <4>1, <4>2
      <4>4. h.sec \notin Secs(h.ext, Arc(T, q, c))
        <5> SUFFICES ASSUME h.sec \in Secs(h.ext, Arc(T, q, c)) PROVE FALSE
          OBVIOUS
        <5>1. PICK i \in Arc(T, q, c) : Air[key][i].ext = h.ext /\ Air[key][i].sec = h.sec
          BY DEF Secs
        <5>2. i \in 1 .. T
          BY DEF Arc
        <5>3. i = c
          BY <1>1, <1>2, <5>1, <5>2
        <5> QED BY <1>8, <4>3, <5>3
      <4>5. <<h.ext, h.sec>> \notin parsed
        BY <4>1, <4>4, SectionsMember
      <4>6. SectionsOf(h.ext)' = Secs(h.ext, Arc(T, q, d))
        BY <1>8, <1>10, <2>3, <4>1, <4>3
      <4> QED BY <1>6, <2>4, <3>1, <4>1, <4>5, <4>6
    <3>2. CASE ~Known(h)
      <4>1. SectionsOf(h.ext) = {} /\ <<h.ext, h.sec>> \notin parsed
        <5>1. \A s : <<h.ext, s>> \notin parsed
          BY <3>2 DEF Whole, Met, Known
        <5>2. \A s : s \notin SectionsOf(h.ext)
          BY <5>1, SectionsMember
        <5> QED BY <5>1, <5>2
      <4>2. SectionsOf(h.ext)' = Secs(h.ext, Arc(T, c, d))
        BY <1>9, <1>11, <2>3, <4>1
      <4> QED BY <1>1, <1>6, <2>4, <3>2, <4>1, <4>2
    <3> QED BY <3>1, <3>2
  <2>6. Fine(h.ext)
    BY <2>4, <2>5 DEF Fine
  <2>7. \A e \in DOMAIN ext' : Fine(e)
    BY <1>12, <2>1, <2>3, <2>6
  <2>8. Met' /\ ~twice'
    <3>1. ~twice'
      BY <1>3, <1>16, <2>5
    <3>2. Met'
      BY <1>16, <2>1 DEF Whole, Met
    <3> QED BY <3>1, <3>2
  <2> QED BY <2>7, <2>8 DEF Fine
<1> QED BY <1>13, <1>15, <1>16, ParseOutcomes

LEMMA HandleWhole == ASSUME OneWord, EachOnce, IInv, Whole, Handle PROVE Whole'
<1>1. PICK h : h = Head(held).section
  OBVIOUS
<1>2. /\ rd = "held" /\ ParseSection(h) /\ held' = <<>>
      /\ \/ rd' = (IF ret' = 0 THEN "poll" ELSE "stop")
         \/ rd' = "stop" /\ cut' = TRUE
      /\ UNCHANGED <<abort, filter, pos, done, dropped, key, tsid, gaps>>
  <2>1. /\ rd = "held" /\ ParseSection(Head(held).section) /\ held' = <<>>
        /\ UNCHANGED <<abort, filter, pos, done, dropped>>
    BY DEF Handle
  <2>2. \/ rd' = (IF ret' = 0 THEN "poll" ELSE "stop")
        \/ rd' = "stop" /\ cut' = TRUE
    BY Zenon DEF Handle
  <2>3. ParseSection(h)
    BY <1>1, <2>1
  <2>4. UNCHANGED <<key, tsid, gaps>>
    BY <2>3 DEF ParseSection
  <2> QED BY <2>1, <2>2, <2>3, <2>4
<1>3. Len(held) = 1 /\ held # <<>> /\ Head(held) = held[1] /\ held[1] \in Taken
  <2>1. rd = "held" /\ held \in Seq(Taken)
    BY <1>2 DEF IInv, TypeOK, BufsTyped
  <2>2. Len(held) = 1
    BY <2>1 DEF IInv, OneTable
  <2> QED BY <2>1, <2>2
<1>4. h \in Sections /\ h.key = key /\ h = held[1].section
  BY <1>1, <1>2, <1>3 DEF Taken, IInv, OneTable
<1>5. SectTyped
  BY DEF IInv, TypeOK
<1>6. Filtering'
  BY <1>2 DEF Whole, Filtering
\* A verdict of 1 is one on all extensions.
<1>7. Ended'
  <2> SUFFICES ASSUME rd' = "stop", ret' >= 0, ~cut' PROVE \A e \in DOMAIN ext' : ext'[e].done
    BY <1>2 DEF Ended
  <2>1. ret' # 0
    BY <1>2
  <2>2. ret' = Verdict(ext', h.ext)
    BY <1>2, <1>4, <1>5, <2>1, ParseOutcomes
  <2> QED BY <2>1, <2>2 DEF Verdict
<1>8. Met' /\ Counted' /\ Turned'
  <2>1. CASE Counting
    <3>1. Met' /\ Counted'
      BY <1>2, <1>4, <1>5, <2>1, ParseCounted
    <3>2. Turned'
      BY <1>2, <2>1 DEF Turned, Counting
    <3> QED BY <3>1, <3>2
  <2>2. CASE ~Counting /\ dropped
    <3>1. Met'
      <4>1. Met
        BY DEF Whole
      <4> QED BY <1>2, <1>4, <1>5, <4>1, ParseMet
    <3>2. Counted' /\ Turned'
      BY <1>2, <2>2 DEF Counted, Turned, Counting
    <3> QED BY <3>1, <3>2
  <2>3. CASE ~Counting /\ ~dropped
    <3>1. PICK c : c = Place(h)
      OBVIOUS
    <3>2. PICK d : d = Following(Turn, c)
      OBVIOUS
    <3>3. InOrder /\ Here = c /\ Ahead = d
      BY <1>2, <1>3, <1>4, <2>3, <3>1, <3>2 DEF Whole, Turned, InOrder, Here
    <3>4. \A e \in DOMAIN ext : ~Foreign(e) /\ ~ext[e].done => Passed(e, c)
      BY <1>2, <2>3, <3>3 DEF Whole, Turned, TurnedOf
    <3>5. /\ Met' /\ ~twice'
          /\ \A e \in DOMAIN ext' :
               /\ Foreign(e) => ~ext'[e].done
               /\ ext'[e].done => SectionsOf(e)' = Broadcast(e)
               /\ ~Foreign(e) /\ ~ext'[e].done => Passed(e, d)'
      BY <1>2, <1>4, <1>5, <2>3, <3>1, <3>2, <3>4, ParseTurned
    <3>6. Turn' = Turn /\ Here' = d
      BY <1>2, <3>3 DEF Turn, Here, Ahead
    <3>7. InOrder'
      BY <1>2, <3>3, <3>6 DEF InOrder
    <3>8. \A e \in DOMAIN ext' : TurnedOf(e)'
      <4> SUFFICES ASSUME NEW e \in DOMAIN ext' PROVE TurnedOf(e)'
        OBVIOUS
      <4>1. Foreign(e)' = Foreign(e) /\ Broadcast(e)' = Broadcast(e)
        BY <1>2 DEF Foreign, Broadcast
      <4>2. Passed(e, d)' => Passed(e, Here)'
        BY <3>6 DEF Passed
      <4> QED BY <3>5, <4>1, <4>2 DEF TurnedOf
    <3>9. Counted'
      BY <1>2, <2>3 DEF Counted, Counting
    <3> QED BY <3>5, <3>7, <3>8, <3>9 DEF Turned
  <2> QED BY <2>1, <2>2, <2>3
<1> QED BY <1>6, <1>7, <1>8 DEF Whole

LEMMA NextWhole == ASSUME OneWord, EachOnce, IInv, Whole, [Next]_vars PROVE Whole'
<1>1. CASE ReadNext
  <2>1. pc \in DOMAIN Air /\ StartRead(pc, NoTs, FALSE)
    BY <1>1 DEF ReadNext
  <2> QED BY <2>1, StartReadWhole
<1>2. CASE AppRead
  <2>1. "eit" \in DOMAIN Air
    BY ProgramAssumption
  <2>2. PICK t \in TsIds, g \in BOOLEAN : StartRead("eit", t, g)
    BY <1>2 DEF AppRead
  <2> QED BY <2>1, <2>2, StartReadWhole
<1>3. CASE Abort
  <2>1. /\ UNCHANGED <<key, tsid, gaps, ext, parsed, twice, rd, held, filter, done, pos, dropped>>
        /\ UNCHANGED <<ret, cut>> /\ abort'
    BY <1>3 DEF Abort, sect, demux, ghost
  <2> QED BY <2>1, SameTable
<1>4. CASE Drop
  <2>1. /\ UNCHANGED <<key, tsid, gaps, ext, parsed, twice, rd, held, filter>>
        /\ UNCHANGED <<ret, cut, abort>> /\ dropped' = TRUE
    BY <1>4 DEF Drop, sect
  <2> QED BY <2>1, SameTable
<1>5. CASE UNCHANGED vars
  <2>1. /\ UNCHANGED <<key, tsid, gaps, ext, parsed, twice, rd, held, filter, done, pos, dropped>>
        /\ UNCHANGED <<ret, cut, abort>>
    BY <1>5 DEF vars, ctl, sect, demux, ghost
  <2> QED BY <2>1, SameTable
<1>6. CASE PollEnds \/ BadSection \/ StopRead \/ Flush \/ StreamInit \/ Deinit \/ NextTransponder
  BY <1>6, QuietWhole
<1> QED
  BY <1>1, <1>2, <1>3, <1>4, <1>5, <1>6, HandleWhole, DequeueWhole, DeliverWhole,
     ReadReturnsWhole DEF Next, Reader

\* A read that comes back well has the whole table: for every carousel that sends
\* a section once in a turn and tables of at most as many sections as a word has
\* bits, however many buffers there are and whatever is lost on the way.
THEOREM TableWhole == ASSUME OneWord, EachOnce PROVE Spec => []TableComplete
<1>1. Init => Whole
  <2> SUFFICES ASSUME Init PROVE Whole
    OBVIOUS
  <2>1. DOMAIN ext = {} /\ parsed = {} /\ ~twice /\ rd = "idle"
    BY DEF Init
  <2> QED BY <2>1 DEF Whole, Met, Filtering, Counted, Turned, Ended
<1>2. IInv /\ Whole /\ [Next]_vars => Whole'
  BY NextWhole
<1>3. IInv /\ Whole => TableComplete
  <2> SUFFICES ASSUME IInv, Whole, rd = "back", ret >= 0, ~abort, ~cut, Counting \/ ~dropped
               PROVE  /\ ~twice
                      /\ \A e \in DOMAIN ext :
                           SectionsOf(e) = IF Counting THEN 0 .. ext[e].last ELSE Broadcast(e)
    BY DEF TableComplete
  <2>1. \A e \in DOMAIN ext : ext[e].done
    BY DEF Whole, Ended
  <2>2. CASE Counting
    <3>1. ~twice /\ \A e \in DOMAIN ext : CountedOf(e)
      BY <2>2 DEF Whole, Counted
    <3>2. ASSUME NEW e \in DOMAIN ext PROVE SectionsOf(e) = 0 .. ext[e].last
      <4> DEFINE bits == ext[e].bits
                 last == ext[e].last
      <4>1. /\ bits = SectionsOf(e) /\ bits # {} /\ bits \subseteq 0 .. last
            /\ last < WordBits /\ AllBitsSet(last, bits)
        BY <2>1, <3>1 DEF CountedOf
      <4>2. last \in Nat /\ WordBits \in Nat
        BY WordAssumption DEF IInv, TypeOK, SectTyped
      <4> HIDE DEF bits, last
      <4>3. \A b \in bits : b \in Nat /\ b < WordBits
        BY <4>1, <4>2
      <4>4. bits = {b \in 0 .. WordBits - 1 : b < (last + 1) % WordBits}
        BY <4>1, <4>3 DEF AllBitsSet
      <4>5. (last + 1) % WordBits = IF last + 1 = WordBits THEN 0 ELSE last + 1
        BY <4>1, <4>2
      <4>6. last + 1 # WordBits
        BY <4>1, <4>2, <4>4, <4>5
      <4>7. bits = 0 .. last
        <5>1. last + 1 < WordBits /\ (last + 1) % WordBits = last + 1
          BY <4>1, <4>2, <4>5, <4>6
        <5>2. bits = {b \in 0 .. WordBits - 1 : b < last + 1}
          BY <4>4, <5>1
        <5>3. \A b : b \in bits <=> b \in 0 .. last
          BY <4>2, <5>1, <5>2
        <5> QED BY <5>3
      <4> QED BY <4>1, <4>7 DEF last
    <3> QED BY <2>2, <3>1, <3>2
  <2>3. CASE ~Counting
    BY <2>1, <2>3 DEF Whole, Turned, TurnedOf
  <2> QED BY <2>2, <2>3
<1> QED BY <1>1, <1>2, <1>3, IInvHolds, PTL DEF Spec
=============================================================================
