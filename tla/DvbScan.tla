------------------------------ MODULE DvbScan ------------------------------
(***************************************************************************)
(* The DVB scan of libdvbv5 (lib/libdvbv5/dvb-scan.c, dvb-vb2.c):          *)
(* dvb_get_ts_tables() reads the tables of a transport stream one after    *)
(* the other.  Each dvb_read_sections() sets a filter on the demux, takes  *)
(* sections in the order the carousel brings them, and ends when every     *)
(* extension it met is complete.  Sections come through read() or, with a  *)
(* stream context, in buffers that travel between the driver and the       *)
(* reader.  The demux is external.                                         *)
(***************************************************************************)
EXTENDS Integers, Sequences, FiniteSets

CONSTANTS
  Air,          \* what is broadcast: key of a table -> its sections, in order
  TableOf,      \* key of a table -> its table id
  Programs,     \* the programs the PAT lists: keys of PMTs, or NetworkPid
  NetworkPid,   \* a program with service id 0
  TsIds,        \* the ts_ids an application asks for; NoTs stands for -1
  NoTs,
  WordBits,     \* BITS_PER_LONG
  NBuf,         \* STREAM_BUF_CNT
  MaxFaults     \* bound on failures and dropped sections

ASSUME WordAssumption == WordBits \in Nat \ {0}
ASSUME BufAssumption == NBuf \in Nat /\ MaxFaults \in Nat
\* The steps of a scan that read no table are not names of tables.
ASSUME NameAssumption == DOMAIN Air \cap {"init", "app", "end", "none"} = {}
ASSUME AirAssumption ==
  \A k \in DOMAIN Air :
    /\ Len(Air[k]) \in Nat \ {0} /\ DOMAIN Air[k] = 1 .. Len(Air[k])
    /\ \A i \in DOMAIN Air[k] : /\ Air[k][i].last \in Nat
                                /\ Air[k][i].sec \in 0 .. Air[k][i].last
ASSUME ProgramAssumption ==
  /\ {"pat", "vct", "nit", "sdt", "nit2", "sdt2", "eit"} \subseteq DOMAIN Air
  /\ Programs \in Seq(DOMAIN Air \cup {NetworkPid})

VARIABLES
  pc,           \* what dvb_get_ts_tables() reads: a key, or init, pmts, app, end
  prog, nprog,  \* num_pmt, and the number of programs in the PAT that was read
  stream,       \* parms->stream_ctx # NULL
  atsc, other,  \* atsc_filter, other_nit
  vct,          \* handler->vct # NULL
  abort,        \* parms->abort
  rd,           \* where dvb_read_sections() is
  ret,          \* its ret
  key,          \* the table it reads (sect->tid, sect->pid)
  tsid, gaps,   \* sect->ts_id, sect->allow_section_gaps
  ext,          \* priv->extensions, by ext_id
  parsed,       \* sections handed to dvb_table_initializers[]
  twice,        \* one of them was handed over twice
  held,         \* the section taken from the demux, if there is one
  bufcnt, flag, \* stream_ctx->buf_cnt, buf_flag[]
  filter, pos,  \* the demux: filter set, next section on air
  queued, done, \* the demux: empty buffers, and filled ones with their section
  dropped,      \* a section passed unseen during this read
  cut,          \* a buffer could not be queued again during this read
  spoilt,       \* sections that ended a read, buffers that could not be queued
  faults

ctl == <<pc, prog, nprog, stream, atsc, other, vct>>
sect == <<key, tsid, gaps, ext, parsed, twice>>
bufs == <<bufcnt, flag>>
demux == <<filter, pos, queued, done>>
ghost == <<dropped, cut, spoilt>>
vars == <<ctl, abort, rd, ret, sect, held, bufs, demux, ghost, faults>>

None == "none"
Bufs == 1 .. NBuf
Fault == faults < MaxFaults /\ faults' = faults + 1

SectionAt(k, i) ==
  [key |-> k, ext |-> Air[k][i].ext, sec |-> Air[k][i].sec, last |-> Air[k][i].last]
Sections == UNION {{SectionAt(k, i) : i \in DOMAIN Air[k]} : k \in DOMAIN Air}

-----------------------------------------------------------------------------
(* dvb_parse_section(): what one section does to the filter. *)

\* Bits are only kept for a table without gaps that is read whole.
Counting == ~gaps /\ tsid = NoTs

\* Mutant: the mask of one bit less.
AllBitsSetShort(nr, bits) ==
  {b \in bits : b < WordBits} = {b \in 0 .. WordBits - 1 : b < nr % WordBits}

\* is_all_bits_set(): it looks at the first word only.
AllBitsSet(nr, bits) ==
  {b \in bits : b < WordBits} = {b \in 0 .. WordBits - 1 : b < (nr + 1) % WordBits}

NewExt(h) == [first |-> h.sec, last |-> h.last, bits |-> {}, done |-> FALSE]

Known(h) == h.ext \in DOMAIN ext

Unwanted(h) ==
  \/ DOMAIN ext # {} /\ tsid # NoTs /\ h.ext # tsid
  \/ Known(h) /\ ext[h.ext].done
  \/ Known(h) /\ Counting /\ h.sec \in ext[h.ext].bits

\* Mutant: the last section number instead of the first section seen.
RepeatedLast(h) == Known(h) /\ ~Counting /\ ext[h.ext].last = h.sec

Repeated(h) == Known(h) /\ ~Counting /\ ext[h.ext].first = h.sec

\* The extension after section h was stored.
Stored(h) ==
  LET e == IF Known(h) THEN ext[h.ext] ELSE NewExt(h)
      bits == IF Counting THEN e.bits \cup {h.sec} ELSE e.bits
  IN  [e EXCEPT !.bits = bits, !.done = Counting /\ AllBitsSet(e.last, bits)]

Put(e, r) == [x \in DOMAIN ext \cup {e} |-> IF x = e THEN r ELSE ext[x]]

\* 1 when all extensions seen are done, 0 to go on.
Verdict(exts, e) == IF exts[e].done /\ \A x \in DOMAIN exts : exts[x].done THEN 1 ELSE 0

ParseSection(h) ==
  /\ UNCHANGED <<key, tsid, gaps>>
  /\ IF TableOf[h.key] # TableOf[key] \/ Unwanted(h)
       THEN /\ ret' = IF TableOf[h.key] # TableOf[key] THEN -1 ELSE 0
            /\ UNCHANGED <<ext, parsed, twice>>
       ELSE /\ ext' = Put(h.ext, IF Repeated(h) THEN [ext[h.ext] EXCEPT !.done = TRUE]
                                                ELSE Stored(h))
            /\ parsed' = IF Repeated(h) THEN parsed ELSE parsed \cup {<<h.ext, h.sec>>}
            /\ twice' = (twice \/ (~Repeated(h) /\ <<h.ext, h.sec>> \in parsed))
            /\ ret' = Verdict(ext', h.ext)

-----------------------------------------------------------------------------
(* dvb_read_sections() *)

\* An empty table, and the filter on the demux; or the filter is refused.
StartRead(k, t, g) ==
  /\ rd = "idle"
  /\ key' = k /\ tsid' = t /\ gaps' = g
  /\ ext' = <<>> /\ parsed' = {} /\ twice' = FALSE
  /\ \/ /\ rd' = "poll" /\ ret' = 0
        /\ filter' = k /\ pos' \in DOMAIN Air[k]
        /\ done' = IF stream THEN done ELSE <<>>
        /\ UNCHANGED faults
     \/ /\ Fault
        /\ rd' = "back" /\ ret' = -1
        /\ UNCHANGED <<filter, pos, done>>
  /\ UNCHANGED <<ctl, abort, held, bufs, queued, ghost>>

\* dvb_poll() ends the read: aborted, nothing in time, or select() failed.
PollEnds ==
  /\ rd = "poll"
  /\ \/ abort /\ ret' = 0 /\ UNCHANGED faults
     \/ ~abort /\ done = <<>> /\ ret' = -1 /\ UNCHANGED faults
     \/ ~abort /\ done # <<>> /\ ret' = -1 /\ Fault
  /\ rd' = "stop"
  /\ UNCHANGED <<ctl, abort, sect, held, bufs, demux, ghost>>

\* A section is read, with its buffer if there is a stream context.
Dequeue ==
  /\ rd = "poll" /\ ~abort /\ done # <<>>
  /\ held' = <<Head(done)>> /\ done' = Tail(done)
  /\ flag' = IF stream THEN [flag EXCEPT ![Head(done).buf] = FALSE] ELSE flag
  /\ rd' = "held"
  /\ UNCHANGED <<ctl, abort, ret, sect, bufcnt, filter, pos, queued, ghost, faults>>

\* The buffer is empty, the read failed or the checksum is wrong.
BadSection ==
  /\ rd = "held" /\ Fault
  /\ ret' \in {-1, -2, -3}
  /\ rd' = "stop" /\ held' = <<>>
  /\ spoilt' = spoilt + 1
  /\ UNCHANGED <<ctl, abort, sect, bufs, demux, dropped, cut>>

\* Mutant: the loop is left before the buffer is queued again.
HandleKeeps ==
  /\ rd = "held"
  /\ ParseSection(Head(held).section)
  /\ held' = <<>>
  /\ rd' = IF ret' = 0 THEN "poll" ELSE "stop"
  /\ queued' = IF stream /\ ret' = 0 THEN queued \cup {Head(held).buf} ELSE queued
  /\ flag' = IF stream /\ ret' = 0 THEN [flag EXCEPT ![Head(held).buf] = TRUE] ELSE flag
  /\ UNCHANGED <<cut, spoilt, faults>>
  /\ UNCHANGED <<ctl, abort, bufcnt, filter, pos, done, dropped>>

\* The section is parsed and its buffer goes back to the driver.
Handle ==
  /\ rd = "held"
  /\ ParseSection(Head(held).section)
  /\ held' = <<>>
  /\ \/ /\ rd' = IF ret' = 0 THEN "poll" ELSE "stop"
        /\ queued' = IF stream THEN queued \cup {Head(held).buf} ELSE queued
        /\ flag' = IF stream THEN [flag EXCEPT ![Head(held).buf] = TRUE] ELSE flag
        /\ UNCHANGED <<cut, spoilt, faults>>
     \/ /\ stream /\ Fault                      \* dvb_v5_stream_qbuf() < 0
        /\ rd' = "stop"
        /\ cut' = TRUE /\ spoilt' = spoilt + 1
        /\ UNCHANGED <<queued, flag>>
  /\ UNCHANGED <<ctl, abort, bufcnt, filter, pos, done, dropped>>

\* dvb_dmx_stop(), dvb_table_filter_free()
StopRead ==
  /\ rd = "stop"
  /\ filter' = None /\ pos' = 1
  /\ rd' = IF stream THEN "flush" ELSE "back"
  /\ UNCHANGED <<ctl, abort, ret, sect, held, bufs, queued, done, ghost, faults>>

\* Mutant: the pending buffers stay as they are.
FlushNothing ==
  /\ rd = "flush" /\ rd' = "back"
  /\ UNCHANGED <<ctl, abort, ret, sect, held, bufs, demux, ghost, faults>>

\* What is left in the buffers is thrown away before the next filter is set.
Flush ==
  /\ rd = "flush"
  /\ \/ /\ done = <<>>
        /\ rd' = "back"
        /\ UNCHANGED <<queued, done, spoilt, faults>>
     \/ /\ done # <<>>
        /\ done' = Tail(done)
        /\ \/ queued' = queued \cup {Head(done).buf} /\ UNCHANGED <<spoilt, faults>>
           \/ Fault /\ spoilt' = spoilt + 1 /\ UNCHANGED queued
        /\ UNCHANGED rd
  /\ UNCHANGED <<ctl, abort, ret, sect, held, bufs, filter, pos, dropped, cut>>

-----------------------------------------------------------------------------
(* dvb_get_ts_tables() *)

\* dvb_v5_stream_init() with n buffers from the driver, of which m were queued.
Buffers(n, m) ==
  /\ bufcnt' = n /\ queued' = 1 .. m
  /\ flag' = [b \in Bufs |-> b <= m]
  /\ spoilt' = n - m

\* With a stream context the buffers are set up first; one that is refused, or
\* a handler that cannot be allocated, ends the scan.
StreamInit ==
  /\ pc = "init"
  /\ \/ /\ ~stream /\ Buffers(0, 0)
        /\ pc' = "pat" /\ UNCHANGED <<rd, faults>>
     \/ /\ stream /\ \E n \in Bufs : Buffers(n, n)
        /\ pc' = "pat" /\ UNCHANGED <<rd, faults>>
     \/ /\ stream /\ \E n \in Bufs : \E m \in 0 .. n : Buffers(n, m)
        /\ pc' = "end" /\ rd' = "deinit" /\ Fault
  /\ done' = <<>>
  /\ UNCHANGED <<prog, nprog, stream, atsc, other, vct, abort, ret, sect, held,
                 filter, pos, dropped, cut>>

\* The buffers dvb_v5_stream_deinit() takes from the driver before it unmaps them.
Flagged == {b \in 1 .. bufcnt : flag[b]}

\* dvb_v5_stream_deinit(): a DMX_DQBUF for each, and each waits for a filled one.
Deinit ==
  /\ rd = "deinit"
  /\ Cardinality(Flagged) <= Len(done)
  /\ rd' = "idle"
  /\ done' = SubSeq(done, Cardinality(Flagged) + 1, Len(done))
  /\ UNCHANGED <<ctl, abort, ret, sect, held, bufs, filter, pos, queued, ghost, faults>>

\* The table after program i - 1: the next PMT, then the NIT.
ToProgram(i, n) ==
  LET rest == {j \in i .. n : Programs[j] # NetworkPid}
  IN  /\ nprog' = n
      /\ \/ rest = {} /\ prog' = n + 1 /\ pc' = "nit"
         \/ \E j \in rest : /\ \A m \in rest : j <= m
                            /\ prog' = j /\ pc' = Programs[j]

AfterNit == IF ~vct \/ other THEN "sdt" ELSE "app"

\* What follows the table just read, whether or not it came.
NextTable ==
  \/ /\ pc = "pat"
     /\ \/ ret < 0 /\ pc' = "end" /\ UNCHANGED <<prog, nprog>>
        \/ /\ ret >= 0
           /\ \E n \in 0 .. Len(Programs) :
                /\ cut \/ n = Len(Programs)
                /\ IF atsc THEN pc' = "vct" /\ nprog' = n /\ UNCHANGED prog
                           ELSE ToProgram(1, n)
     /\ UNCHANGED vct
  \/ /\ pc = "vct"
     /\ ToProgram(1, nprog)
     /\ vct' = (parsed # {})
  \/ /\ pc \notin {"pat", "vct", "nit", "sdt", "nit2", "sdt2", "app"}
     /\ ToProgram(prog + 1, nprog)
     /\ UNCHANGED vct
  \/ /\ pc = "nit"
     /\ pc' = AfterNit
     /\ UNCHANGED <<prog, nprog, vct>>
  \/ /\ pc \in {"sdt", "nit2", "sdt2"}
     /\ pc' = CASE pc = "sdt" /\ other -> "nit2" [] pc = "nit2" -> "sdt2" [] OTHER -> "app"
     /\ UNCHANGED <<prog, nprog, vct>>
  \/ /\ pc = "app"
     /\ pc' = "end"
     /\ UNCHANGED <<prog, nprog, vct>>

\* The struct dvb_table_filter of the read goes out of scope.
NoSect ==
  /\ key' = None /\ tsid' = NoTs /\ gaps' = FALSE
  /\ ext' = <<>> /\ parsed' = {} /\ twice' = FALSE

\* A read returns: an abort ends the scan, otherwise the next table follows.  A
\* scan that is broken off takes its buffers down; one that is through does not.
ReadReturns ==
  /\ rd = "back"
  /\ \/ abort /\ pc' = "end" /\ UNCHANGED <<prog, nprog, vct>>
     \/ ~abort /\ NextTable
  /\ rd' = IF stream /\ pc # "app" /\ pc' = "end" THEN "deinit" ELSE "idle"
  /\ NoSect /\ dropped' = FALSE /\ cut' = FALSE
  /\ ret' = 0
  /\ UNCHANGED <<stream, atsc, other, abort, held, bufs, demux, spoilt, faults>>

ReadNext == pc \in DOMAIN Air /\ StartRead(pc, NoTs, FALSE)

\* After the scan the application may read a table of its own, with an
\* extension it looks for or with gaps in the numbering; without either its
\* read is like those of the scan.
AppRead ==
  pc = "app" /\ \E t \in TsIds, g \in BOOLEAN : (t # NoTs \/ g) /\ StartRead("eit", t, g)

\* The next transponder: a new dvb_get_ts_tables() on the same demux.
NextTransponder ==
  /\ pc = "end" /\ rd = "idle" /\ ~abort
  /\ pc' = "init" /\ prog' = 1 /\ nprog' = 0
  /\ vct' = FALSE /\ ret' = 0
  /\ UNCHANGED <<stream, atsc, other, abort, rd, sect, held, bufs, demux, ghost, faults>>

\* A signal handler sets parms->abort.
Abort ==
  /\ ~abort /\ abort' = TRUE
  /\ UNCHANGED <<ctl, rd, ret, sect, held, bufs, demux, ghost, faults>>

-----------------------------------------------------------------------------
(* The demux (external): the section on air goes into a free buffer. *)

Advance == pos' = IF pos = Len(Air[filter]) THEN 1 ELSE pos + 1

Deliver ==
  /\ filter # None
  /\ IF stream
       THEN \E b \in queued : /\ \A c \in queued : b <= c
                              /\ queued' = queued \ {b}
                              /\ done' = Append(done, [buf |-> b, section |-> SectionAt(filter, pos)])
       ELSE /\ Len(done) < NBuf
            /\ done' = Append(done, [buf |-> 0, section |-> SectionAt(filter, pos)])
            /\ UNCHANGED queued
  /\ Advance
  /\ UNCHANGED <<ctl, abort, rd, ret, sect, held, bufs, filter, ghost, faults>>

\* Noise: a section is dropped, or no buffer was free when it came.
Drop ==
  /\ filter # None /\ Fault
  /\ Advance
  /\ dropped' = TRUE
  /\ UNCHANGED <<ctl, abort, rd, ret, sect, held, bufs, filter, queued, done, cut, spoilt>>

-----------------------------------------------------------------------------
Init ==
  /\ pc = "init" /\ prog = 1 /\ nprog = 0
  /\ stream \in BOOLEAN /\ atsc \in BOOLEAN /\ other \in BOOLEAN
  /\ vct = FALSE /\ abort = FALSE
  /\ rd = "idle" /\ ret = 0
  /\ key = None /\ tsid = NoTs /\ gaps = FALSE
  /\ ext = <<>> /\ parsed = {} /\ twice = FALSE
  /\ held = <<>> /\ bufcnt = 0 /\ flag = [b \in Bufs |-> FALSE]
  /\ filter = None /\ pos = 1 /\ queued = {} /\ done = <<>>
  /\ dropped = FALSE /\ cut = FALSE /\ spoilt = 0 /\ faults = 0

Reader ==
  \/ PollEnds \/ Dequeue \/ BadSection \/ Handle \/ StopRead \/ Flush
  \/ StreamInit \/ Deinit \/ ReadNext \/ AppRead \/ ReadReturns

Next == Reader \/ NextTransponder \/ Abort \/ Deliver \/ Drop

Spec == Init /\ [][Next]_vars

\* The reader is a running thread and dvb_poll() has a timeout.
FairSpec == Spec /\ WF_vars(Reader)

-----------------------------------------------------------------------------
Exts == {x.ext : x \in Sections}
Taken == [buf : 0 .. NBuf, section : Sections]

ScanTyped ==
  /\ pc \in DOMAIN Air \cup {"init", "app", "end"}
  /\ prog \in Nat /\ nprog \in 0 .. Len(Programs)
  /\ stream \in BOOLEAN /\ atsc \in BOOLEAN /\ other \in BOOLEAN
  /\ vct \in BOOLEAN /\ abort \in BOOLEAN
  /\ rd \in {"idle", "poll", "held", "stop", "flush", "back", "deinit"}
  /\ ret \in -3 .. 1

SectTyped ==
  /\ key \in DOMAIN Air \cup {None}
  /\ tsid \in TsIds \cup {NoTs} /\ gaps \in BOOLEAN
  /\ DOMAIN ext \subseteq Exts
  /\ \A e \in DOMAIN ext :
       ext[e] \in [first : Nat, last : Nat, bits : SUBSET Nat, done : BOOLEAN]
  /\ parsed \subseteq Exts \X Nat /\ twice \in BOOLEAN

BufsTyped ==
  /\ held \in Seq(Taken) /\ done \in Seq(Taken)
  /\ bufcnt \in 0 .. NBuf /\ flag \in [Bufs -> BOOLEAN]
  /\ queued \subseteq Bufs
  /\ filter \in DOMAIN Air \cup {None} /\ pos \in Nat
  /\ dropped \in BOOLEAN /\ cut \in BOOLEAN
  /\ spoilt \in Nat /\ faults \in 0 .. MaxFaults

TypeOK == ScanTyped /\ SectTyped /\ BufsTyped

SectionsOf(e) == {x[2] : x \in {p \in parsed : p[1] = e}}
Broadcast(e) == {Air[key][i].sec : i \in {j \in DOMAIN Air[key] : Air[key][j].ext = e}}

(* When a read comes back without an error, every extension of the table   *)
(* that was met is whole and each of its sections was parsed once, in      *)
(* whatever order they came and whichever were lost.  With gaps or for one *)
(* ts_id, where the end is the first section coming again, this holds when *)
(* no section was missed.                                                  *)
TableComplete ==
  rd = "back" /\ ret >= 0 /\ ~abort /\ ~cut /\ (Counting \/ ~dropped) =>
    /\ ~twice
    /\ \A e \in DOMAIN ext :
         SectionsOf(e) = IF Counting THEN 0 .. ext[e].last ELSE Broadcast(e)

(* A read never meets a section of the table read before it, not even the  *)
(* one of another program under the same table id.                         *)
NoStaleSection == held # <<>> => Head(held).section.key = key

(* Through all reads of a scan, timeouts and aborts, a buffer stays with   *)
(* the driver or the reader; each section that spoils a read, and each     *)
(* refusal to queue a buffer, costs the scan one, and nothing else does.   *)
BuffersAccounted ==
  stream => bufcnt = Cardinality(queued) + Len(done) + Len(held) + spoilt

\* A ts_id was asked for, and the first section was of another extension.
ForeignFirst == tsid # NoTs /\ DOMAIN ext \ {tsid} # {}

\* A scan with a stream context was broken off: its buffers are with a demux
\* that was stopped and fills none.
Unfilled == rd = "deinit" /\ Cardinality(Flagged) > Len(done)

ScanOver == pc = "end" /\ rd = "idle"

(* A scan ends, whatever is lost and however long the carousel turns,      *)
(* unless a read for one ts_id began with a section of another, or the     *)
(* buffers of a scan that was broken off are waited for.                   *)
ScanEnds == pc = "init" ~> (ScanOver \/ ForeignFirst \/ Unfilled)

(* dvb-fe.h:103 says of parms->abort: "Client should set it to abort a     *)
(* pending operation like DTV scan".  So a scan that is told to is over at *)
(* some time.  As README.md tells, it is not (dvb-vb2.c:260), so that no   *)
(* run has this property.                                                  *)
AbortEnds == abort ~> ScanOver
=============================================================================
