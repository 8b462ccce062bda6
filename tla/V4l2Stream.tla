----------------------------- MODULE V4l2Stream -----------------------------
(***************************************************************************)
(* The streaming engine of libv4l2 (lib/libv4l2/libv4l2.c): one open       *)
(* capture device, the application's threads that call v4l2_read(),        *)
(* v4l2_ioctl(), v4l2_mmap(), v4l2_munmap() and v4l2_close() on it, and    *)
(* the kernel driver behind it.                                            *)
(*                                                                         *)
(* Every entry point takes stream_lock and keeps it until it returns, with *)
(* two exceptions that make the component hard: the lock is released       *)
(* around the blocking VIDIOC_DQBUF, and it stays held across the blocking *)
(* read() of the driver.  A call is therefore one step, cut in three at    *)
(* DQBUF (enter, the kernel hands out a buffer, take the lock again).      *)
(*                                                                         *)
(* A C function that works on devices[index] is an operator from the       *)
(* record that describes the device and its driver to the record it        *)
(* leaves, whose field "ok" is the result (TRUE for 0).  Fields whose name *)
(* starts with d belong to the driver, which is external.                  *)
(***************************************************************************)
EXTENDS Integers, FiniteSets

CONSTANTS
  Threads,      \* the application's threads
  MaxFrames,    \* V4L2_MAX_NO_FRAMES
  NRead,        \* V4L2_DEFAULT_NREADBUFFERS
  MinBufs,      \* the driver grants at least this many buffers
  IgnoreFirst,  \* V4L2_IGNORE_FIRST_FRAME_ERRORS
  SupportsRead, \* the driver has V4L2_CAP_READWRITE
  CanStream,    \* the driver has V4L2_CAP_STREAMING
  Orphans,      \* the driver frees buffers that are still mapped (else EBUSY)
  LaxInput,     \* the driver takes S_STD/S_INPUT while buffers are allocated
  DstOnly,      \* v4lconvert_supported_dst_fmt_only()
  Calls,        \* the API calls each thread of the application makes
  Refusable,    \* the requests the driver may refuse
  MaxGen,       \* bound: frame_info_generation
  MaxMaps       \* bound: fake mappings of one frame

BufferRequests == {"MAP", "QBUF", "QUERYBUF"}
DeviceRequests == {"REQBUFS", "STREAMON", "STREAMOFF", "TRY_FMT", "S_FMT",
                   "S_INPUT", "DQBUF", "READ", "CONVBUF"}
AllCalls == {"read", "DQBUF", "QBUF", "QUERYBUF", "STREAMON", "STREAMOFF",
             "REQBUFS", "S_FMT", "G_FMT", "S_PARM", "S_INPUT", "mmap",
             "munmap", "close"}

ASSUME StreamAssumption ==
  /\ MaxFrames \in Nat \ {0}
  /\ NRead \in 1..MaxFrames
  /\ MinBufs \in 1..MaxFrames
  /\ IgnoreFirst \in Nat
  /\ {SupportsRead, CanStream, Orphans, LaxInput, DstOnly} \subseteq BOOLEAN
  /\ Calls \in [Threads -> SUBSET AllCalls]
  /\ Refusable \subseteq BufferRequests \cup DeviceRequests
  /\ MaxGen \in Nat
  /\ MaxMaps \in Nat

VARIABLES
  dev,  \* devices[index] and the driver's view of the same file
  thr   \* what each thread is doing in the library

vars == <<dev, thr>>

Frames == 0..(MaxFrames - 1)
Upto(n) == 0..(n - 1)

\* struct v4l2_dev_info: V4L2_STREAMON, V4L2_BUFFERS_REQUESTED_BY_READ,
\* V4L2_STREAM_CONTROLLED_BY_READ, V4L2_USE_READ_FOR_READ and
\* V4L2_STREAM_TOUCHED are on, byRead, ctl, useRead and touched; conv is
\* v4l2_needs_conversion() of the formats; convBuf is the number of frames
\* convert_mmap_buf has room for (0: MAP_FAILED); ptr tells MAP_FAILED from a
\* mapping of the present or of a former allocation; gen and mapCount are
\* frame_info_generation and frame_map_count; held is a history variable, the
\* buffers the application may rightly think are its own to queue, and so is
\* asked, the application requested the buffers that are allocated.  Of the
\* driver: dN buffers, those queued (dQ) and among them filled (dDone),
\* streaming (dOn), busy with read() (dFio), mapped by the application (dMap).
World ==
  [open : BOOLEAN, on : BOOLEAN, byRead : BOOLEAN, ctl : BOOLEAN,
   useRead : BOOLEAN, touched : BOOLEAN, conv : BOOLEAN,
   noFrames : 0..MaxFrames, firstFrame : 0..IgnoreFirst,
   convBuf : 0..MaxFrames, ptr : [Frames -> {"none", "cur", "stale"}],
   queued : SUBSET Frames, gen : Nat, mapCount : [Frames -> Nat],
   ok : BOOLEAN, held : SUBSET Frames, asked : BOOLEAN, dN : 0..MaxFrames,
   dQ : SUBSET Frames, dDone : SUBSET Frames, dOn : BOOLEAN,
   dFio : BOOLEAN, dMap : SUBSET Frames]

\* The driver refuses at most one kind of request during one call; a request
\* made per buffer is refused for the buffers in bufs.
Faults ==
  {[req |-> "none", bufs |-> {}]}
    \cup [req : Refusable \cap DeviceRequests, bufs : {{}}]
    \cup [req : Refusable \cap BufferRequests, bufs : SUBSET Frames \ {{}}]

Refused(F, r) == F.req = r
RefusedFor(F, r, i) == F.req = r /\ i \in F.bufs

Ok(w) == [w EXCEPT !.ok = TRUE]
Fail(w) == [w EXCEPT !.ok = FALSE]

-----------------------------------------------------------------------------
(* The driver: the requests libv4l2 sends it, as videobuf2 answers them.    *)

Grant(k) == IF k = 0 THEN 0 ELSE IF k < MinBufs THEN MinBufs ELSE k

InUse(w) == w.dMap # {} \/ \E i \in Frames : w.ptr[i] = "cur"

\* VIDIOC_REQBUFS: a new allocation; pointers into the old one go stale.
DriverReqbufs(w, k, F) ==
  IF \/ Refused(F, "REQBUFS")
     \/ ~CanStream
     \/ w.dOn
     \/ w.dFio
     \/ ~Orphans /\ InUse(w)
  THEN Fail(w)
  ELSE [w EXCEPT !.ok = TRUE, !.dN = Grant(k), !.dQ = {}, !.dDone = {},
                 !.dMap = {}, !.held = Upto(Grant(k)),
                 !.ptr = [i \in Frames |-> IF @[i] = "cur" THEN "stale" ELSE @[i]]]

\* VIDIOC_QBUF is accepted for a buffer that exists and is not queued.
QbufOk(w, i, F) ==
  /\ i < w.dN
  /\ i \notin w.dQ
  /\ ~w.dFio
  /\ ~RefusedFor(F, "QBUF", i)

\* vb2_is_busy(): the format cannot change now.
DriverBusy(w) == w.dN > 0 \/ w.dFio

-----------------------------------------------------------------------------
(* The helpers of libv4l2.c.                                                *)

\* Mutant: room for one frame too few.
EnsureConvertMmapBufShort(w, F) ==
  IF w.convBuf > 0 THEN Ok(w)
  ELSE IF Refused(F, "CONVBUF") \/ w.noFrames = 0 THEN Fail(w)
  ELSE [w EXCEPT !.convBuf = w.noFrames - 1, !.ok = TRUE]

EnsureConvertMmapBuf(w, F) ==
  IF w.convBuf > 0 THEN Ok(w)
  ELSE IF Refused(F, "CONVBUF") \/ w.noFrames = 0 THEN Fail(w)
  ELSE [w EXCEPT !.convBuf = w.noFrames, !.ok = TRUE]

\* Mutant: buffers of the application count as read()'s own.
RequestReadBuffersClaims(w, F) ==
  LET count == IF w.noFrames > 0 THEN w.noFrames ELSE NRead
      d     == DriverReqbufs(w, count, F)
  IN IF ~d.ok THEN d ELSE [d EXCEPT !.byRead = TRUE, !.noFrames = d.dN]

RequestReadBuffers(w, F) ==
  LET count == IF w.noFrames > 0 THEN w.noFrames ELSE NRead
      d     == DriverReqbufs(w, count, F)
  IN IF ~d.ok THEN d
     ELSE [d EXCEPT !.byRead = @ \/ w.noFrames = 0, !.noFrames = d.dN]

\* Mutant: no_frames keeps its value.
UnrequestReadBuffersKeepsCount(w, F) ==
  LET d == DriverReqbufs(w, 0, F)
  IN IF ~w.byRead \/ w.noFrames = 0 \/ ~d.ok THEN w
     ELSE [d EXCEPT !.byRead = FALSE]

UnrequestReadBuffers(w, F) ==
  LET d == DriverReqbufs(w, 0, F)
  IN IF ~w.byRead \/ w.noFrames = 0 \/ ~d.ok THEN w
     ELSE [d EXCEPT !.noFrames = 0, !.byRead = FALSE]

\* Maps in index order and stops at the first failure.
MapBuffers(w, F) ==
  LET need == {i \in Upto(w.noFrames) : w.ptr[i] = "none"}
      bad  == {i \in need : i >= w.dN \/ RefusedFor(F, "MAP", i)}
      done == {i \in need : \A j \in bad : i < j}
  IN [w EXCEPT !.ptr = [i \in Frames |-> IF i \in done THEN "cur" ELSE @[i]],
               !.ok = (bad = {})]

UnmapBuffers(w) ==
  [w EXCEPT !.ptr = [i \in Frames |-> IF i < w.noFrames THEN "none" ELSE @[i]]]

StreamOn(w, F) ==
  IF w.on THEN Ok(w)
  ELSE IF Refused(F, "STREAMON") \/ w.dN = 0 \/ w.dFio THEN Fail(w)
  ELSE [w EXCEPT !.ok = TRUE, !.on = TRUE, !.dOn = TRUE,
                 !.firstFrame = IgnoreFirst]

\* Mutant: frame_queued survives.
StreamOffKeepsBits(w, F) ==
  IF ~w.on THEN Ok(w)
  ELSE IF Refused(F, "STREAMOFF") THEN Fail(w)
  ELSE [w EXCEPT !.ok = TRUE, !.on = FALSE,
                 !.dOn = FALSE, !.dQ = {}, !.dDone = {}, !.held = Upto(w.dN)]

StreamOff(w, F) ==
  IF ~w.on THEN Ok(w)
  ELSE IF Refused(F, "STREAMOFF") THEN Fail(w)
  ELSE [w EXCEPT !.ok = TRUE, !.on = FALSE, !.queued = {},
                 !.dOn = FALSE, !.dQ = {}, !.dDone = {}, !.held = Upto(w.dN)]

QueueReadBuffer(w, i, F) ==
  IF i \in w.queued THEN Ok(w)
  ELSE IF ~QbufOk(w, i, F) THEN Fail(w)
  ELSE [w EXCEPT !.ok = TRUE, !.queued = @ \cup {i}, !.dQ = @ \cup {i},
                 !.held = @ \ {i}]

\* Mutant: the last frame is left out.
QueueReadBuffersButLast(w, F) ==
  LET mapped == {i \in Upto(w.noFrames - 1) : w.ptr[i] # "none"}
      new    == {i \in mapped \ w.queued : QbufOk(w, i, F)}
  IN [w EXCEPT !.ok = (mapped # {}),
               !.queued = @ \cup new, !.dQ = @ \cup new, !.held = @ \ new]

QueueReadBuffers(w, F) ==
  LET mapped == {i \in Upto(w.noFrames) : w.ptr[i] # "none"}
      new    == {i \in mapped \ w.queued : QbufOk(w, i, F)}
  IN [w EXCEPT !.ok = (new \cup (mapped \cap w.queued) # {}),
               !.queued = @ \cup new, !.dQ = @ \cup new, !.held = @ \ new]

ActivateReadStream(w, F) ==
  LET a == RequestReadBuffers(w, F)
      b == MapBuffers(a, F)
      c == QueueReadBuffers(b, F)
  IN IF w.on \/ w.queued # {} THEN Fail(w)
     ELSE IF ~a.ok THEN a
     ELSE IF ~b.ok THEN b
     ELSE IF ~c.ok THEN c
     ELSE StreamOn([c EXCEPT !.ctl = TRUE], F)

DeactivateReadStream(w, F) ==
  LET a == StreamOff(w, F)
  IN IF ~a.ok THEN a
     ELSE [UnrequestReadBuffers(UnmapBuffers(a), F)
             EXCEPT !.ctl = FALSE, !.ok = TRUE]

\* Is one of the buffers mapped?  Without conversion the driver is asked.
BuffersMapped(w, F) ==
  \E i \in Upto(w.noFrames) :
    IF w.conv THEN w.mapCount[i] > 0
    ELSE \/ i >= w.dN
         \/ RefusedFor(F, "QUERYBUF", i)
         \/ i \in w.dMap
         \/ w.ptr[i] = "cur"

\* Mutants: no new generation; the buffers stay mapped; convert_mmap_buf is
\* freed before the busy check.
CheckBufferChangeOkSilently(w, F) ==
  LET u == UnmapBuffers(w)
      v == [u EXCEPT !.convBuf = 0, !.ok = TRUE]
  IN IF BuffersMapped(u, F) \/ (~u.ctl /\ (u.on \/ u.queued # {}))
     THEN Fail(u)
     ELSE IF v.ctl THEN DeactivateReadStream(v, F) ELSE v
CheckBufferChangeOkStillMapped(w, F) ==
  LET u == [w EXCEPT !.gen = @ + 1]
      v == [u EXCEPT !.convBuf = 0, !.ok = TRUE]
  IN IF BuffersMapped(u, F) \/ (~u.ctl /\ (u.on \/ u.queued # {}))
     THEN Fail(u)
     ELSE IF v.ctl THEN DeactivateReadStream(v, F) ELSE v
CheckBufferChangeOkFreesFirst(w, F) ==
  LET u == UnmapBuffers([w EXCEPT !.gen = @ + 1, !.convBuf = 0])
  IN IF BuffersMapped(u, F) \/ (~u.ctl /\ (u.on \/ u.queued # {}))
     THEN Fail(u)
     ELSE IF u.ctl THEN DeactivateReadStream(u, F) ELSE Ok(u)

CheckBufferChangeOk(w, F) ==
  LET u == UnmapBuffers([w EXCEPT !.gen = @ + 1])
      v == [u EXCEPT !.convBuf = 0, !.ok = TRUE]
  IN IF BuffersMapped(u, F) \/ (~u.ctl /\ (u.on \/ u.queued # {}))
     THEN Fail(u)
     ELSE IF v.ctl THEN DeactivateReadStream(v, F) ELSE v

SFmt(w, c, F) ==
  LET a == CheckBufferChangeOk(w, F)
  IN IF Refused(F, "TRY_FMT") THEN Fail(w)
     ELSE IF ~a.ok THEN a
     ELSE IF Refused(F, "S_FMT") \/ DriverBusy(a) THEN Fail(a)
     ELSE [a EXCEPT !.conv = c]

\* S_PARM: look for a source format that suits the new frame rate.
AdjustSrcFmtToFps(w, c, F) ==
  LET a == CheckBufferChangeOk(w, F)
  IN IF ~a.ok \/ Refused(F, "TRY_FMT") \/ Refused(F, "S_FMT") \/ DriverBusy(a)
     THEN Ok(a)
     ELSE [a EXCEPT !.conv = c]

\* S_STD, S_INPUT, S_DV_TIMINGS: the driver may come back with another format,
\* to which the destination format is then fitted.
SInput(w, changed, c, F) ==
  IF \/ Refused(F, "S_INPUT")
     \/ w.dOn \/ w.dFio
     \/ ~LaxInput /\ DriverBusy(w)
  THEN Fail(w)
  ELSE IF ~changed THEN Ok(w)
  ELSE Ok(SFmt([w EXCEPT !.conv = FALSE], c, F))

\* What every stream ioctl does first.
Touch(w, F) ==
  LET a == IF ~w.touched /\ DstOnly /\ ~w.conv THEN SFmt(w, TRUE, F) ELSE w
  IN [a EXCEPT !.touched = TRUE, !.ok = TRUE]

\* The mmap ioctls take the stream back from read().
TakeBack(w, F) ==
  LET a == Touch(w, F)
  IN IF a.ctl THEN DeactivateReadStream(a, F) ELSE a

-----------------------------------------------------------------------------
(* The threads.  kind says which caller of v4l2_dequeue_and_convert() or    *)
(* v4l2_read_and_convert() it is: read (v4l2_read), ioctl (VIDIOC_DQBUF of  *)
(* a converted frame), raw (VIDIOC_DQBUF without conversion), pass (read()  *)
(* handed to the kernel).                                                   *)

MaxTries == IgnoreFirst + 1

ThreadState ==
  [pc : {"idle", "dq", "got", "kread"},
   kind : {"none", "read", "ioctl", "raw", "pass"},
   gen : Nat, tries : 0..MaxTries, buf : Frames]

Idle == [pc |-> "idle", kind |-> "none", gen |-> 0, tries |-> 0, buf |-> 0]
In(pc, kind, gen, tries) ==
  [pc |-> pc, kind |-> kind, gen |-> gen, tries |-> tries, buf |-> 0]

\* stream_lock is held, between two steps, only across the driver's read().
LockFree == \A t \in Threads : thr[t].pc # "kread"

Enter(t, call) ==
  /\ call \in Calls[t]
  /\ dev.open
  /\ thr[t] = Idle
  /\ LockFree

Leave(w) == /\ dev' = Ok(w)
            /\ dev'.gen <= MaxGen

\* A call that enters, works on the device and returns without blocking.
Atomic(t, call, w) ==
  /\ Enter(t, call)
  /\ Leave(w)
  /\ UNCHANGED thr

\* The last lines of a call that leave stream_lock released around DQBUF.
Unlock(t, kind, tries, w) ==
  /\ Leave(w)
  /\ thr' = [thr EXCEPT ![t] = In("dq", kind, w.gen, tries)]

Read(t, F) ==
  LET a == IF dev.ctl \/ dev.useRead THEN dev ELSE ActivateReadStream(dev, F)
      b == IF a.ok THEN a
           ELSE [a EXCEPT !.useRead = TRUE, !.firstFrame = IgnoreFirst]
      m == MapBuffers(b, F)
      passed == SupportsRead /\ ~dev.conv   \* the kernel can do it alone
  IN /\ Enter(t, "read")
     /\ \/ /\ passed
           /\ thr' = [thr EXCEPT ![t] = In("kread", "pass", 0, 0)]
           /\ UNCHANGED dev
        \/ /\ ~passed /\ b.useRead
           /\ Leave(b)
           /\ thr' = [thr EXCEPT ![t] = In("kread", "read", 0, MaxTries)]
        \/ /\ ~passed /\ ~b.useRead /\ m.ok
           /\ Unlock(t, "read", MaxTries, m)
        \/ /\ ~passed /\ ~b.useRead /\ ~m.ok
           /\ Leave(m)
           /\ UNCHANGED thr

Dqbuf(t, F) ==
  LET a == TakeBack(dev, F)
      b == EnsureConvertMmapBuf(a, F)
      m == MapBuffers(b, F)
      w == IF ~a.ok THEN a ELSE IF ~b.ok THEN b ELSE m
  IN /\ Enter(t, "DQBUF")
     /\ \/ /\ a.ok /\ ~a.conv
           /\ Unlock(t, "raw", 0, a)
        \/ /\ a.ok /\ a.conv /\ w.ok
           /\ Unlock(t, "ioctl", MaxTries, w)
        \/ /\ IF a.ok /\ ~a.conv THEN FALSE ELSE ~w.ok
           /\ Leave(w)
           /\ UNCHANGED thr

\* The kernel hands a filled buffer to a thread that waits in DQBUF.
KernelDequeues(t) ==
  /\ thr[t].pc = "dq"
  /\ \E i \in dev.dDone :
       /\ dev' = [dev EXCEPT !.dQ = @ \ {i}, !.dDone = @ \ {i}]
       /\ thr' = [thr EXCEPT ![t].pc = "got", ![t].buf = i]

\* DQBUF fails: the stream was turned off, or the driver reports an error.
DqbufFails(t) ==
  /\ thr[t].pc = "dq"
  /\ LockFree
  /\ ~dev.dOn \/ "DQBUF" \in Refusable
  /\ thr' = [thr EXCEPT ![t] = Idle]
  /\ UNCHANGED dev

\* v4lconvert_convert(): converted, EAGAIN, EPIPE (short frame), other error.
Outcomes == {"ok", "again", "short", "bad"}

\* Errors in the first frames of a stream count as EAGAIN.
Judged(w, r) == IF w.firstFrame > 0 /\ r # "ok" THEN "again" ELSE r
CountedBelowZero(w) == [w EXCEPT !.firstFrame = @ - 1]   \* mutant
Counted(w) ==
  [w EXCEPT !.firstFrame = IF @ > 0 THEN @ - 1 ELSE 0]

\* Mutants: the last try never gives the buffer back; a frame that does not
\* convert is dropped.
GiveBackUnlessLast(w, i, last, r, F) ==
  IF last THEN w ELSE QueueReadBuffer(w, i, F)
GiveBackNever(w, i, last, r, F) == w

\* After a conversion error the buffer goes back to the driver, unless it is
\* the short frame that the caller is about to get.
GiveBack(w, i, last, r, F) ==
  IF last /\ r = "short" THEN w ELSE QueueReadBuffer(w, i, F)

\* v4l2_dequeue_and_convert() has the lock again.
Relock(t, outcome, F) ==
  LET i  == thr[t].buf
      w  == [dev EXCEPT !.queued = @ \ {i}]
      r  == Judged(w, outcome)
      c  == Counted(w)
      last == thr[t].tries = 1
      q  == GiveBack(c, i, last, r, F)
  IN /\ thr[t].pc = "got"
     /\ thr[t].kind # "raw"
     /\ LockFree
     /\ \/ /\ thr[t].gen # dev.gen           \* the frame is of no use any more
           /\ Leave(w)
           /\ thr' = [thr EXCEPT ![t] = Idle]
        \/ /\ thr[t].gen = dev.gen
           /\ r \in {"again", "short"} /\ ~last
           /\ Unlock(t, thr[t].kind, thr[t].tries - 1, q)
        \/ /\ thr[t].gen = dev.gen
           /\ r = "bad" \/ (r = "again" /\ last)
           /\ Leave(q)
           /\ thr' = [thr EXCEPT ![t] = Idle]
        \/ /\ thr[t].gen = dev.gen           \* a frame, or a short one at last
           /\ r = "ok" \/ (r = "short" /\ last)
           /\ IF thr[t].kind = "read"
              THEN Leave(QueueReadBuffer(c, i, F))
              ELSE Leave([c EXCEPT !.held = @ \cup {i}])
           /\ thr' = [thr EXCEPT ![t] = Idle]

\* VIDIOC_DQBUF without conversion returns the buffer to the application.
RelockRaw(t) ==
  /\ thr[t].pc = "got"
  /\ thr[t].kind = "raw"
  /\ LockFree
  /\ dev' = [dev EXCEPT !.held = @ \cup {thr[t].buf}]
  /\ thr' = [thr EXCEPT ![t] = Idle]

\* The driver's read() returns to a thread that holds stream_lock.
KernelReads(t, outcome) ==
  LET r == Judged(dev, outcome)
      last == thr[t].tries = 1
  IN /\ thr[t].pc = "kread"
     /\ \/ /\ dev.dN > 0 \/ ~SupportsRead \/ "READ" \in Refusable
           /\ thr' = [thr EXCEPT ![t] = Idle]
           /\ UNCHANGED dev
        \/ /\ dev.dN = 0 /\ SupportsRead
           /\ IF thr[t].kind = "pass"
              THEN /\ dev' = [dev EXCEPT !.dFio = TRUE]
                   /\ thr' = [thr EXCEPT ![t] = Idle]
              ELSE /\ dev' = [Counted(dev) EXCEPT !.dFio = TRUE]
                   /\ thr' = IF r \in {"again", "short"} /\ ~last
                             THEN [thr EXCEPT ![t].tries = @ - 1]
                             ELSE [thr EXCEPT ![t] = Idle]

\* The camera fills a queued buffer.
DriverFills ==
  /\ dev.dOn
  /\ \E i \in dev.dQ \ dev.dDone :
       dev' = [dev EXCEPT !.dDone = @ \cup {i}]
  /\ UNCHANGED thr

-----------------------------------------------------------------------------
(* The other calls.                                                         *)

\* VIDIOC_QBUF.  With conversion the real buffers must be mapped first.
QbufCall(w, i, F) ==
  LET a == TakeBack(w, F)
      b == IF a.conv THEN MapBuffers(a, F) ELSE Ok(a)
  IN IF ~a.ok THEN a
     ELSE IF ~b.ok \/ ~QbufOk(b, i, F) THEN b
     ELSE [b EXCEPT !.dQ = @ \cup {i}, !.held = @ \ {i}]

StreamOnCall(w, F) ==
  LET a == TakeBack(w, F) IN IF a.ok THEN StreamOn(a, F) ELSE a

StreamOffCall(w, F) ==
  LET a == TakeBack(w, F) IN IF a.ok THEN StreamOff(a, F) ELSE a

ReqbufsCall(w, n, F) ==
  LET a == CheckBufferChangeOk(Touch(w, F), F)
      d == DriverReqbufs(a, n, F)
  IN IF ~a.ok THEN a
     ELSE IF ~d.ok THEN d
     ELSE [d EXCEPT !.noFrames = d.dN, !.byRead = FALSE, !.asked = (d.dN > 0)]

Qbuf(t)    == \E i \in Frames, F \in Faults : Atomic(t, "QBUF", QbufCall(dev, i, F))
Querybuf(t) == \E F \in Faults : Atomic(t, "QUERYBUF", TakeBack(dev, F))
Streamon(t) == \E F \in Faults : Atomic(t, "STREAMON", StreamOnCall(dev, F))
Streamoff(t) == \E F \in Faults : Atomic(t, "STREAMOFF", StreamOffCall(dev, F))
Reqbufs(t) == \E n \in 0..MaxFrames, F \in Faults :
                 Atomic(t, "REQBUFS", ReqbufsCall(dev, n, F))
SetFmt(t)  == \E c \in BOOLEAN, F \in Faults :
                 Atomic(t, "S_FMT", SFmt(Touch(dev, F), c, F))
GetFmt(t)  == \E F \in Faults : Atomic(t, "G_FMT", Touch(dev, F))
SetParm(t) == \E c \in BOOLEAN, F \in Faults :
                 Atomic(t, "S_PARM", AdjustSrcFmtToFps(Touch(dev, F), c, F))
SetInput(t) == \E changed, c \in BOOLEAN, F \in Faults :
                 Atomic(t, "S_INPUT", SInput(Touch(dev, F), changed, c, F))

\* v4l2_mmap() of a converted frame: a part of convert_mmap_buf.  Applications
\* map the buffers they requested.
Mmap(t) ==
  \E i \in Frames, F \in Faults :
    LET a == EnsureConvertMmapBuf(dev, F)
    IN /\ dev.conv /\ ~dev.byRead
       /\ i < dev.noFrames
       /\ dev.mapCount[i] < MaxMaps
       /\ Atomic(t, "mmap",
                 IF a.ok THEN [a EXCEPT !.mapCount[i] = @ + 1] ELSE a)

\* v4l2_mmap() of a buffer of the driver, passed through without the lock.
MmapRaw(t) ==
  \E i \in Frames :
    /\ "mmap" \in Calls[t] /\ dev.open /\ thr[t] = Idle
    /\ ~dev.conv /\ ~dev.byRead /\ i < dev.dN
    /\ dev' = [dev EXCEPT !.dMap = @ \cup {i}]
    /\ UNCHANGED thr

\* v4l2_munmap() of a mapping the application made.
Munmap(t) ==
  \E i \in Frames :
    /\ dev.mapCount[i] > 0 /\ i < dev.convBuf
    /\ Atomic(t, "munmap",
              IF i < dev.noFrames THEN [dev EXCEPT !.mapCount[i] = @ - 1]
                                  ELSE dev)

MunmapRaw(t) ==
  \E i \in dev.dMap :
    /\ "munmap" \in Calls[t] /\ dev.open /\ thr[t] = Idle
    /\ dev' = [dev EXCEPT !.dMap = @ \ {i}]
    /\ UNCHANGED thr

\* The last v4l2_close(): every other call on the file has completed.  The
\* driver frees what it allocated when the file goes away.
Close(t) ==
  /\ \A s \in Threads : thr[s] = Idle
  /\ Atomic(t, "close",
       [UnmapBuffers(dev) EXCEPT
          !.open = FALSE, !.convBuf = 0, !.dN = 0, !.dQ = {}, !.dDone = {},
          !.dOn = FALSE, !.dFio = FALSE, !.dMap = {}, !.held = {}])

\* What v4l2_fd_open() leaves in the slot; it keeps the generation counter.
Opened(conv, gen) ==
  [open |-> TRUE, on |-> FALSE, byRead |-> FALSE, ctl |-> FALSE,
   useRead |-> ~CanStream, touched |-> FALSE, conv |-> conv, noFrames |-> 0,
   firstFrame |-> IF CanStream THEN 0 ELSE IgnoreFirst, convBuf |-> 0,
   ptr |-> [i \in Frames |-> "none"], queued |-> {}, gen |-> gen,
   mapCount |-> [i \in Frames |-> 0], ok |-> TRUE, held |-> {},
   asked |-> FALSE,
   dN |-> 0, dQ |-> {}, dDone |-> {}, dOn |-> FALSE, dFio |-> FALSE,
   dMap |-> {}]

Open ==
  /\ ~dev.open
  /\ \E conv \in BOOLEAN : dev' = Opened(conv, dev.gen)
  /\ UNCHANGED thr

-----------------------------------------------------------------------------

Init == /\ \E conv \in BOOLEAN : dev = Opened(conv, 0)
        /\ thr = [t \in Threads |-> Idle]

Resume(t) == \E outcome \in Outcomes :
               \/ \E F \in Faults : Relock(t, outcome, F)
               \/ KernelReads(t, outcome)

Call(t) ==
  \/ \E F \in Faults : Read(t, F) \/ Dqbuf(t, F)
  \/ Qbuf(t) \/ Querybuf(t) \/ Streamon(t) \/ Streamoff(t) \/ Reqbufs(t)
  \/ SetFmt(t) \/ GetFmt(t) \/ SetParm(t) \/ SetInput(t)
  \/ Mmap(t) \/ MmapRaw(t) \/ Munmap(t) \/ MunmapRaw(t)
  \/ Close(t)

Kernel(t) == KernelDequeues(t) \/ DqbufFails(t)

Next == \/ \E t \in Threads : Call(t) \/ Kernel(t) \/ Resume(t) \/ RelockRaw(t)
        \/ DriverFills
        \/ Open

Spec == Init /\ [][Next]_vars

\* A camera that streams keeps filling buffers, and a thread in the library
\* gets the processor and stream_lock.
Fairness ==
  /\ WF_vars(DriverFills)
  /\ \A t \in Threads : WF_vars(Kernel(t)) /\ WF_vars(Resume(t) \/ RelockRaw(t))

FairSpec == Spec /\ Fairness

-----------------------------------------------------------------------------
(* Properties.                                                              *)

\* Every field has its type; between two calls no error is pending.
TypeOK ==
  /\ dev \in World
  /\ dev.ok
  /\ thr \in [Threads -> ThreadState]

\* t has a frame that it will convert once it has stream_lock again.
Converting(t) ==
  /\ thr[t].pc = "got"
  /\ thr[t].kind \in {"read", "ioctl"}
  /\ thr[t].gen = dev.gen

InFlight == {thr[t].buf : t \in {s \in Threads : thr[s].pc = "got"}}

\* v4l2_dequeue_and_convert() converts from a mapping of the buffer the
\* driver filled: whoever unmapped the buffers or had them allocated anew
\* while the lock was released has changed frame_info_generation.
ConvertReadsMapped ==
  \A t \in Threads : Converting(t) => dev.ptr[thr[t].buf] = "cur"

\* The buffer a read() is converting is not in the driver's queue as well,
\* so the camera does not write the frame that is being read.
FrameHasOneOwner ==
  \A t \in Threads : Converting(t) => thr[t].buf \notin dev.dQ

\* VIDIOC_DQBUF converts into the slot of its buffer in convert_mmap_buf,
\* which is still there and large enough when the lock has been taken again.
DestinationLive ==
  \A t \in Threads :
    Converting(t) /\ thr[t].kind = "ioctl" => thr[t].buf < dev.convBuf

\* A set bit of frame_queued stands for a buffer the driver has, or one a
\* thread has just dequeued and not yet accounted for.
QueuedBitsHeld == dev.open => dev.queued \subseteq dev.dQ \cup InFlight

\* frame_queued is empty while the stream is off: a bit left over would make
\* v4l2_check_buffer_change_ok() answer EBUSY to every S_FMT and REQBUFS.
QueuedOnlyWhileOn == dev.open /\ dev.queued # {} => dev.on

\* A frame the application has mapped lies inside a live convert_mmap_buf and
\* is one of the device's frames.
FakeMapsBacked ==
  dev.open => \A i \in Frames : dev.mapCount[i] > 0 =>
                i < dev.convBuf /\ i < dev.noFrames

\* frame_pointers never keeps a mapping of buffers the driver has freed.
NoStaleMapping == \A i \in Frames : dev.ptr[i] # "stale"

\* v4l2_close() leaves no buffer of the driver mapped: v4l2_unmap_buffers()
\* looks at no_frames entries only, and no_frames changes many times.
NothingMappedOnceClosed == ~dev.open => \A i \in Frames : dev.ptr[i] = "none"

\* While the stream runs every buffer is with the driver, with the
\* application, or in the hands of a thread that dequeues it.
NoBufferLost ==
  dev.open /\ dev.on =>
    Upto(dev.noFrames) \subseteq dev.dQ \cup dev.held \cup InFlight

\* While read() runs the stream and nobody is dequeuing, the driver has all
\* the buffers: no read() returned without giving its buffer back.
ReadStreamFull ==
  dev.open /\ dev.ctl /\ dev.on /\ InFlight = {} => Upto(dev.noFrames) \subseteq dev.dQ

\* The library's idea of the stream and of the number of buffers is the
\* driver's, whatever requests were refused on the way.
ViewMatchesDriver == dev.open => dev.on = dev.dOn /\ dev.noFrames = dev.dN

\* libv4l2.c:1577 says "Activating mmap mode failed, use read() instead".  So,
\* where the driver has a read(), the buffers that v4l2_activate_read_stream()
\* requested before it failed do not keep the driver in mmap mode.  They do
\* where QUERYBUF, mmap() or QBUF fails, as README.md tells: no run has it.
ReadFallbackUsable ==
  dev.open /\ dev.useRead /\ SupportsRead => ~(dev.byRead /\ dev.dN > 0)

\* What every function of the library leaves true of an open device: the view
\* of the driver is right; nothing is mapped beyond no_frames; buffers that
\* read() requested have read()'s number; convert_mmap_buf, once allocated,
\* fits the number of frames, or the number read() will ask for again.
Sound(w) ==
  /\ w.on = w.dOn
  /\ w.noFrames = w.dN
  /\ w.noFrames = 0 \/ MinBufs <= w.noFrames
  /\ \A i \in Frames : w.ptr[i] # "none" => i < w.noFrames
  /\ w.dDone \subseteq w.dQ
  /\ w.dQ \subseteq Upto(w.dN)
  /\ w.byRead => w.noFrames = Grant(NRead)
  /\ w.convBuf > 0 => \/ w.noFrames = w.convBuf
                      \/ w.noFrames = 0 /\ w.convBuf = Grant(NRead)

\* A thread (of state x) inside VIDIOC_DQBUF with conversion has its destination.
HasDestination(x, w) ==
  x.kind = "ioctl" /\ x.gen = w.gen =>
    /\ x.pc = "dq" => w.convBuf > 0
    /\ x.pc = "got" => x.buf < w.convBuf

\* Whoever converts a frame has a try left, and only read() is passed through.
HasTries(x) ==
  /\ x.pc \in {"dq", "got"} => x.kind # "pass"
  /\ x.pc = "kread" => x.kind # "raw"
  /\ x.pc # "idle" /\ x.kind \notin {"raw", "pass"} => x.tries > 0

\* No thread's generation is from the future.
Fits(x, w) == x.gen <= w.gen /\ HasDestination(x, w) /\ HasTries(x)

\* The inductive invariant behind ViewMatchesDriver, DestinationLive and
\* NothingMappedOnceClosed: what v4l2_fd_open() and every call keep true.
IInv ==
  /\ TypeOK
  /\ dev.open => Sound(dev)
  /\ ~dev.open => /\ \A t \in Threads : thr[t] = Idle
                  /\ \A i \in Frames : dev.ptr[i] = "none"
  /\ \A t \in Threads : Fits(thr[t], dev)

\* A change of the format under a thread that is in DQBUF changes the
\* generation that thread compares.
FormatChangeIsSeen ==
  [][\A t \in Threads :
       thr[t].pc \in {"dq", "got"} /\ thr[t].kind \in {"read", "ioctl"}
         /\ thr[t].gen = dev.gen /\ dev'.conv # dev.conv
       => dev'.gen # dev.gen]_vars

\* Buffers the application requested are freed by a buffer change that passed
\* the busy check, never by the read() emulation cleaning up after itself.
AppBuffersKept ==
  [][dev.open /\ dev'.open /\ dev.asked /\ dev.dN > 0 /\ dev'.dN = 0
       => dev'.gen > dev.gen]_vars

\* A thread in read() or in DQBUF comes back.
EveryCallReturns == \A t \in Threads : thr[t] # Idle ~> thr[t] = Idle
=============================================================================
