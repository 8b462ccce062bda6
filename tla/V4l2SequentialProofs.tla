------------------------ MODULE V4l2SequentialProofs ------------------------
(***************************************************************************)
(* Proofs about the buffers of V4l2Stream: that those the application      *)
(* requested are kept, for any number of threads; and, for an application  *)
(* of one thread and a driver that refuses neither STREAMON nor QBUF, that *)
(* each buffer is where frame_queued and the read() emulation expect it.   *)
(***************************************************************************)
EXTENDS V4l2StreamProofs

USE StreamAssumption

-----------------------------------------------------------------------------
(* What the functions of the library keep, beyond Sound.                    *)

\* Buffers that the application requested are not read()'s own.
Claimed(w) == w.asked => w.dN > 0 /\ ~w.byRead

\* Between two steps of one thread: every bit of frame_queued is a buffer with
\* the driver, and there is none without a stream; no buffer is lost; read()'s
\* stream has them all.
Tidy(w) ==
  /\ w.queued \subseteq w.dQ
  /\ w.queued # {} => w.on /\ (w.ctl \/ w.conv)
  /\ Upto(w.noFrames) \subseteq w.dQ \cup w.held
  /\ w.ctl /\ w.on => Upto(w.noFrames) \subseteq w.dQ
  /\ w.dDone # {} => w.on
  /\ w.dFio => w.dN = 0

\* What all functions but v4l2_activate_read_stream() and VIDIOC_REQBUFS do.
Good(w, v) ==
  /\ v.useRead = w.useRead
  /\ v.ctl => w.ctl
  /\ v.asked = w.asked
  /\ Claimed(w) => Claimed(v)
  /\ Tidy(w) => Tidy(v)

Alike(w, v) ==
  /\ v.useRead = w.useRead /\ v.ctl = w.ctl /\ v.asked = w.asked
  /\ v.byRead = w.byRead /\ v.queued = w.queued /\ v.on = w.on /\ v.conv = w.conv
  /\ v.noFrames = w.noFrames /\ v.held = w.held
  /\ v.dN = w.dN /\ v.dQ = w.dQ /\ v.dDone = w.dDone /\ v.dFio = w.dFio

\* What the functions do composes.
LEMMA GoodTransitive ==
  ASSUME NEW u, NEW v, NEW w, Good(u, v), Good(v, w)
  PROVE  Good(u, w)
  BY DEF Good

\* Fields that neither relation looks at may change freely.
LEMMA AlikeGood ==
  ASSUME NEW w, NEW v, Alike(w, v)
  PROVE  Good(w, v)
  BY DEF Good, Alike, Claimed, Tidy

\* And such changes compose.
LEMMA AlikeTransitive ==
  ASSUME NEW u, NEW v, NEW w, Alike(u, v), Alike(v, w)
  PROVE  Alike(u, w)
  BY DEF Alike

\* The result of a function is such a field.
LEMMA OkAlike ==
  ASSUME NEW w \in World, NEW b
  PROVE  Alike(w, [w EXCEPT !.ok = b])
  BY DEF World, Alike

\* Returning 0 or -1 right away.
LEMMA ResultAlike ==
  ASSUME NEW w \in World
  PROVE  /\ Alike(w, Ok(w)) /\ Alike(w, Fail(w)) /\ Alike(w, w)
         /\ ~Fail(w).ok /\ Ok(w).ok
  BY DEF World, Alike, Ok, Fail

\* v4l2_unmap_buffers() moves no buffer between the driver and the application.
LEMMA UnmapAlike ==
  ASSUME NEW w \in World
  PROVE  Alike(w, UnmapBuffers(w))
  BY DEF World, Alike, UnmapBuffers

\* The same of v4l2_map_buffers().
LEMMA MapAlike ==
  ASSUME NEW w \in World, NEW F
  PROVE  Alike(w, MapBuffers(w, F))
  BY DEF World, Alike, MapBuffers

\* v4l2_ensure_convert_mmap_buf() moves no buffer either.
LEMMA EnsureAlike ==
  ASSUME NEW w \in World, NEW F
  PROVE  Alike(w, EnsureConvertMmapBuf(w, F))
<1>1. Alike(w, [w EXCEPT !.convBuf = w.noFrames, !.ok = TRUE])
  BY DEF World, Alike
<1> QED BY <1>1, ResultAlike DEF EnsureConvertMmapBuf

\* v4l2_streamoff() takes everything back from the driver.
LEMMA StreamOffGood ==
  ASSUME NEW w \in World, NEW F, Sound(w)
  PROVE  /\ Good(w, StreamOff(w, F))
         /\ StreamOff(w, F).ok => ~StreamOff(w, F).on
<1> DEFINE v == [w EXCEPT !.ok = TRUE, !.on = FALSE, !.queued = {},
                          !.dOn = FALSE, !.dQ = {}, !.dDone = {}, !.held = Upto(w.dN)]
<1>1. \/ ~w.on /\ StreamOff(w, F) = Ok(w)
      \/ StreamOff(w, F) = Fail(w)
      \/ StreamOff(w, F) = v
  BY DEF StreamOff
<1>2. /\ v.useRead = w.useRead /\ v.ctl = w.ctl /\ v.asked = w.asked
      /\ v.byRead = w.byRead /\ v.dN = w.dN /\ v.dFio = w.dFio /\ v.noFrames = w.noFrames
      /\ v.queued = {} /\ v.dQ = {} /\ v.dDone = {} /\ ~v.on /\ v.held = Upto(w.dN)
  BY DEF World
<1>3. w.noFrames = w.dN
  BY DEF Sound
<1> HIDE DEF v
<1>4. Good(w, v) /\ ~v.on
  BY <1>2, <1>3 DEF Good, Claimed, Tidy
<1>5. Good(w, Ok(w)) /\ Good(w, Fail(w)) /\ Ok(w).on = w.on /\ ~Fail(w).ok
  BY ResultAlike, AlikeGood DEF Alike
<1> QED BY <1>1, <1>4, <1>5

\* v4l2_streamon(), but for read()'s own stream.
LEMMA StreamOnGood ==
  ASSUME NEW w \in World, NEW F, ~w.ctl
  PROVE  Good(w, StreamOn(w, F))
<1> DEFINE v == [w EXCEPT !.ok = TRUE, !.on = TRUE, !.dOn = TRUE,
                          !.firstFrame = IgnoreFirst]
<1>1. StreamOn(w, F) \in {Ok(w), Fail(w), v}
  BY DEF StreamOn
<1>2. /\ v.useRead = w.useRead /\ v.ctl = w.ctl /\ v.asked = w.asked
      /\ v.byRead = w.byRead /\ v.dN = w.dN /\ v.dFio = w.dFio /\ v.noFrames = w.noFrames
      /\ v.queued = w.queued /\ v.dQ = w.dQ /\ v.dDone = w.dDone /\ v.on /\ v.held = w.held
      /\ v.conv = w.conv
  BY DEF World
<1> HIDE DEF v
<1>3. Good(w, v)
  BY <1>2 DEF Good, Claimed, Tidy
<1>4. Good(w, Ok(w)) /\ Good(w, Fail(w))
  BY ResultAlike, AlikeGood
<1> QED BY <1>1, <1>3, <1>4

-----------------------------------------------------------------------------
(* The buffers are allocated anew.                                          *)

\* d is w with n buffers that nobody has queued yet.
Allocated(w, d, n) ==
  /\ ~w.on /\ ~d.on /\ ~d.dFio
  /\ d.useRead = w.useRead /\ d.ctl = w.ctl /\ d.asked = w.asked
  /\ d.byRead = w.byRead /\ d.queued = w.queued /\ d.conv = w.conv
  /\ d.dN = n /\ d.dQ = {} /\ d.dDone = {} /\ d.held = Upto(n)

\* VIDIOC_REQBUFS is for a stream that is off; refused, it changes nothing.
LEMMA DriverReqbufsOk ==
  ASSUME NEW w \in World, Sound(w), NEW k \in 0..MaxFrames, NEW F,
         NEW d, d = DriverReqbufs(w, k, F)
  PROVE  /\ d.ok => Allocated(w, d, Grant(k))
         /\ ~d.ok => Alike(w, d)
<1> DEFINE ptr == [i \in Frames |-> IF w.ptr[i] = "cur" THEN "stale" ELSE w.ptr[i]]
           v   == [w EXCEPT !.ok = TRUE, !.dN = Grant(k), !.dQ = {}, !.dDone = {},
                            !.dMap = {}, !.held = Upto(Grant(k)), !.ptr = ptr]
<1>1. d = Fail(w) \/ (~w.dOn /\ ~w.dFio /\ d = v)
  BY DEF DriverReqbufs
<1>2. Alike(w, Fail(w)) /\ ~Fail(w).ok
  BY ResultAlike
<1> HIDE DEF ptr
<1>3. ASSUME ~w.dOn, ~w.dFio PROVE v.ok /\ Allocated(w, v, Grant(k))
  BY <1>3 DEF World, Sound, Allocated
<1> HIDE DEF v
<1> QED BY <1>1, <1>2, <1>3

\* A new allocation that libv4l2 counts leaves every buffer in its place.
LEMMA AllocatedTidy ==
  ASSUME NEW w, NEW d, NEW v, NEW n, Allocated(w, d, n), Tidy(w),
         v.on = d.on, v.dFio = d.dFio, v.queued = d.queued, v.dQ = d.dQ,
         v.dDone = d.dDone, v.held = d.held, v.noFrames = n
  PROVE  Tidy(v)
  BY DEF Allocated, Tidy

\* v4l2_request_read_buffers(): there are buffers then, nobody has them queued,
\* and those the application requested stay the application's.
LEMMA RequestReadBuffersGood ==
  ASSUME NEW w \in World, Sound(w), NEW F, NEW a, a = RequestReadBuffers(w, F)
  PROVE  /\ Good(w, a)
         /\ a.ctl = w.ctl
         /\ a.ok => ~a.on /\ a.dN > 0 /\ a.dQ = {} /\ a.dDone = {} /\ ~a.dFio
                    /\ a.queued = w.queued
<1> DEFINE count == IF w.noFrames > 0 THEN w.noFrames ELSE NRead
           d     == DriverReqbufs(w, count, F)
           v     == [d EXCEPT !.byRead = d.byRead \/ w.noFrames = 0, !.noFrames = d.dN]
<1>1. count \in 0..MaxFrames /\ count > 0
  BY DEF World
<1>2. a = IF ~d.ok THEN d ELSE v
  BY DEF RequestReadBuffers
<1> HIDE DEF count
<1>3. d \in World
  BY <1>1, DriverReqbufsFacts
<1>4. /\ d.ok => Allocated(w, d, Grant(count))
      /\ ~d.ok => Alike(w, d)
  BY <1>1, DriverReqbufsOk
<1>5. Grant(count) \in 0..MaxFrames /\ Grant(count) > 0
  BY <1>1, GrantFacts
<1> HIDE DEF d
<1>6. CASE ~d.ok
  <2>1. a = d /\ ~a.ok
    BY <1>2, <1>6
  <2>2. Alike(w, a)
    BY <1>4, <1>6, <2>1
  <2> QED BY <2>1, <2>2, AlikeGood DEF Alike
<1>7. CASE d.ok
  <2>1. Allocated(w, d, Grant(count)) /\ a = v
    BY <1>2, <1>4, <1>7
  <2>2. /\ v.on = d.on /\ v.dFio = d.dFio /\ v.queued = d.queued /\ v.dQ = d.dQ
        /\ v.dDone = d.dDone /\ v.held = d.held /\ v.noFrames = d.dN /\ v.dN = d.dN
        /\ v.useRead = d.useRead /\ v.ctl = d.ctl /\ v.asked = d.asked
        /\ v.byRead => d.byRead \/ w.noFrames = 0
    BY <1>3 DEF World
  <2> HIDE DEF v
  <2>3. Tidy(w) => Tidy(v)
    <3>1. v.noFrames = Grant(count)
      BY <2>1, <2>2 DEF Allocated
    <3> QED BY <2>1, <2>2, <3>1, AllocatedTidy
  <2>4. Claimed(w) => Claimed(v)
    BY <1>5, <2>1, <2>2 DEF Allocated, Claimed, Sound
  <2>5. Good(w, v)
    BY <2>1, <2>2, <2>3, <2>4 DEF Allocated, Good
  <2> QED BY <1>5, <2>1, <2>2, <2>5 DEF Allocated
<1> QED BY <1>6, <1>7

\* v4l2_unrequest_read_buffers() frees no buffers of the application.
LEMMA UnrequestReadBuffersGood ==
  ASSUME NEW w \in World, Sound(w), NEW F, NEW r, r = UnrequestReadBuffers(w, F)
  PROVE  Good(w, r) /\ r.queued = w.queued /\ (r.on => w.on)
<1> DEFINE d == DriverReqbufs(w, 0, F)
           v == [d EXCEPT !.noFrames = 0, !.byRead = FALSE]
<1>1. r = w \/ (w.byRead /\ d.ok /\ r = v)
  BY DEF UnrequestReadBuffers
<1>2. 0 \in 0..MaxFrames /\ Grant(0) = 0
  BY GrantFacts
<1>3. d \in World /\ (d.ok => Allocated(w, d, 0))
  BY <1>2, DriverReqbufsFacts, DriverReqbufsOk
<1> HIDE DEF d
<1>4. ASSUME w.byRead, d.ok PROVE Good(w, v) /\ v.queued = w.queued /\ (v.on => w.on)
  <2>1. /\ v.on = d.on /\ v.dFio = d.dFio /\ v.queued = d.queued /\ v.dQ = d.dQ
        /\ v.dDone = d.dDone /\ v.held = d.held /\ v.noFrames = 0
        /\ v.useRead = d.useRead /\ v.ctl = d.ctl /\ v.asked = d.asked
    BY <1>2, <1>3 DEF World
  <2> HIDE DEF v
  <2>2. Allocated(w, d, 0)
    BY <1>3, <1>4
  <2>3. Tidy(w) => Tidy(v)
    BY <2>1, <2>2, AllocatedTidy
  <2>4. Claimed(w) => Claimed(v)
    BY <1>4, <2>1, <2>2 DEF Claimed, Allocated
  <2> QED BY <2>1, <2>2, <2>3, <2>4 DEF Good, Allocated
<1> HIDE DEF v
<1>5. Good(w, w)
  BY DEF Good
<1> QED BY <1>1, <1>4, <1>5

-----------------------------------------------------------------------------
(* Taking the stream back, and buffer changes.                              *)

\* v4l2_deactivate_read_stream(): no bit of frame_queued outlives read()'s stream.
LEMMA DeactivateReadStreamGood ==
  ASSUME NEW w \in World, Sound(w), NEW F, NEW d, d = DeactivateReadStream(w, F)
  PROVE  /\ Good(w, d)
         /\ d.ok => ~d.ctl
         /\ d.ok /\ Tidy(w) => d.queued = {}
<1> DEFINE a == StreamOff(w, F)
           u == UnmapBuffers(a)
           r == UnrequestReadBuffers(u, F)
           v == [r EXCEPT !.ctl = FALSE, !.ok = TRUE]
<1>1. d = IF ~a.ok THEN a ELSE v
  BY DEF DeactivateReadStream
<1>2. a \in World /\ Sound(a) /\ Good(w, a) /\ (a.ok => ~a.on)
  BY StreamOffKeeps, StreamOffGood DEF Keeps
<1> HIDE DEF a
<1>3. u \in World /\ Sound(u) /\ Alike(a, u) /\ Unmapped(u)
  BY <1>2, UnmapKeeps, UnmapAlike DEF Keeps
<1> HIDE DEF u
<1>4. r \in World /\ Good(u, r) /\ r.queued = u.queued /\ (r.on => u.on)
  BY <1>3, UnrequestReadBuffersKeeps, UnrequestReadBuffersGood DEF Keeps
<1> HIDE DEF r
<1>5. Good(w, r)
  BY <1>2, <1>3, <1>4, AlikeGood, GoodTransitive
<1>6. CASE ~a.ok
  BY <1>1, <1>2, <1>6
<1>7. CASE a.ok
  <2>1. d = v /\ ~r.on
    BY <1>1, <1>2, <1>3, <1>4, <1>7 DEF Alike
  <2>2. /\ v.useRead = r.useRead /\ ~v.ctl /\ v.asked = r.asked /\ v.byRead = r.byRead
        /\ v.queued = r.queued /\ v.on = r.on /\ v.noFrames = r.noFrames
        /\ v.held = r.held /\ v.dN = r.dN /\ v.dQ = r.dQ /\ v.dDone = r.dDone
        /\ v.dFio = r.dFio
    BY <1>4 DEF World
  <2> HIDE DEF v
  <2>3. Tidy(r) => v.queued = {}
    BY <2>1, <2>2 DEF Tidy
  <2>4. Tidy(r) => Tidy(v)
    BY <2>1, <2>2 DEF Tidy
  <2> QED BY <1>5, <2>1, <2>2, <2>3, <2>4 DEF Good, Claimed
<1> QED BY <1>6, <1>7

\* The format may change where no bit of frame_queued is set.
LEMMA ConvGood ==
  ASSUME NEW w \in World, NEW c, Tidy(w) => w.queued = {}
  PROVE  Good(w, [w EXCEPT !.conv = c])
<1> DEFINE v == [w EXCEPT !.conv = c]
<1>1. /\ v.useRead = w.useRead /\ v.ctl = w.ctl /\ v.asked = w.asked
      /\ v.byRead = w.byRead /\ v.queued = w.queued /\ v.on = w.on
      /\ v.noFrames = w.noFrames /\ v.held = w.held /\ v.dN = w.dN /\ v.dQ = w.dQ
      /\ v.dDone = w.dDone /\ v.dFio = w.dFio
  BY DEF World
<1> HIDE DEF v
<1>2. Good(w, v)
  BY <1>1 DEF Good, Claimed, Tidy
<1> QED BY <1>2 DEF v

\* v4l2_check_buffer_change_ok(): where it agrees frame_queued is empty.
LEMMA CheckBufferChangeOkGood ==
  ASSUME NEW w \in World, Sound(w), NEW F, NEW e, e = CheckBufferChangeOk(w, F)
  PROVE  /\ Good(w, e)
         /\ e.gen > w.gen
         /\ e.ok /\ Tidy(w) => e.queued = {}
<1> DEFINE g == [w EXCEPT !.gen = @ + 1]
           u == UnmapBuffers(g)
           v == [u EXCEPT !.convBuf = 0, !.ok = TRUE]
           d == DeactivateReadStream(v, F)
<1>1. g \in World /\ Sound(g) /\ g.gen = w.gen + 1 /\ Alike(w, g)
  BY DEF World, Sound, Alike
<1>2. u \in World /\ Sound(u) /\ Alike(g, u) /\ u.gen > w.gen
  BY <1>1, UnmapKeeps, UnmapAlike DEF Keeps, World
<1>3. \/ e = Fail(u)
      \/ e = v /\ ~v.ctl /\ (u.ctl \/ u.queued = {})
      \/ e = d /\ v.ctl
  BY DEF CheckBufferChangeOk
<1> HIDE DEF g, u
<1>4. Alike(w, u)
  BY <1>1, <1>2, AlikeTransitive
<1>5. v \in World /\ Sound(v) /\ Alike(u, v) /\ v.gen > w.gen
  <2>1. 0 \in 0..MaxFrames
    OBVIOUS
  <2>2. v \in World /\ Alike(u, v) /\ v.gen = u.gen
    BY <1>2, <2>1 DEF World, Alike
  <2>3. Sound(v)
    BY <1>2, <2>1 DEF World, Sound
  <2> HIDE DEF v
  <2> QED BY <1>2, <2>2, <2>3
<1> HIDE DEF v
<1>6. Alike(w, v)
  BY <1>4, <1>5, AlikeTransitive
<1>7. d.gen > w.gen
  BY <1>5, DeactivateReadStreamKeeps DEF Keeps, World
<1>8. CASE e = Fail(u)
  <2>1. Alike(u, e) /\ ~e.ok /\ e.gen = u.gen
    BY <1>2, <1>8, ResultAlike DEF Fail, World
  <2>2. Alike(w, e)
    BY <1>4, <2>1, AlikeTransitive
  <2> QED BY <1>2, <2>1, <2>2, AlikeGood
<1>9. CASE e = v /\ ~v.ctl /\ (u.ctl \/ u.queued = {})
  BY <1>5, <1>6, <1>9, AlikeGood DEF Alike
<1>10. CASE e = d
  <2>1. Good(v, d) /\ (d.ok /\ Tidy(v) => d.queued = {})
    BY <1>5, DeactivateReadStreamGood
  <2>2. Good(w, v)
    BY <1>6, AlikeGood
  <2> QED BY <1>7, <1>10, <2>1, <2>2, GoodTransitive DEF Good
<1> QED BY <1>3, <1>8, <1>9, <1>10

\* v4l2_s_fmt().
LEMMA SFmtGood ==
  ASSUME NEW w \in World, Sound(w), NEW c, NEW F
  PROVE  Good(w, SFmt(w, c, F))
<1> DEFINE a == CheckBufferChangeOk(w, F)
           v == [a EXCEPT !.conv = c]
<1>1. SFmt(w, c, F) \in {Fail(w), a, Fail(a)} \/ (a.ok /\ SFmt(w, c, F) = v)
  BY DEF SFmt
<1>2. a \in World /\ Good(w, a) /\ (a.ok /\ Tidy(w) => a.queued = {})
  BY CheckBufferChangeOkKeeps, CheckBufferChangeOkGood DEF Keeps
<1> HIDE DEF a
<1>3. Good(w, Fail(w)) /\ Good(a, Fail(a))
  BY <1>2, ResultAlike, AlikeGood
<1>4. CASE a.ok /\ SFmt(w, c, F) = v
  <2>1. CASE Tidy(w)
    <3>1. Good(a, v)
      BY <1>2, <1>4, <2>1, ConvGood
    <3> QED BY <1>2, <1>4, <3>1, GoodTransitive
  <2>2. CASE ~Tidy(w)
    <3>1. /\ v.useRead = a.useRead /\ v.ctl = a.ctl /\ v.asked = a.asked
          /\ v.byRead = a.byRead /\ v.dN = a.dN
      BY <1>2 DEF World
    <3> HIDE DEF v
    <3> QED BY <1>2, <1>4, <2>2, <3>1 DEF Good, Claimed
  <2> QED BY <2>1, <2>2
<1>5. Good(w, Fail(a))
  BY <1>2, <1>3, GoodTransitive
<1> QED BY <1>1, <1>2, <1>3, <1>4, <1>5

\* v4l2_adjust_src_fmt_to_fps().
LEMMA AdjustSrcFmtToFpsGood ==
  ASSUME NEW w \in World, Sound(w), NEW c, NEW F
  PROVE  Good(w, AdjustSrcFmtToFps(w, c, F))
<1> DEFINE a == CheckBufferChangeOk(w, F)
           v == [a EXCEPT !.conv = c]
<1>1. AdjustSrcFmtToFps(w, c, F) = Ok(a) \/ (a.ok /\ AdjustSrcFmtToFps(w, c, F) = v)
  BY DEF AdjustSrcFmtToFps
<1>2. a \in World /\ Good(w, a) /\ (a.ok /\ Tidy(w) => a.queued = {})
  BY CheckBufferChangeOkKeeps, CheckBufferChangeOkGood DEF Keeps
<1> HIDE DEF a
<1>3. Good(w, Ok(a))
  BY <1>2, ResultAlike, AlikeGood, GoodTransitive
<1>4. CASE a.ok /\ AdjustSrcFmtToFps(w, c, F) = v
  <2>1. CASE Tidy(w)
    <3>1. Good(a, v)
      BY <1>2, <1>4, <2>1, ConvGood
    <3> QED BY <1>2, <1>4, <3>1, GoodTransitive
  <2>2. CASE ~Tidy(w)
    <3>1. /\ v.useRead = a.useRead /\ v.ctl = a.ctl /\ v.asked = a.asked
          /\ v.byRead = a.byRead /\ v.dN = a.dN
      BY <1>2 DEF World
    <3> HIDE DEF v
    <3> QED BY <1>2, <1>4, <2>2, <3>1 DEF Good, Claimed
  <2> QED BY <2>1, <2>2
<1> QED BY <1>1, <1>3, <1>4

\* VIDIOC_S_STD, S_INPUT and S_DV_TIMINGS: the format changes without asking
\* libv4l2, but only where the driver does not stream.
LEMMA SInputGood ==
  ASSUME NEW w \in World, Sound(w), NEW x, NEW c \in BOOLEAN, NEW F
  PROVE  Good(w, SInput(w, x, c, F))
<1> DEFINE s == [w EXCEPT !.conv = FALSE]
           a == SFmt(s, c, F)
<1>1. SInput(w, x, c, F) \in {Fail(w), Ok(w)} \/ (~w.dOn /\ SInput(w, x, c, F) = Ok(a))
  BY DEF SInput
<1>2. s \in World /\ Sound(s)
  BY KeepsConv DEF Keeps
<1>3. ~w.dOn => Good(w, s)
  BY ConvGood DEF Tidy, Sound
<1> HIDE DEF s
<1>4. a \in World /\ Good(s, a)
  BY <1>2, SFmtKeeps, SFmtGood DEF Keeps
<1> HIDE DEF a
<1>5. Good(a, Ok(a)) /\ Good(w, Ok(w)) /\ Good(w, Fail(w))
  BY <1>4, ResultAlike, AlikeGood
<1>6. ~w.dOn => Good(w, Ok(a))
  BY <1>3, <1>4, <1>5, GoodTransitive
<1> QED BY <1>1, <1>5, <1>6

\* The first lines of every stream ioctl.
LEMMA TouchGood ==
  ASSUME NEW w \in World, Sound(w), NEW F
  PROVE  Good(w, Touch(w, F))
<1> DEFINE a == IF ~w.touched /\ DstOnly /\ ~w.conv THEN SFmt(w, TRUE, F) ELSE w
           v == [a EXCEPT !.touched = TRUE, !.ok = TRUE]
<1>1. Touch(w, F) = v
  BY DEF Touch
<1>2. a \in World
  BY SFmtKeeps DEF Keeps
<1>3. Good(w, a)
  BY SFmtGood, ResultAlike, AlikeGood
<1> HIDE DEF a
<1>4. Alike(a, v)
  BY <1>2 DEF World, Alike
<1> HIDE DEF v
<1> QED BY <1>1, <1>3, <1>4, AlikeGood, GoodTransitive

\* The mmap ioctls leave no stream of read()'s where they succeed.
LEMMA TakeBackGood ==
  ASSUME NEW w \in World, Sound(w), NEW F, NEW b, b = TakeBack(w, F)
  PROVE  Good(w, b) /\ (b.ok => ~b.ctl)
<1> DEFINE a == Touch(w, F)
<1>1. b = IF a.ctl THEN DeactivateReadStream(a, F) ELSE a
  BY DEF TakeBack
<1>2. a \in World /\ Sound(a) /\ Good(w, a)
  BY TouchKeeps, TouchGood DEF Keeps
<1> HIDE DEF a
<1> QED BY <1>1, <1>2, DeactivateReadStreamGood, GoodTransitive

\* VIDIOC_QBUF: one buffer goes from the application to the driver.
LEMMA QbufCallGood ==
  ASSUME NEW w \in World, Sound(w), NEW i \in Frames, NEW F
  PROVE  Good(w, QbufCall(w, i, F))
<1> DEFINE a == TakeBack(w, F)
           b == IF a.conv THEN MapBuffers(a, F) ELSE Ok(a)
           v == [b EXCEPT !.dQ = @ \cup {i}, !.held = @ \ {i}]
<1>1. QbufCall(w, i, F) \in {a, b, v}
  BY DEF QbufCall
<1>2. a \in World /\ Sound(a) /\ Good(w, a)
  BY TakeBackKeeps, TakeBackGood DEF Keeps
<1> HIDE DEF a
<1>3. Alike(a, b)
  BY <1>2, MapAlike, ResultAlike
<1>4. b \in World
  BY <1>2, MapBuffersKeeps, OkKeeps DEF Keeps
<1> HIDE DEF b
<1>5. /\ v.useRead = b.useRead /\ v.ctl = b.ctl /\ v.asked = b.asked
      /\ v.byRead = b.byRead /\ v.queued = b.queued /\ v.on = b.on /\ v.conv = b.conv
      /\ v.noFrames = b.noFrames /\ v.held = b.held \ {i} /\ v.dN = b.dN
      /\ v.dQ = b.dQ \cup {i} /\ v.dDone = b.dDone /\ v.dFio = b.dFio
  BY <1>4 DEF World
<1> HIDE DEF v
<1>6. Good(b, v)
  BY <1>5 DEF Good, Claimed, Tidy
<1>7. Good(w, b)
  BY <1>2, <1>3, AlikeGood, GoodTransitive
<1> QED BY <1>1, <1>2, <1>6, <1>7, GoodTransitive

\* VIDIOC_STREAMON and VIDIOC_STREAMOFF.
LEMMA StreamCallsGood ==
  ASSUME NEW w \in World, Sound(w), NEW F
  PROVE  Good(w, StreamOnCall(w, F)) /\ Good(w, StreamOffCall(w, F))
<1> DEFINE a == TakeBack(w, F)
<1>1. /\ StreamOnCall(w, F) = a \/ (~a.ctl /\ StreamOnCall(w, F) = StreamOn(a, F))
      /\ StreamOffCall(w, F) = a \/ StreamOffCall(w, F) = StreamOff(a, F)
  BY TakeBackGood DEF StreamOnCall, StreamOffCall
<1>2. a \in World /\ Sound(a) /\ Good(w, a)
  BY TakeBackKeeps, TakeBackGood DEF Keeps
<1> HIDE DEF a
<1>3. Good(a, StreamOff(a, F)) /\ (~a.ctl => Good(a, StreamOn(a, F)))
  BY <1>2, StreamOffGood, StreamOnGood
<1> QED BY <1>1, <1>2, <1>3, GoodTransitive

-----------------------------------------------------------------------------
(* VIDIOC_REQBUFS, and read()'s own stream.                                 *)

\* What every call but read() does, VIDIOC_REQBUFS included.
Regular(w, v) ==
  /\ v.useRead = w.useRead
  /\ v.ctl => w.ctl
  /\ v.asked = w.asked \/ v.gen > w.gen
  /\ Claimed(w) => Claimed(v)
  /\ Tidy(w) => Tidy(v)

\* Good is the stricter of the two.
LEMMA GoodRegular ==
  ASSUME NEW w, NEW v, Good(w, v)
  PROVE  Regular(w, v)
  BY DEF Good, Regular

\* The result alone does not matter.
LEMMA RegularOk ==
  ASSUME NEW w, NEW v \in World, Regular(w, v)
  PROVE  Regular(w, Ok(v))
<1> DEFINE o == Ok(v)
<1>1. Alike(v, o) /\ o.gen = v.gen
  BY ResultAlike DEF Ok, World
<1> HIDE DEF o
<1>2. Good(v, o)
  BY <1>1, AlikeGood
<1>3. Regular(w, o)
  BY <1>1, <1>2 DEF Good, Regular
<1> QED BY <1>3 DEF o

\* VIDIOC_REQBUFS changes what the application owns with a new generation.
LEMMA ReqbufsCallRegular ==
  ASSUME NEW w \in World, Sound(w), NEW n \in 0..MaxFrames, NEW F
  PROVE  Regular(w, ReqbufsCall(w, n, F))
<1> DEFINE x == Touch(w, F)
           a == CheckBufferChangeOk(x, F)
           d == DriverReqbufs(a, n, F)
           v == [d EXCEPT !.noFrames = d.dN, !.byRead = FALSE, !.asked = (d.dN > 0)]
<1>1. ReqbufsCall(w, n, F) = IF ~a.ok THEN a ELSE IF ~d.ok THEN d ELSE v
  BY DEF ReqbufsCall
<1>2. x \in World /\ Sound(x) /\ Good(w, x) /\ x.gen >= w.gen
  BY TouchKeeps, TouchGood DEF Keeps, World
<1> HIDE DEF x
<1>3. a \in World /\ Sound(a) /\ Good(x, a) /\ a.gen > x.gen
  BY <1>2, CheckBufferChangeOkKeeps, CheckBufferChangeOkGood DEF Keeps
<1> HIDE DEF a
<1>4. Good(w, a) /\ a.gen > w.gen
  BY <1>2, <1>3, GoodTransitive DEF World
<1>5. /\ d \in World /\ d.gen = a.gen
      /\ d.ok => Allocated(a, d, Grant(n))
      /\ ~d.ok => Alike(a, d)
  BY <1>3, DriverReqbufsFacts, DriverReqbufsOk
<1> HIDE DEF d
<1>6. CASE ~a.ok
  BY <1>1, <1>4, <1>6, GoodRegular
<1>7. CASE a.ok /\ ~d.ok
  <2>1. Good(a, d)
    BY <1>5, <1>7, AlikeGood
  <2>2. Good(w, d)
    BY <1>4, <2>1, GoodTransitive
  <2> QED BY <1>1, <1>7, <2>2, GoodRegular
<1>8. CASE a.ok /\ d.ok
  <2>1. Allocated(a, d, Grant(n))
    BY <1>5, <1>8
  <2>2. /\ v.on = d.on /\ v.dFio = d.dFio /\ v.queued = d.queued /\ v.dQ = d.dQ
        /\ v.dDone = d.dDone /\ v.held = d.held /\ v.noFrames = d.dN
        /\ v.useRead = d.useRead /\ v.ctl = d.ctl /\ v.gen = d.gen
        /\ ~v.byRead /\ v.dN = d.dN /\ (v.asked => v.dN > 0)
    BY <1>5 DEF World
  <2> HIDE DEF v
  <2>3. Tidy(a) => Tidy(v)
    <3>1. v.noFrames = Grant(n)
      BY <2>1, <2>2 DEF Allocated
    <3> QED BY <2>1, <2>2, <3>1, AllocatedTidy
  <2>4. Claimed(v)
    BY <2>2 DEF Claimed
  <2>5. Regular(w, v)
    BY <1>4, <1>5, <2>1, <2>2, <2>3, <2>4 DEF Allocated, Good, Regular
  <2> QED BY <1>1, <1>8, <2>5
<1> QED BY <1>6, <1>7, <1>8

\* The driver refuses what it may refuse, and nothing else.
LEMMA FaultFacts ==
  ASSUME NEW F \in Faults
  PROVE  /\ "STREAMON" \notin Refusable => ~Refused(F, "STREAMON")
         /\ "QBUF" \notin Refusable => \A i : ~RefusedFor(F, "QBUF", i)
  BY DEF Faults, Refused, RefusedFor

\* v4l2_queue_read_buffers() of newly allocated and mapped buffers queues all.
LEMMA QueueAll ==
  ASSUME NEW b \in World, Sound(b), NEW F, \A i : ~RefusedFor(F, "QBUF", i),
         b.queued = {}, b.dQ = {}, ~b.dFio, \A i \in Upto(b.noFrames) : b.ptr[i] # "none"
  PROVE  LET c == QueueReadBuffers(b, F)
         IN c.queued = Upto(b.noFrames) /\ c.dQ = Upto(b.noFrames)
<1> DEFINE mapped == {i \in Upto(b.noFrames) : b.ptr[i] # "none"}
           new    == {i \in mapped \ b.queued : QbufOk(b, i, F)}
<1>1. mapped = Upto(b.noFrames)
  OBVIOUS
<1>2. \A i \in Upto(b.noFrames) : QbufOk(b, i, F)
  BY DEF QbufOk, Sound, Upto, World
<1>3. new = Upto(b.noFrames)
  BY <1>1, <1>2
<1>4. QueueReadBuffers(b, F) =
        [b EXCEPT !.ok = (new \cup (mapped \cap b.queued) # {}),
                  !.queued = b.queued \cup new, !.dQ = b.dQ \cup new,
                  !.held = b.held \ new]
  BY DEF QueueReadBuffers
<1> HIDE DEF new, mapped
<1> QED BY <1>3, <1>4 DEF World

\* v4l2_activate_read_stream(): where it fails the stream is not read()'s, and
\* where it succeeds read() has the stream and the driver has every buffer.
LEMMA ActivateReadStreamFacts ==
  ASSUME NEW w \in World, Sound(w), NEW F \in Faults,
         NEW r, r = ActivateReadStream(w, F)
  PROVE  /\ r.useRead = w.useRead /\ r.asked = w.asked /\ (Claimed(w) => Claimed(r))
         /\ r.ok => r.ctl
         /\ "STREAMON" \notin Refusable /\ ~r.ok /\ r.ctl => w.ctl
         /\ "STREAMON" \notin Refusable /\ "QBUF" \notin Refusable /\ Tidy(w) => Tidy(r)
<1> DEFINE a == RequestReadBuffers(w, F)
           b == MapBuffers(a, F)
           c == QueueReadBuffers(b, F)
           d == [c EXCEPT !.ctl = TRUE]
           s == StreamOn(d, F)
           o == [d EXCEPT !.ok = TRUE, !.on = TRUE, !.dOn = TRUE,
                          !.firstFrame = IgnoreFirst]
<1>1. \/ r = Fail(w)
      \/ ~a.ok /\ r = a
      \/ ~b.ok /\ r = b
      \/ ~c.ok /\ r = c
      \/ w.queued = {} /\ a.ok /\ b.ok /\ c.ok /\ r = s
  BY DEF ActivateReadStream
<1>2. /\ a \in World /\ Sound(a) /\ Good(w, a) /\ a.ctl = w.ctl
      /\ a.ok => ~a.on /\ a.dN > 0 /\ a.dQ = {} /\ a.dDone = {} /\ ~a.dFio
                 /\ a.queued = w.queued
  BY RequestReadBuffersKeeps, RequestReadBuffersGood DEF Keeps
<1>3. b \in World /\ Sound(b) /\ Alike(a, b)
  BY <1>2, MapBuffersKeeps, MapAlike DEF Keeps
<1>4. b.ok => \A i \in Upto(b.noFrames) : b.ptr[i] # "none"
  <2> DEFINE need == {i \in Upto(a.noFrames) : a.ptr[i] = "none"}
             bad  == {i \in need : i >= a.dN \/ RefusedFor(F, "MAP", i)}
             done == {i \in need : \A j \in bad : i < j}
             ptr  == [i \in Frames |-> IF i \in done THEN "cur" ELSE a.ptr[i]]
  <2>1. b = [a EXCEPT !.ptr = ptr, !.ok = (bad = {})]
    BY DEF MapBuffers
  <2>2. bad = {} => \A i \in need : i \in done
    OBVIOUS
  <2>3. \A i \in Upto(a.noFrames) : i \in Frames
    BY <1>2, UptoFrames DEF World
  <2>4. bad = {} => \A i \in Upto(a.noFrames) : ptr[i] # "none"
    BY <2>2, <2>3
  <2> HIDE DEF a, ptr, bad
  <2>5. b.ptr = ptr /\ (b.ok => bad = {}) /\ b.noFrames = a.noFrames
    BY <1>2, <2>1 DEF World
  <2> QED BY <2>4, <2>5
<1>5. /\ c \in World /\ Sound(c)
      /\ c.useRead = b.useRead /\ c.ctl = b.ctl /\ c.asked = b.asked
      /\ c.byRead = b.byRead /\ c.on = b.on /\ c.noFrames = b.noFrames
      /\ c.dN = b.dN /\ c.dDone = b.dDone /\ c.dFio = b.dFio
      /\ ~c.ok => Alike(b, c)
  <2> DEFINE mapped == {i \in Upto(b.noFrames) : b.ptr[i] # "none"}
             new    == {i \in mapped \ b.queued : QbufOk(b, i, F)}
             okay   == new \cup (mapped \cap b.queued) # {}
  <2>1. c = [b EXCEPT !.ok = okay, !.queued = b.queued \cup new,
                      !.dQ = b.dQ \cup new, !.held = b.held \ new]
    BY DEF QueueReadBuffers
  <2>2. c \in World /\ Sound(c)
    BY <1>3, QueueReadBuffersKeeps DEF Keeps
  <2>3. ~okay => new = {}
    OBVIOUS
  <2> HIDE DEF b, new, okay
  <2>4. /\ c.useRead = b.useRead /\ c.ctl = b.ctl /\ c.asked = b.asked
        /\ c.byRead = b.byRead /\ c.on = b.on /\ c.noFrames = b.noFrames /\ c.conv = b.conv
        /\ c.dN = b.dN /\ c.dDone = b.dDone /\ c.dFio = b.dFio
        /\ (c.ok \/ ~okay) /\ c.queued = b.queued \cup new
        /\ c.dQ = b.dQ \cup new /\ c.held = b.held \ new
    BY <1>3, <2>1 DEF World
  <2>5. ~c.ok => Alike(b, c)
    BY <2>3, <2>4 DEF Alike
  <2> QED BY <2>2, <2>4, <2>5
<1>6. /\ s \in {Ok(d), Fail(d), o}
      /\ ~d.on /\ ~Refused(F, "STREAMON") /\ d.dN # 0 /\ ~d.dFio => s = o
  BY DEF StreamOn
<1>7. w.queued = {} /\ a.ok /\ b.ok /\ "QBUF" \notin Refusable
        => c.queued = Upto(b.noFrames) /\ c.dQ = Upto(b.noFrames)
  BY <1>2, <1>3, <1>4, FaultFacts, QueueAll DEF Alike
<1> HIDE DEF a, b, c
<1>8. CASE r = Fail(w)
  <2>1. Alike(w, r) /\ ~r.ok
    BY <1>8, ResultAlike
  <2> QED BY <2>1, AlikeGood DEF Alike, Good
<1>9. CASE ~a.ok /\ r = a
  BY <1>2, <1>9 DEF Good
<1>10. CASE ~b.ok /\ r = b
  <2>1. Good(a, b) /\ b.ctl = a.ctl
    BY <1>3, AlikeGood DEF Alike
  <2> QED BY <1>2, <1>10, <2>1 DEF Good
<1>11. CASE ~c.ok /\ r = c
  <2>1. Good(a, b) /\ b.ctl = a.ctl /\ Good(b, c) /\ c.ctl = b.ctl
    BY <1>3, <1>5, <1>11, AlikeGood DEF Alike
  <2> QED BY <1>2, <1>11, <2>1 DEF Good
<1>12. CASE w.queued = {} /\ a.ok /\ b.ok /\ c.ok /\ r = s
  <2>1. d \in World /\ d = [c EXCEPT !.ctl = TRUE]
    BY <1>5 DEF World
  <2>2. /\ d.useRead = c.useRead /\ d.ctl /\ d.asked = c.asked /\ d.byRead = c.byRead
        /\ d.dN = c.dN /\ d.on = c.on /\ d.dFio = c.dFio /\ d.queued = c.queued
        /\ d.dQ = c.dQ /\ d.noFrames = c.noFrames /\ d.dDone = c.dDone
    BY <1>5 DEF World
  <2> HIDE DEF d
  <2>3. /\ o.useRead = d.useRead /\ o.ctl = d.ctl /\ o.asked = d.asked
        /\ o.byRead = d.byRead /\ o.dN = d.dN /\ o.ok /\ o.on
        /\ o.dFio = d.dFio /\ o.queued = d.queued /\ o.dQ = d.dQ
        /\ o.noFrames = d.noFrames /\ o.dDone = d.dDone
    BY <2>1 DEF World
  <2> HIDE DEF o
  <2>4. Alike(d, Ok(d)) /\ Alike(d, Fail(d))
    BY <2>1, ResultAlike
  <2>5. /\ r.useRead = d.useRead /\ r.ctl = d.ctl /\ r.asked = d.asked
        /\ r.byRead = d.byRead /\ r.dN = d.dN
    BY <1>6, <1>12, <2>3, <2>4 DEF Alike
  <2>6. r.useRead = w.useRead /\ r.asked = w.asked /\ r.ctl /\ (Claimed(w) => Claimed(r))
    BY <1>2, <1>3, <1>5, <2>2, <2>5 DEF Good, Alike, Claimed
  <2>7. "STREAMON" \notin Refusable => r = o
    <3>1. ~d.on /\ d.dN > 0 /\ ~d.dFio
      BY <1>2, <1>3, <1>5, <1>12, <2>2 DEF Alike
    <3> QED BY <1>6, <1>12, <3>1, FaultFacts
  <2>8. "STREAMON" \notin Refusable /\ "QBUF" \notin Refusable => Tidy(r)
    <3>1. /\ o.dDone = {} /\ ~o.dFio /\ o.ctl
      BY <1>2, <1>3, <1>5, <1>12, <2>2, <2>3 DEF Alike
    <3>2. "QBUF" \notin Refusable => o.queued = Upto(o.noFrames) /\ o.dQ = Upto(o.noFrames)
      BY <1>5, <1>7, <1>12, <2>2, <2>3
    <3>3. "QBUF" \notin Refusable => Tidy(o)
      BY <2>3, <3>1, <3>2 DEF Tidy
    <3> QED BY <2>7, <3>3
  <2> QED BY <2>3, <2>6, <2>7, <2>8
<1> QED BY <1>1, <1>8, <1>9, <1>10, <1>11, <1>12

-----------------------------------------------------------------------------
(* The steps.                                                               *)

\* Every call but read() and DQBUF is regular, and is made by an idle thread.
LEMMA CallsRegular ==
  ASSUME IInv, NEW t \in Threads,
         \/ Qbuf(t) \/ Querybuf(t) \/ Streamon(t) \/ Streamoff(t) \/ Reqbufs(t)
         \/ SetFmt(t) \/ GetFmt(t) \/ SetParm(t) \/ SetInput(t)
         \/ Mmap(t) \/ MmapRaw(t) \/ Munmap(t) \/ MunmapRaw(t)
  PROVE  Regular(dev, dev') /\ thr[t] = Idle /\ thr' = thr
<1>1. thr[t] = Idle /\ thr' = thr /\ dev.open
  BY DEF Qbuf, Querybuf, Streamon, Streamoff, Reqbufs, SetFmt, GetFmt, SetParm,
         SetInput, Mmap, MmapRaw, Munmap, MunmapRaw, Atomic, Enter
<1> SUFFICES Regular(dev, dev')
  BY <1>1
<1>2. dev \in World /\ Sound(dev)
  BY <1>1 DEF IInv, TypeOK
<1>3. \A call, w : w \in World /\ Atomic(t, call, w) /\ Regular(dev, w) => Regular(dev, dev')
  BY RegularOk DEF Atomic, Leave
<1>4. \A call, w : w \in World /\ Atomic(t, call, w) /\ Good(dev, w) => Regular(dev, dev')
  BY <1>3, GoodRegular
<1>5. \A F : LET x == Touch(dev, F) IN x \in World /\ Sound(x) /\ Good(dev, x)
  BY <1>2, TouchKeeps, TouchGood DEF Keeps
<1>6. CASE Qbuf(t)
  BY <1>2, <1>4, <1>6, QbufCallKeeps, QbufCallGood DEF Qbuf, Keeps
<1>7. CASE Querybuf(t)
  BY <1>2, <1>4, <1>7, TakeBackKeeps, TakeBackGood DEF Querybuf, Keeps
<1>8. CASE Streamon(t)
  BY <1>2, <1>4, <1>8, StreamCallsKeep, StreamCallsGood DEF Streamon, Keeps
<1>9. CASE Streamoff(t)
  BY <1>2, <1>4, <1>9, StreamCallsKeep, StreamCallsGood DEF Streamoff, Keeps
<1>10. CASE Reqbufs(t)
  BY <1>2, <1>3, <1>10, ReqbufsCallKeeps, ReqbufsCallRegular DEF Reqbufs, Keeps
<1>11. CASE GetFmt(t)
  BY <1>4, <1>5, <1>11 DEF GetFmt
<1>12. CASE SetFmt(t)
  <2>1. PICK c \in BOOLEAN, F \in Faults : Atomic(t, "S_FMT", SFmt(Touch(dev, F), c, F))
    BY <1>12 DEF SetFmt
  <2> DEFINE x == Touch(dev, F)
             y == SFmt(x, c, F)
  <2>2. y \in World /\ Good(x, y)
    BY <1>5, SFmtKeeps, SFmtGood DEF Keeps
  <2>3. Good(dev, y)
    BY <1>5, <2>2, GoodTransitive
  <2> QED BY <1>4, <2>1, <2>2, <2>3
<1>13. CASE SetParm(t)
  <2>1. PICK c \in BOOLEAN, F \in Faults :
          Atomic(t, "S_PARM", AdjustSrcFmtToFps(Touch(dev, F), c, F))
    BY <1>13 DEF SetParm
  <2> DEFINE x == Touch(dev, F)
             y == AdjustSrcFmtToFps(x, c, F)
  <2>2. y \in World /\ Good(x, y)
    BY <1>5, AdjustSrcFmtToFpsKeeps, AdjustSrcFmtToFpsGood DEF Keeps
  <2>3. Good(dev, y)
    BY <1>5, <2>2, GoodTransitive
  <2> QED BY <1>4, <2>1, <2>2, <2>3
<1>14. CASE SetInput(t)
  <2>1. PICK ch \in BOOLEAN, c \in BOOLEAN, F \in Faults :
          Atomic(t, "S_INPUT", SInput(Touch(dev, F), ch, c, F))
    BY <1>14 DEF SetInput
  <2> DEFINE x == Touch(dev, F)
             y == SInput(x, ch, c, F)
  <2>2. y \in World /\ Good(x, y)
    BY <1>5, SInputKeeps, SInputGood DEF Keeps
  <2>3. Good(dev, y)
    BY <1>5, <2>2, GoodTransitive
  <2> QED BY <1>4, <2>1, <2>2, <2>3
<1>15. CASE Mmap(t)
  <2>1. PICK i \in Frames, F \in Faults :
          LET a == EnsureConvertMmapBuf(dev, F)
          IN Atomic(t, "mmap", IF a.ok THEN [a EXCEPT !.mapCount[i] = @ + 1] ELSE a)
    BY <1>15 DEF Mmap
  <2> DEFINE a == EnsureConvertMmapBuf(dev, F)
             v == [a EXCEPT !.mapCount[i] = @ + 1]
  <2>2. a \in World /\ Good(dev, a)
    BY <1>2, EnsureConvertMmapBufKeeps, EnsureAlike, AlikeGood DEF Keeps
  <2> HIDE DEF a
  <2>3. v \in World /\ Alike(a, v)
    BY <2>2 DEF World, Alike
  <2> HIDE DEF v
  <2>4. Good(dev, v)
    BY <2>2, <2>3, AlikeGood, GoodTransitive
  <2>5. Atomic(t, "mmap", IF a.ok THEN v ELSE a)
    BY <2>1 DEF a, v
  <2> QED BY <1>4, <2>2, <2>3, <2>4, <2>5
<1>16. CASE Munmap(t)
  <2>1. PICK i \in Frames :
          /\ dev.mapCount[i] > 0
          /\ Atomic(t, "munmap", IF i < dev.noFrames
                                 THEN [dev EXCEPT !.mapCount[i] = @ - 1] ELSE dev)
    BY <1>16 DEF Munmap
  <2> DEFINE v == [dev EXCEPT !.mapCount[i] = @ - 1]
  <2>2. v \in World /\ Alike(dev, v)
    BY <1>2, <2>1 DEF World, Alike
  <2> HIDE DEF v
  <2>3. Good(dev, v) /\ Good(dev, dev)
    BY <2>2, AlikeGood DEF Good
  <2>4. Atomic(t, "munmap", IF i < dev.noFrames THEN v ELSE dev)
    BY <2>1 DEF v
  <2> QED BY <1>2, <1>4, <2>2, <2>3, <2>4
<1>17. CASE MmapRaw(t) \/ MunmapRaw(t)
  <2>1. PICK S : dev' = [dev EXCEPT !.dMap = S]
    BY <1>17 DEF MmapRaw, MunmapRaw
  <2>2. Alike(dev, dev')
    BY <1>2, <2>1 DEF World, Alike
  <2> QED BY <2>2, AlikeGood, GoodRegular
<1> QED BY <1>6, <1>7, <1>8, <1>9, <1>10, <1>11, <1>12, <1>13, <1>14, <1>15, <1>16, <1>17

\* The stream a thread inside VIDIOC_DQBUF waits on.
Serves(kind, w) ==
  /\ kind \in {"read", "ioctl", "raw"}
  /\ kind = "read" => w.ctl
  /\ kind = "ioctl" => w.conv /\ ~w.ctl
  /\ kind = "raw" => ~w.conv /\ ~w.ctl

\* VIDIOC_DQBUF until the lock is released.
LEMMA DqbufRegular ==
  ASSUME IInv, NEW t \in Threads, NEW F, Dqbuf(t, F)
  PROVE  /\ Regular(dev, dev') /\ thr[t] = Idle
         /\ \/ thr' = thr
            \/ \E kind, tries : /\ thr' = [thr EXCEPT ![t] = In("dq", kind, dev'.gen, tries)]
                                /\ Serves(kind, dev')
<1> DEFINE a == TakeBack(dev, F)
           b == EnsureConvertMmapBuf(a, F)
           m == MapBuffers(b, F)
           w == IF ~a.ok THEN a ELSE IF ~b.ok THEN b ELSE m
<1>1. /\ dev.open /\ thr[t] = Idle
      /\ \/ a.ok /\ ~a.conv /\ Unlock(t, "raw", 0, a)
         \/ a.ok /\ a.conv /\ w.ok /\ Unlock(t, "ioctl", MaxTries, w)
         \/ Leave(w) /\ UNCHANGED thr
  BY DEF Dqbuf, Enter
<1>2. dev \in World /\ Sound(dev)
  BY <1>1 DEF IInv, TypeOK
<1>3. a \in World /\ Sound(a) /\ Good(dev, a) /\ (a.ok => ~a.ctl)
  BY <1>2, TakeBackKeeps, TakeBackGood DEF Keeps
<1> HIDE DEF a
<1>4. b \in World /\ Sound(b) /\ Alike(a, b)
  BY <1>3, EnsureConvertMmapBufKeeps, EnsureAlike DEF Keeps
<1> HIDE DEF b
<1>5. m \in World /\ Alike(b, m)
  BY <1>4, MapBuffersKeeps, MapAlike DEF Keeps
<1> HIDE DEF m
<1>6. w \in World /\ Alike(a, w)
  <2>1. Alike(a, m)
    BY <1>4, <1>5, AlikeTransitive
  <2> QED BY <1>3, <1>4, <1>5, <2>1, ResultAlike
<1> HIDE DEF w
<1>7. Good(dev, w)
  BY <1>3, <1>6, AlikeGood, GoodTransitive
<1>8. Regular(dev, Ok(a)) /\ Regular(dev, Ok(w))
  BY <1>3, <1>6, <1>7, GoodRegular, RegularOk
<1>9. Alike(a, Ok(a)) /\ Alike(w, Ok(w)) /\ Ok(a).gen = a.gen /\ Ok(w).gen = w.gen
  BY <1>3, <1>6, ResultAlike DEF Ok, World
<1>10. CASE a.ok /\ ~a.conv /\ Unlock(t, "raw", 0, a)
  <2>1. dev' = Ok(a) /\ thr' = [thr EXCEPT ![t] = In("dq", "raw", a.gen, 0)]
    BY <1>10 DEF Unlock, Leave
  <2>2. Serves("raw", dev') /\ dev'.gen = a.gen
    BY <1>3, <1>9, <1>10, <2>1 DEF Serves, Alike
  <2> QED BY <1>1, <1>8, <2>1, <2>2
<1>11. CASE a.ok /\ a.conv /\ w.ok /\ Unlock(t, "ioctl", MaxTries, w)
  <2>1. dev' = Ok(w) /\ thr' = [thr EXCEPT ![t] = In("dq", "ioctl", w.gen, MaxTries)]
    BY <1>11 DEF Unlock, Leave
  <2>2. Serves("ioctl", dev') /\ dev'.gen = w.gen
    BY <1>3, <1>6, <1>9, <1>11, <2>1 DEF Serves, Alike
  <2> QED BY <1>1, <1>8, <2>1, <2>2
<1>12. CASE Leave(w) /\ UNCHANGED thr
  BY <1>1, <1>8, <1>12 DEF Leave
<1> QED BY <1>1, <1>10, <1>11, <1>12

\* v4l2_read() until the lock is released, or kept across the driver's read().
LEMMA ReadFacts ==
  ASSUME IInv, NEW t \in Threads, NEW F \in Faults, Read(t, F)
  PROVE  /\ thr[t] = Idle
         /\ dev'.asked = dev.asked /\ (Claimed(dev) => Claimed(dev'))
         /\ "STREAMON" \notin Refusable /\ "QBUF" \notin Refusable /\ Tidy(dev)
              => Tidy(dev')
         /\ \/ thr' = thr
            \/ \E kind, tries : thr' = [thr EXCEPT ![t] = In("kread", kind, 0, tries)]
            \/ /\ thr' = [thr EXCEPT ![t] = In("dq", "read", dev'.gen, MaxTries)]
               /\ Serves("read", dev')
<1> DEFINE a == IF dev.ctl \/ dev.useRead THEN dev ELSE ActivateReadStream(dev, F)
           v == [a EXCEPT !.useRead = TRUE, !.firstFrame = IgnoreFirst]
           b == IF a.ok THEN a ELSE v
           m == MapBuffers(b, F)
<1>1. /\ dev.open /\ thr[t] = Idle
      /\ \/ thr' = [thr EXCEPT ![t] = In("kread", "pass", 0, 0)] /\ UNCHANGED dev
         \/ Leave(b) /\ thr' = [thr EXCEPT ![t] = In("kread", "read", 0, MaxTries)]
         \/ ~b.useRead /\ Unlock(t, "read", MaxTries, m)
         \/ Leave(m) /\ UNCHANGED thr
  BY DEF Read, Enter
<1>2. dev \in World /\ Sound(dev) /\ dev.ok
  BY <1>1 DEF IInv, TypeOK
<1>3. a \in World /\ Sound(a)
  BY <1>2, ActivateReadStreamKeeps DEF Keeps
<1>4. /\ a.useRead = dev.useRead /\ a.asked = dev.asked /\ (Claimed(dev) => Claimed(a))
      /\ a.ok => a.ctl \/ a.useRead
      /\ "STREAMON" \notin Refusable /\ ~a.ok /\ a.ctl => dev.ctl
      /\ "STREAMON" \notin Refusable /\ "QBUF" \notin Refusable /\ Tidy(dev) => Tidy(a)
      /\ ~a.ok => ~dev.ctl
      /\ dev.useRead => a = dev
  BY <1>2, ActivateReadStreamFacts
<1> HIDE DEF a
<1>5. /\ v.useRead /\ v.ctl = a.ctl /\ v.asked = a.asked
      /\ v.byRead = a.byRead /\ v.queued = a.queued /\ v.on = a.on /\ v.conv = a.conv
      /\ v.noFrames = a.noFrames /\ v.held = a.held
      /\ v.dN = a.dN /\ v.dQ = a.dQ /\ v.dDone = a.dDone /\ v.dFio = a.dFio
      /\ v \in World /\ Sound(v)
  <2>1. IgnoreFirst \in 0..IgnoreFirst
    OBVIOUS
  <2> QED BY <1>3, <2>1 DEF World, Sound
<1> HIDE DEF v
<1>6. /\ b \in World /\ Sound(b) /\ b.asked = dev.asked /\ (Claimed(dev) => Claimed(b))
      /\ Tidy(a) => Tidy(b)
      /\ ~b.useRead => b.ctl
  BY <1>3, <1>4, <1>5 DEF Claimed, Tidy
<1> HIDE DEF b
<1>8. Alike(b, m) /\ m \in World
  BY <1>6, MapBuffersKeeps, MapAlike DEF Keeps
<1> HIDE DEF m
<1>9. Alike(b, Ok(b)) /\ Alike(b, Ok(m)) /\ Ok(m).gen = m.gen
  BY <1>6, <1>8, ResultAlike, AlikeTransitive DEF Ok, World
<1>10. CASE UNCHANGED dev /\ thr' = [thr EXCEPT ![t] = In("kread", "pass", 0, 0)]
  BY <1>1, <1>10
<1>11. CASE dev' = Ok(b) \/ dev' = Ok(m)
  <2>1. Alike(b, dev')
    BY <1>9, <1>11
  <2>2. /\ dev'.asked = dev.asked /\ (Claimed(dev) => Claimed(dev'))
        /\ Tidy(a) => Tidy(dev')
        /\ dev'.ctl = b.ctl /\ dev'.useRead = b.useRead
    BY <1>6, <2>1, AlikeGood DEF Good, Alike
  <2>3. ~b.useRead /\ Unlock(t, "read", MaxTries, m)
          => /\ thr' = [thr EXCEPT ![t] = In("dq", "read", dev'.gen, MaxTries)]
             /\ Serves("read", dev')
    BY <1>6, <1>9, <2>2 DEF Unlock, Leave, Serves
  <2> QED BY <1>1, <1>4, <2>2, <2>3
<1> QED BY <1>1, <1>10, <1>11 DEF Leave, Unlock

\* What the kernel's steps and the ends of DQBUF and read() leave alone.
Calm(w, v) ==
  /\ v.useRead = w.useRead /\ v.ctl = w.ctl /\ v.asked = w.asked
  /\ v.byRead = w.byRead /\ v.dN = w.dN

\* The result is left out of Calm.
LEMMA OkCalm == \A w \in World : Calm(w, Ok(w))
  BY DEF Ok, World, Calm

\* v4l2_queue_read_buffer() changes the queues only.
LEMMA QueueReadBufferCalm ==
  ASSUME NEW w \in World, NEW i, NEW F
  PROVE  Calm(w, QueueReadBuffer(w, i, F))
<1> DEFINE v == [w EXCEPT !.ok = TRUE, !.queued = @ \cup {i}, !.dQ = @ \cup {i},
                          !.held = @ \ {i}]
<1>1. QueueReadBuffer(w, i, F) \in {Ok(w), Fail(w), v}
  BY DEF QueueReadBuffer
<1>2. Calm(w, v)
  BY DEF World, Calm
<1>3. Calm(w, Ok(w)) /\ Calm(w, Fail(w))
  BY ResultAlike DEF Alike, Calm
<1> QED BY <1>1, <1>2, <1>3

\* The steps around the wait in DQBUF, and those of the driver, are calm.
LEMMA BlockedCalm ==
  ASSUME IInv, dev.open,
         \/ DriverFills
         \/ \E t \in Threads : Kernel(t) \/ Resume(t) \/ RelockRaw(t)
  PROVE  Calm(dev, dev')
<1>1. dev \in World /\ Sound(dev) /\ dev.ok
  BY DEF IInv, TypeOK
<1>2. ASSUME NEW t \in Threads, NEW outcome, NEW F, Relock(t, outcome, F)
      PROVE  Calm(dev, dev')
  <2> DEFINE i  == thr[t].buf
             w  == [dev EXCEPT !.queued = @ \ {i}]
             c  == Counted(w)
             q  == GiveBack(c, i, thr[t].tries = 1, Judged(w, outcome), F)
             qr == QueueReadBuffer(c, i, F)
             h  == [c EXCEPT !.held = @ \cup {i}]
  <2>1. dev' \in {Ok(w), Ok(q), Ok(qr), Ok(h)}
    BY <1>2 DEF Relock, Leave, Unlock
  <2>2. i \in Frames
    BY <1>2 DEF IInv, TypeOK, ThreadState
  <2> HIDE DEF i
  <2>3. w \in World /\ Sound(w) /\ Calm(dev, w)
    BY <1>1 DEF World, Sound, Calm
  <2> HIDE DEF w
  <2>4. c \in World /\ Sound(c) /\ Calm(w, c)
    <3>1. (IF w.firstFrame > 0 THEN w.firstFrame - 1 ELSE 0) \in 0..IgnoreFirst
      BY <2>3 DEF World
    <3>2. c = [w EXCEPT !.firstFrame = IF w.firstFrame > 0 THEN w.firstFrame - 1 ELSE 0]
      BY DEF Counted
    <3> HIDE DEF c
    <3> QED BY <2>3, <3>1, <3>2 DEF World, Sound, Calm
  <2>5. q \in {c, qr}
    BY DEF GiveBack
  <2> HIDE DEF c
  <2>6. qr \in World /\ Calm(c, qr)
    BY <2>2, <2>4, QueueReadBufferKeeps, QueueReadBufferCalm DEF Keeps
  <2>7. h \in World /\ Calm(c, h)
    BY <2>2, <2>4 DEF World, Calm
  <2> HIDE DEF q, qr, h
  <2>8. Calm(w, Ok(w)) /\ Calm(c, Ok(c)) /\ Calm(qr, Ok(qr)) /\ Calm(h, Ok(h))
    BY <2>3, <2>4, <2>6, <2>7, OkCalm
  <2> QED BY <2>1, <2>3, <2>4, <2>5, <2>6, <2>7, <2>8 DEF Calm
<1>3. ASSUME NEW t \in Threads, NEW outcome, KernelReads(t, outcome)
      PROVE  Calm(dev, dev')
  <2> DEFINE n == IF dev.firstFrame > 0 THEN dev.firstFrame - 1 ELSE 0
  <2>1. dev' \in {dev, [dev EXCEPT !.dFio = TRUE], [dev EXCEPT !.firstFrame = n, !.dFio = TRUE]}
    BY <1>3 DEF KernelReads, Counted
  <2> HIDE DEF n
  <2> QED BY <1>1, <2>1 DEF World, Calm
<1>4. ASSUME NEW t \in Threads, RelockRaw(t) PROVE Calm(dev, dev')
  BY <1>1, <1>4 DEF RelockRaw, World, Calm
<1>5. ASSUME NEW t \in Threads, Kernel(t) PROVE Calm(dev, dev')
  BY <1>1, <1>5 DEF Kernel, KernelDequeues, DqbufFails, World, Calm
<1>6. CASE DriverFills
  BY <1>1, <1>6 DEF DriverFills, World, Calm
<1>7. ASSUME NEW t \in Threads, Resume(t) PROVE Calm(dev, dev')
  BY <1>2, <1>3, <1>7 DEF Resume
<1> QED BY <1>4, <1>5, <1>6, <1>7

-----------------------------------------------------------------------------
(* Whatever the threads and the driver do.                                  *)

\* A closed device is opened by v4l2_fd_open() only.
LEMMA OpenedByOpen ==
  ASSUME IInv, [Next]_vars, ~dev.open, dev'.open
  PROVE  Open
<1>1. ASSUME NEW t \in Threads, Call(t) PROVE FALSE
  <2>1. \A call : ~Enter(t, call)
    BY DEF Enter
  <2>2. \A call, w : ~Atomic(t, call, w)
    BY <2>1 DEF Atomic
  <2>3. ~\E F \in Faults : Read(t, F) \/ Dqbuf(t, F)
    BY <2>1 DEF Read, Dqbuf
  <2>4. ~Qbuf(t) /\ ~Querybuf(t) /\ ~Streamon(t) /\ ~Streamoff(t) /\ ~Reqbufs(t)
    BY <2>2 DEF Qbuf, Querybuf, Streamon, Streamoff, Reqbufs
  <2>5. ~SetFmt(t) /\ ~GetFmt(t) /\ ~SetParm(t) /\ ~SetInput(t)
    BY <2>2 DEF SetFmt, GetFmt, SetParm, SetInput
  <2>6. ~Mmap(t) /\ ~Munmap(t) /\ ~Close(t)
    BY <2>2 DEF Mmap, Munmap, Close
  <2>7. ~MmapRaw(t) /\ ~MunmapRaw(t)
    BY DEF MmapRaw, MunmapRaw
  <2> QED BY <1>1, <2>3, <2>4, <2>5, <2>6, <2>7 DEF Call
<1>2. ASSUME NEW t \in Threads, Kernel(t) \/ Resume(t) \/ RelockRaw(t) PROVE FALSE
  <2>1. thr[t].pc = "idle"
    BY DEF IInv, Idle
  <2>2. ~Kernel(t) /\ ~RelockRaw(t)
    BY <2>1 DEF Kernel, KernelDequeues, DqbufFails, RelockRaw
  <2>3. \A outcome, F : ~Relock(t, outcome, F)
    BY <2>1 DEF Relock
  <2>4. \A outcome : ~KernelReads(t, outcome)
    BY <2>1 DEF KernelReads
  <2> QED BY <1>2, <2>2, <2>3, <2>4 DEF Resume
<1>3. ~DriverFills
  BY DEF DriverFills, IInv, TypeOK, World
<1>4. ~UNCHANGED vars
  BY DEF vars
<1> QED BY <1>1, <1>2, <1>3, <1>4 DEF Next

\* v4l2_close() leaves no open device.
LEMMA CloseCloses ==
  ASSUME IInv, NEW t \in Threads, Close(t)
  PROVE  ~dev'.open
<1> DEFINE u == UnmapBuffers(dev)
           v == [u EXCEPT
                   !.open = FALSE, !.convBuf = 0, !.dN = 0, !.dQ = {}, !.dDone = {},
                   !.dOn = FALSE, !.dFio = FALSE, !.dMap = {}, !.held = {}]
<1>1. dev' = Ok(v) /\ dev.open
  BY DEF Close, Atomic, Enter, Leave
<1>2. u \in World
  BY <1>1, UnmapKeeps DEF IInv, TypeOK, Keeps
<1> HIDE DEF u
<1>3. Ok(v).open = FALSE
  BY <1>2 DEF World, Ok
<1> QED BY <1>1, <1>3

\* One step of an open device.
LEMMA StepFacts ==
  ASSUME IInv, [Next]_vars, dev.open, dev'.open
  PROVE  /\ dev'.asked = dev.asked \/ dev'.gen > dev.gen
         /\ Claimed(dev) => Claimed(dev')
<1>1. CASE Regular(dev, dev')
  BY <1>1 DEF Regular
<1>2. CASE Calm(dev, dev')
  BY <1>2 DEF Calm, Claimed
<1>3. ASSUME NEW t \in Threads, Call(t)
      PROVE  Regular(dev, dev') \/ \E F \in Faults : Read(t, F)
  BY <1>3, CloseCloses, CallsRegular, DqbufRegular DEF Call
<1>4. ASSUME NEW t \in Threads, NEW F \in Faults, Read(t, F)
      PROVE  /\ dev'.asked = dev.asked
             /\ Claimed(dev) => Claimed(dev')
  BY <1>4, ReadFacts
<1>5. ~Open
  BY DEF Open
<1>6. CASE UNCHANGED vars
  BY <1>6 DEF vars
<1> QED BY <1>1, <1>2, <1>3, <1>4, <1>5, <1>6, BlockedCalm DEF Next

\* Buffers the application requested are not lost to the read() emulation:
\* they go only with a buffer change, which every waiting thread can see.
THEOREM AppBuffersSafe == Spec => AppBuffersKept
<1> DEFINE Inv == dev.open => Claimed(dev)
<1>1. Init => Inv
  BY DEF Init, Opened, Claimed
<1>2. IInv /\ Inv /\ [Next]_vars => Inv'
  <2> SUFFICES ASSUME IInv, Inv, [Next]_vars, dev'.open PROVE Claimed(dev')
    BY DEF Claimed
  <2>1. CASE dev.open
    BY <2>1, StepFacts
  <2>2. CASE ~dev.open
    <3>1. CASE Open
      BY <3>1 DEF Open, Opened, Claimed
    <3>2. Open
      BY <2>2, OpenedByOpen
    <3> QED BY <3>1, <3>2
  <2> QED BY <2>1, <2>2
<1>3. IInv /\ IInv' /\ Inv /\ Inv' /\ [Next]_vars
        => [dev.open /\ dev'.open /\ dev.asked /\ dev.dN > 0 /\ dev'.dN = 0
              => dev'.gen > dev.gen]_vars
  BY StepFacts DEF Claimed
<1> QED BY <1>1, <1>2, <1>3, IInvHolds, PTL DEF Spec, AppBuffersKept

-----------------------------------------------------------------------------
(* An application of one thread.                                            *)

\* While the thread holds a dequeued buffer: Tidy, but for that buffer.
Holding(i, w) ==
  /\ w.on
  /\ i \in Upto(w.dN) /\ i \notin w.dQ
  /\ w.queued \subseteq w.dQ \cup {i}
  /\ w.queued # {} => w.ctl \/ w.conv
  /\ Upto(w.noFrames) \subseteq w.dQ \cup w.held \cup {i}
  /\ w.ctl => Upto(w.noFrames) \subseteq w.dQ \cup {i}
  /\ w.dFio => w.dN = 0

\* The inductive invariant of the thread x and the device w.
Orderly(x, w) ==
  /\ x.pc # "got" => Tidy(w)
  /\ x.pc = "got" => Holding(x.buf, w)
  /\ x.pc \in {"dq", "got"} => x.gen = w.gen /\ Serves(x.kind, w)

\* A thread that leaves the library asks no more than Tidy.
LEMMA OrderlyIdle ==
  ASSUME NEW w, Tidy(w)
  PROVE  Orderly(Idle, w)
  BY DEF Idle, Orderly

\* The thread gives back the buffer it dequeued.
LEMMA HeldIsQueued ==
  ASSUME NEW w \in World, Sound(w), NEW i \in Frames, NEW F, \A j : ~RefusedFor(F, "QBUF", j),
         Holding(i, w), i \notin w.queued, w.ctl \/ w.conv,
         NEW v, v = Ok(QueueReadBuffer(w, i, F))
  PROVE  Tidy(v) /\ v.gen = w.gen /\ v.ctl = w.ctl /\ v.conv = w.conv
<1> DEFINE q == [w EXCEPT !.ok = TRUE, !.queued = @ \cup {i}, !.dQ = @ \cup {i},
                          !.held = @ \ {i}]
<1>1. i < w.dN
  BY DEF Holding, Upto, World
<1>2. 0 < w.dN
  BY <1>1 DEF Frames, World
<1>3. QbufOk(w, i, F)
  BY <1>1, <1>2 DEF Holding, QbufOk
<1>4. v = Ok(q)
  BY <1>3 DEF QueueReadBuffer
<1>5. /\ q.queued = w.queued \cup {i} /\ q.dQ = w.dQ \cup {i} /\ q.held = w.held \ {i}
      /\ q.on = w.on /\ q.ctl = w.ctl /\ q.conv = w.conv /\ q.noFrames = w.noFrames
      /\ q.dDone = w.dDone /\ q.dFio = w.dFio /\ q.dN = w.dN /\ q.gen = w.gen
  BY DEF World
<1>6. q = Ok(q)
  BY DEF World, Ok
<1> HIDE DEF q
<1>7. Tidy(q)
  BY <1>5 DEF Holding, Tidy
<1> QED BY <1>4, <1>5, <1>6, <1>7

\* The thread returns the buffer it dequeued to the application.
LEMMA HeldIsReturned ==
  ASSUME NEW w \in World, NEW i \in Frames, Holding(i, w), i \notin w.queued, ~w.ctl,
         w.queued # {} => w.conv,
         NEW v, v = Ok([w EXCEPT !.held = @ \cup {i}])
  PROVE  Tidy(v)
<1>1. /\ v.queued = w.queued /\ v.dQ = w.dQ /\ v.held = w.held \cup {i}
      /\ v.on = w.on /\ v.ctl = w.ctl /\ v.conv = w.conv /\ v.noFrames = w.noFrames
      /\ v.dDone = w.dDone /\ v.dFio = w.dFio /\ v.dN = w.dN
  BY DEF World, Ok
<1> QED BY <1>1 DEF Holding, Tidy

\* v4l2_dequeue_and_convert() after it has the lock again.
LEMMA RelockOrderly ==
  ASSUME IInv, dev.open, NEW t \in Threads, NEW outcome, NEW F \in Faults,
         "QBUF" \notin Refusable, Orderly(thr[t], dev), Relock(t, outcome, F)
  PROVE  Orderly(thr'[t], dev')
<1> DEFINE i  == thr[t].buf
           w  == [dev EXCEPT !.queued = @ \ {i}]
           c  == Counted(w)
           last == thr[t].tries = 1
           q  == GiveBack(c, i, last, Judged(w, outcome), F)
           qr == QueueReadBuffer(c, i, F)
           h  == [c EXCEPT !.held = @ \cup {i}]
<1>1. /\ thr[t].gen = dev.gen /\ thr[t].kind \in {"read", "ioctl"} /\ Holding(i, dev)
      /\ Serves(thr[t].kind, dev) /\ i \in Frames
  BY DEF Relock, Orderly, Serves, IInv, TypeOK, ThreadState
<1>2. \/ /\ q = qr /\ Unlock(t, thr[t].kind, thr[t].tries - 1, q)
      \/ /\ q = qr /\ Leave(q) /\ thr' = [thr EXCEPT ![t] = Idle]
      \/ /\ thr[t].kind = "read" /\ Leave(qr) /\ thr' = [thr EXCEPT ![t] = Idle]
      \/ /\ thr[t].kind # "read" /\ Leave(h) /\ thr' = [thr EXCEPT ![t] = Idle]
  BY <1>1 DEF Relock, GiveBack
<1>3. dev \in World /\ Sound(dev) /\ thr \in [Threads -> ThreadState]
  BY DEF IInv, TypeOK
<1> HIDE DEF i
<1>4. /\ w \in World /\ Sound(w) /\ Holding(i, w) /\ i \notin w.queued
      /\ w.ctl = dev.ctl /\ w.conv = dev.conv /\ w.gen = dev.gen
  BY <1>1, <1>3 DEF World, Sound, Holding
<1> HIDE DEF w
<1>5. /\ c \in World /\ Sound(c) /\ Holding(i, c) /\ i \notin c.queued
      /\ c.ctl = dev.ctl /\ c.conv = dev.conv /\ c.gen = dev.gen
  <2>1. (IF w.firstFrame > 0 THEN w.firstFrame - 1 ELSE 0) \in 0..IgnoreFirst
    BY <1>4 DEF World
  <2>2. c = [w EXCEPT !.firstFrame = IF w.firstFrame > 0 THEN w.firstFrame - 1 ELSE 0]
    BY DEF Counted
  <2> HIDE DEF c
  <2> QED BY <1>4, <2>1, <2>2 DEF World, Sound, Holding
<1> HIDE DEF c
<1>6. c.ctl \/ c.conv
  BY <1>1, <1>5 DEF Serves
<1>7. Tidy(Ok(qr)) /\ Ok(qr).gen = dev.gen /\ Serves(thr[t].kind, Ok(qr))
  <2>1. Tidy(Ok(qr)) /\ Ok(qr).gen = c.gen /\ Ok(qr).ctl = c.ctl /\ Ok(qr).conv = c.conv
    BY <1>1, <1>5, <1>6, FaultFacts, HeldIsQueued
  <2> HIDE DEF qr
  <2> QED BY <1>1, <1>5, <2>1 DEF Serves
<1>8. qr.gen = Ok(qr).gen
  BY <1>1, <1>5, QueueReadBufferKeeps DEF Keeps, World, Ok
<1> HIDE DEF q, qr
<1>9. CASE q = qr /\ Unlock(t, thr[t].kind, thr[t].tries - 1, q)
  <2> DEFINE x == In("dq", thr[t].kind, qr.gen, thr[t].tries - 1)
  <2>1. dev' = Ok(qr) /\ thr'[t] = x
    BY <1>3, <1>9 DEF Unlock, Leave
  <2>2. x.pc = "dq" /\ x.kind = thr[t].kind /\ x.gen = dev.gen
    BY <1>7, <1>8 DEF In
  <2> HIDE DEF x
  <2> QED BY <1>7, <2>1, <2>2 DEF Orderly
<1>10. CASE dev' = Ok(qr) /\ thr' = [thr EXCEPT ![t] = Idle]
  BY <1>3, <1>7, <1>10, OrderlyIdle
<1>11. CASE thr[t].kind # "read" /\ dev' = Ok(h) /\ thr' = [thr EXCEPT ![t] = Idle]
  <2>1. ~c.ctl /\ c.conv
    BY <1>1, <1>5, <1>11 DEF Serves
  <2>2. Tidy(Ok(h))
    BY <1>1, <1>5, <2>1, HeldIsReturned
  <2> QED BY <1>3, <1>11, <2>2, OrderlyIdle
<1> QED BY <1>2, <1>9, <1>10, <1>11 DEF Leave

\* The steps of the driver while the thread waits.
LEMMA DriverOrderly ==
  ASSUME IInv, dev.open, NEW t \in Threads, Threads = {t}, Orderly(thr[t], dev),
         DriverFills \/ Kernel(t) \/ RelockRaw(t) \/ \E outcome : KernelReads(t, outcome)
  PROVE  Orderly(thr'[t], dev')
<1>1. dev \in World /\ Sound(dev) /\ thr \in [Threads -> ThreadState]
  BY DEF IInv, TypeOK
<1>2. CASE DriverFills
  <2>1. PICK j \in dev.dQ : dev' = [dev EXCEPT !.dDone = @ \cup {j}] /\ thr' = thr
    BY <1>2 DEF DriverFills
  <2>2. dev.on
    BY <1>1, <1>2 DEF DriverFills, Sound
  <2>3. Tidy(dev) => Tidy(dev')
    BY <1>1, <2>1, <2>2 DEF World, Tidy
  <2>4. \A i : Holding(i, dev) => Holding(i, dev')
    BY <1>1, <2>1 DEF World, Holding
  <2>5. \A k : Serves(k, dev) => Serves(k, dev')
    BY <1>1, <2>1 DEF World, Serves
  <2>6. dev'.gen = dev.gen
    BY <1>1, <2>1 DEF World
  <2> QED BY <2>1, <2>3, <2>4, <2>5, <2>6 DEF Orderly
<1>3. CASE KernelDequeues(t)
  <2>1. PICK i \in dev.dDone :
          /\ thr[t].pc = "dq"
          /\ dev' = [dev EXCEPT !.dQ = @ \ {i}, !.dDone = @ \ {i}]
          /\ thr' = [thr EXCEPT ![t].pc = "got", ![t].buf = i]
    BY <1>3 DEF KernelDequeues
  <2>2. /\ thr'[t].pc = "got" /\ thr'[t].buf = i /\ thr'[t].gen = thr[t].gen
        /\ thr'[t].kind = thr[t].kind
    BY <1>1, <2>1 DEF ThreadState
  <2>3. Tidy(dev) /\ thr[t].gen = dev.gen /\ Serves(thr[t].kind, dev)
    BY <2>1 DEF Orderly
  <2>4. /\ dev'.on = dev.on /\ dev'.ctl = dev.ctl /\ dev'.conv = dev.conv
        /\ dev'.dN = dev.dN /\ dev'.noFrames = dev.noFrames /\ dev'.held = dev.held
        /\ dev'.queued = dev.queued /\ dev'.dFio = dev.dFio /\ dev'.gen = dev.gen
        /\ dev'.dQ = dev.dQ \ {i}
    BY <1>1, <2>1 DEF World
  <2>5. i \in Upto(dev.dN)
    BY <1>1 DEF Sound
  <2>6. Holding(i, dev')
    BY <2>3, <2>4, <2>5 DEF Tidy, Holding
  <2>7. Serves(thr[t].kind, dev')
    BY <2>3, <2>4 DEF Serves
  <2> QED BY <2>2, <2>3, <2>4, <2>6, <2>7 DEF Orderly
<1>4. CASE DqbufFails(t)
  BY <1>1, <1>4, OrderlyIdle DEF DqbufFails, Orderly
<1>5. CASE RelockRaw(t)
  <2> DEFINE i == thr[t].buf
             h == [dev EXCEPT !.held = @ \cup {i}]
  <2>1. /\ dev' = h /\ thr' = [thr EXCEPT ![t] = Idle] /\ i \in Frames
        /\ thr[t].pc = "got" /\ thr[t].kind = "raw"
    BY <1>1, <1>5 DEF RelockRaw, ThreadState
  <2>2. Holding(i, dev) /\ ~dev.conv /\ ~dev.ctl
    BY <2>1 DEF Orderly, Serves
  <2>3. dev.queued = {}
    BY <2>2 DEF Holding
  <2> HIDE DEF i
  <2>4. h \in World /\ h.ok
    BY <1>1, <2>1 DEF World, IInv, TypeOK
  <2>5. h = Ok(h)
    BY <2>4, OkIsSelf
  <2>6. Tidy(h)
    BY <1>1, <2>1, <2>2, <2>3, <2>5, HeldIsReturned
  <2> QED BY <1>1, <2>1, <2>6, OrderlyIdle
<1>6. ASSUME NEW outcome, KernelReads(t, outcome) PROVE Orderly(thr'[t], dev')
  <2> DEFINE n == IF dev.firstFrame > 0 THEN dev.firstFrame - 1 ELSE 0
  <2>1. /\ thr[t].pc = "kread"
        /\ \/ dev' = dev
           \/ dev.dN = 0 /\ dev' = [dev EXCEPT !.dFio = TRUE]
           \/ dev.dN = 0 /\ dev' = [dev EXCEPT !.firstFrame = n, !.dFio = TRUE]
        /\ \/ thr' = [thr EXCEPT ![t] = Idle]
           \/ thr' = [thr EXCEPT ![t].tries = @ - 1]
    BY <1>6 DEF KernelReads, Counted
  <2> HIDE DEF n
  <2>2. Tidy(dev')
    <3>1. Tidy(dev)
      BY <2>1 DEF Orderly
    <3>2. /\ dev'.queued = dev.queued /\ dev'.dQ = dev.dQ /\ dev'.held = dev.held
          /\ dev'.on = dev.on /\ dev'.ctl = dev.ctl /\ dev'.conv = dev.conv
          /\ dev'.noFrames = dev.noFrames /\ dev'.dDone = dev.dDone /\ dev'.dN = dev.dN
          /\ dev'.dFio => dev.dFio \/ dev.dN = 0
      <4>1. CASE dev' = dev
        BY <4>1
      <4>2. CASE dev.dN = 0 /\ dev' = [dev EXCEPT !.dFio = TRUE]
        BY <1>1, <4>2 DEF World
      <4>3. CASE dev.dN = 0 /\ dev' = [dev EXCEPT !.firstFrame = n, !.dFio = TRUE]
        BY <1>1, <4>3 DEF World
      <4> QED BY <2>1, <4>1, <4>2, <4>3
    <3> QED BY <3>1, <3>2 DEF Tidy
  <2>3. thr'[t] = Idle \/ thr'[t].pc = "kread"
    BY <1>1, <2>1 DEF ThreadState
  <2> QED BY <2>2, <2>3, OrderlyIdle DEF Orderly
<1> QED BY <1>2, <1>3, <1>4, <1>5, <1>6 DEF Kernel

\* Every step of an application of one thread.
LEMMA StepOrderly ==
  ASSUME IInv, dev.open, dev'.open, NEW t, Threads = {t}, [Next]_vars,
         "STREAMON" \notin Refusable, "QBUF" \notin Refusable, Orderly(thr[t], dev)
  PROVE  Orderly(thr'[t], dev')
<1>1. thr \in [Threads -> ThreadState] /\ t \in Threads
  BY DEF IInv, TypeOK
<1>2. thr[t] = Idle => Tidy(dev)
  BY DEF Orderly, Idle
<1>3. ASSUME Tidy(dev'), thr' = thr, thr[t] = Idle PROVE Orderly(thr'[t], dev')
  BY <1>3, OrderlyIdle
<1>4. ASSUME NEW kind, NEW tries, thr' = [thr EXCEPT ![t] = In("dq", kind, dev'.gen, tries)],
             Serves(kind, dev'), Tidy(dev')
      PROVE  Orderly(thr'[t], dev')
  <2> DEFINE x == In("dq", kind, dev'.gen, tries)
  <2>1. thr'[t] = x /\ x.pc = "dq" /\ x.kind = kind /\ x.gen = dev'.gen
    BY <1>1, <1>4 DEF In
  <2> HIDE DEF x
  <2> QED BY <1>4, <2>1 DEF Orderly
<1>5. CASE \/ Qbuf(t) \/ Querybuf(t) \/ Streamon(t) \/ Streamoff(t) \/ Reqbufs(t)
           \/ SetFmt(t) \/ GetFmt(t) \/ SetParm(t) \/ SetInput(t)
           \/ Mmap(t) \/ MmapRaw(t) \/ Munmap(t) \/ MunmapRaw(t)
  BY <1>1, <1>2, <1>3, <1>5, CallsRegular DEF Regular
<1>6. ASSUME NEW F \in Faults, Dqbuf(t, F) PROVE Orderly(thr'[t], dev')
  BY <1>1, <1>2, <1>3, <1>4, <1>6, DqbufRegular DEF Regular
<1>7. ASSUME NEW F \in Faults, Read(t, F) PROVE Orderly(thr'[t], dev')
  <2>1. thr[t] = Idle /\ Tidy(dev')
    BY <1>1, <1>2, <1>7, ReadFacts
  <2>2. ASSUME NEW kind, NEW tries, thr' = [thr EXCEPT ![t] = In("kread", kind, 0, tries)]
        PROVE  Orderly(thr'[t], dev')
    BY <1>1, <2>1, <2>2 DEF In, Orderly
  <2> QED BY <1>1, <1>3, <1>4, <1>7, <2>1, <2>2, ReadFacts
<1>8. CASE Call(t)
  BY <1>1, <1>5, <1>6, <1>7, <1>8, CloseCloses DEF Call
<1>9. CASE Kernel(t) \/ Resume(t) \/ RelockRaw(t) \/ DriverFills
  BY <1>1, <1>9, DriverOrderly, RelockOrderly DEF Resume
<1>10. ~Open
  BY DEF Open
<1>11. CASE UNCHANGED vars
  <2>1. dev' = dev /\ thr' = thr
    BY <1>11 DEF vars
  <2> QED BY <2>1
<1> QED BY <1>8, <1>9, <1>10, <1>11 DEF Next

\* The invariant of an application of one thread.
LEMMA OrderlyHolds ==
  ASSUME NEW t, Threads = {t}, "STREAMON" \notin Refusable, "QBUF" \notin Refusable
  PROVE  Spec => [](dev.open => Orderly(thr[t], dev))
<1> DEFINE Inv == dev.open => Orderly(thr[t], dev)
<1>1. Init => Inv
  <2> SUFFICES ASSUME Init PROVE Tidy(dev) /\ thr[t] = Idle
    BY OrderlyIdle
  <2>1. PICK c \in BOOLEAN : dev = Opened(c, 0)
    BY DEF Init
  <2> QED BY <2>1 DEF Init, Opened, Tidy, Upto
<1>2. IInv /\ Inv /\ [Next]_vars => Inv'
  <2> SUFFICES ASSUME IInv, Inv, [Next]_vars, dev'.open PROVE Orderly(thr'[t], dev')
    OBVIOUS
  <2>1. CASE dev.open
    BY <2>1, StepOrderly
  <2>2. CASE ~dev.open
    <3>1. Open /\ thr[t] = Idle
      BY <2>2, OpenedByOpen DEF IInv
    <3>2. PICK c \in BOOLEAN : dev' = Opened(c, dev.gen)
      BY <3>1 DEF Open
    <3>3. Tidy(dev')
      BY <3>2 DEF Opened, Tidy, Upto
    <3> QED BY <3>1, <3>3, OrderlyIdle DEF Open
  <2> QED BY <2>1, <2>2
<1> QED BY <1>1, <1>2, IInvHolds, PTL DEF Spec

\* Of an application of one thread, and a driver that refuses neither
\* VIDIOC_STREAMON nor VIDIOC_QBUF: a set bit of frame_queued is a buffer the
\* driver has or the thread is just accounting for.
THEOREM QueuedBitsCorrect ==
  ASSUME NEW t, Threads = {t}, "STREAMON" \notin Refusable, "QBUF" \notin Refusable
  PROVE  Spec => []QueuedBitsHeld
<1>1. (dev.open => Orderly(thr[t], dev)) => QueuedBitsHeld
  BY DEF Orderly, Tidy, Holding, QueuedBitsHeld, InFlight
<1> QED BY <1>1, OrderlyHolds, PTL

\* Of the same: no bit outlives the stream and blocks later buffer changes.
THEOREM QueuedBitsCleared ==
  ASSUME NEW t, Threads = {t}, "STREAMON" \notin Refusable, "QBUF" \notin Refusable
  PROVE  Spec => []QueuedOnlyWhileOn
<1>1. (dev.open => Orderly(thr[t], dev)) => QueuedOnlyWhileOn
  BY DEF Orderly, Tidy, Holding, QueuedOnlyWhileOn
<1> QED BY <1>1, OrderlyHolds, PTL

\* Of the same: no buffer is lost while the stream runs, whatever conversions
\* failed and whichever tries were used up.
THEOREM BuffersAccounted ==
  ASSUME NEW t, Threads = {t}, "STREAMON" \notin Refusable, "QBUF" \notin Refusable
  PROVE  Spec => []NoBufferLost
<1>1. (dev.open => Orderly(thr[t], dev)) => NoBufferLost
  BY DEF Orderly, Tidy, Holding, NoBufferLost, InFlight
<1> QED BY <1>1, OrderlyHolds, PTL

\* Of the same: between two read() calls the driver has all of read()'s buffers.
THEOREM ReadStreamRefilled ==
  ASSUME NEW t, Threads = {t}, "STREAMON" \notin Refusable, "QBUF" \notin Refusable
  PROVE  Spec => []ReadStreamFull
<1>1. (dev.open => Orderly(thr[t], dev)) => ReadStreamFull
  BY DEF Orderly, Tidy, Holding, ReadStreamFull, InFlight
<1> QED BY <1>1, OrderlyHolds, PTL
=============================================================================
