--------------------------- MODULE V4l2StreamProofs ---------------------------
(***************************************************************************)
(* What TLAPS proves of V4l2Stream for every number of threads, frames and *)
(* tries, every driver and every application.                              *)
(*                                                                         *)
(* Every function of libv4l2.c keeps Sound of the device, never lets the   *)
(* generation go back, and never takes convert_mmap_buf away without a new *)
(* generation (Keeps).  One lemma per function states that; the theorem    *)
(* about a step of the specification then composes them.                   *)
(*                                                                         *)
(* The second part is about the mappings: the buffer a thread converts is  *)
(* still mapped, and its own, when it has stream_lock again, and what the  *)
(* application mapped has memory behind it.  There each function is shown  *)
(* to leave the mappings alone that a thread in VIDIOC_DQBUF may be        *)
(* waiting for, unless it has changed the generation (Spares), and to      *)
(* leave the device ready for the next call (Steady).                      *)
(***************************************************************************)
EXTENDS V4l2Stream, TLAPS

USE StreamAssumption

\* No pointer of the library into the driver's buffers.
Unmapped(w) == \A i \in Frames : w.ptr[i] = "none"

\* w may be what a function of the library leaves of v.
Keeps(v, w) ==
  /\ w \in World
  /\ Sound(w)
  /\ w.open = v.open
  /\ v.gen < w.gen \/ (v.gen = w.gen /\ v.convBuf <= w.convBuf)

-----------------------------------------------------------------------------
(* Numbers of buffers.                                                      *)

\* A set of the first n frames is a set of frames.
LEMMA UptoFrames == \A n \in 0..MaxFrames : Upto(n) \in SUBSET Frames
  BY DEF Upto, Frames

\* A driver that is asked for read()'s number of buffers grants a number that
\* libv4l2 can manage, and grants the same number when asked for it again.
LEMMA GrantFacts ==
  /\ Grant(NRead) \in 1..MaxFrames
  /\ MinBufs <= Grant(NRead)
  /\ \A n \in 0..MaxFrames : /\ Grant(n) \in 0..MaxFrames
                             /\ Grant(n) = 0 \/ MinBufs <= Grant(n)
                             /\ n # 0 /\ MinBufs <= n => Grant(n) = n
                             /\ n # 0 => Grant(n) # 0
                             /\ n = 0 => Grant(n) = 0
  BY DEF Grant

\* Functions of the library compose.
LEMMA KeepsTransitive ==
  ASSUME NEW u \in World, NEW v, NEW w, Keeps(u, v), Keeps(v, w)
  PROVE  Keeps(u, w)
  BY DEF Keeps, World

\* A call that changes nothing, or only the result, the format, the fallback
\* flag, the touched flag or the first frames to judge, keeps everything.
LEMMA KeepsSelf ==
  ASSUME NEW w \in World, Sound(w)
  PROVE  Keeps(w, w)
  BY DEF Keeps, World

LEMMA KeepsOk ==
  ASSUME NEW w \in World, Sound(w), NEW b \in BOOLEAN
  PROVE  Keeps(w, [w EXCEPT !.ok = b])
  BY DEF Keeps, World, Sound

LEMMA OkKeeps ==
  ASSUME NEW w \in World, Sound(w)
  PROVE  /\ Keeps(w, Ok(w)) /\ Keeps(w, Fail(w))
         /\ Ok(w).ok = TRUE /\ Ok(w).convBuf = w.convBuf /\ Ok(w).gen = w.gen
         /\ Fail(w).ok = FALSE /\ Fail(w).convBuf = w.convBuf /\ Fail(w).gen = w.gen
<1>1. Keeps(w, Ok(w)) /\ Keeps(w, Fail(w))
  BY KeepsOk DEF Ok, Fail
<1> QED BY <1>1 DEF Ok, Fail, World

LEMMA KeepsConv ==
  ASSUME NEW w \in World, Sound(w), NEW b \in BOOLEAN
  PROVE  Keeps(w, [w EXCEPT !.conv = b])
  BY DEF Keeps, World, Sound

LEMMA KeepsCtl ==
  ASSUME NEW w \in World, Sound(w), NEW b \in BOOLEAN
  PROVE  Keeps(w, [w EXCEPT !.ctl = b])
  BY DEF Keeps, World, Sound

-----------------------------------------------------------------------------
(* The functions, from the bottom up.                                       *)

\* v4l2_unmap_buffers() really unmaps all: nothing is mapped past no_frames.
LEMMA UnmapKeeps ==
  ASSUME NEW w \in World, Sound(w)
  PROVE  /\ Keeps(w, UnmapBuffers(w))
         /\ Unmapped(UnmapBuffers(w))
         /\ UnmapBuffers(w).convBuf = w.convBuf
  BY DEF UnmapBuffers, World, Sound, Keeps, Unmapped

\* v4l2_streamoff() keeps the view of the stream right and maps nothing.
LEMMA StreamOffKeeps ==
  ASSUME NEW w \in World, NEW F, Sound(w)
  PROVE  /\ Keeps(w, StreamOff(w, F))
         /\ StreamOff(w, F).ptr = w.ptr
         /\ StreamOff(w, F).convBuf = w.convBuf
<1>1. CASE ~w.on
  <2>1. StreamOff(w, F) = [w EXCEPT !.ok = TRUE]
    BY <1>1 DEF StreamOff, Ok
  <2> QED BY <2>1, KeepsOk DEF World
<1>2. CASE w.on /\ Refused(F, "STREAMOFF")
  <2>1. StreamOff(w, F) = [w EXCEPT !.ok = FALSE]
    BY <1>2 DEF StreamOff, Fail
  <2> QED BY <2>1, KeepsOk DEF World
<1>3. CASE w.on /\ ~Refused(F, "STREAMOFF")
  <2> DEFINE v == [w EXCEPT !.ok = TRUE, !.on = FALSE, !.queued = {},
           !.dOn = FALSE, !.dQ = {}, !.dDone = {}, !.held = Upto(w.dN)]
  <2>1. Upto(w.dN) \in SUBSET Frames /\ {} \in SUBSET Frames
    BY UptoFrames DEF World
  <2>2. StreamOff(w, F) = v
    BY <1>3 DEF StreamOff
  <2>3. v \in World
    BY <2>1 DEF World
  <2>4. Sound(v)
    BY DEF World, Sound
  <2>5. v.ptr = w.ptr /\ v.convBuf = w.convBuf /\ v.gen = w.gen /\ v.open = w.open
    BY DEF World
  <2> QED BY <2>2, <2>3, <2>4, <2>5 DEF Keeps, World
<1> QED BY <1>1, <1>2, <1>3

\* v4l2_streamon() changes nothing but the stream's state.
LEMMA StreamOnKeeps ==
  ASSUME NEW w \in World, NEW F, Sound(w)
  PROVE  Keeps(w, StreamOn(w, F))
<1> DEFINE v == [w EXCEPT !.ok = TRUE, !.on = TRUE, !.dOn = TRUE,
                          !.firstFrame = IgnoreFirst]
<1>1. \/ StreamOn(w, F) = [w EXCEPT !.ok = TRUE]
      \/ StreamOn(w, F) = [w EXCEPT !.ok = FALSE]
      \/ StreamOn(w, F) = v
  BY DEF StreamOn, Ok, Fail
<1>2. IgnoreFirst \in 0..IgnoreFirst
  OBVIOUS
<1>3. v \in World
  BY <1>2 DEF World
<1>4. Keeps(w, v)
  BY <1>3 DEF World, Sound, Keeps
<1> QED BY <1>1, <1>4, KeepsOk

\* v4l2_map_buffers() maps no frame that the driver does not have.
LEMMA MapBuffersKeeps ==
  ASSUME NEW w \in World, NEW F, Sound(w)
  PROVE  /\ Keeps(w, MapBuffers(w, F))
         /\ MapBuffers(w, F).convBuf = w.convBuf
         /\ MapBuffers(w, F).gen = w.gen
<1> DEFINE need == {i \in Upto(w.noFrames) : w.ptr[i] = "none"}
           bad  == {i \in need : i >= w.dN \/ RefusedFor(F, "MAP", i)}
           done == {i \in need : \A j \in bad : i < j}
           ptr  == [i \in Frames |-> IF i \in done THEN "cur" ELSE w.ptr[i]]
           v    == [w EXCEPT !.ptr = ptr, !.ok = (bad = {})]
<1>1. MapBuffers(w, F) = v
  BY DEF MapBuffers
<1>2. \A i \in Frames : ptr[i] # "none" => i < w.noFrames
  <2> TAKE i \in Frames
  <2>1. i \in done => i < w.noFrames
    BY DEF Upto, World
  <2>2. w.ptr[i] # "none" => i < w.noFrames
    BY DEF Sound
  <2> QED BY <2>1, <2>2
<1>3. ptr \in [Frames -> {"none", "cur", "stale"}]
  BY DEF World
<1> HIDE DEF ptr, bad
<1>4. v \in World
  BY <1>3 DEF World
<1>5. Sound(v)
  BY <1>2 DEF World, Sound
<1>6. v.convBuf = w.convBuf /\ v.gen = w.gen /\ v.open = w.open
  BY DEF World
<1> HIDE DEF v
<1>7. Keeps(w, v)
  BY <1>4, <1>5, <1>6 DEF Keeps, World
<1> QED BY <1>1, <1>6, <1>7

\* v4l2_ensure_convert_mmap_buf() makes room for every frame, or fails.
LEMMA EnsureConvertMmapBufKeeps ==
  ASSUME NEW w \in World, NEW F, Sound(w)
  PROVE  /\ Keeps(w, EnsureConvertMmapBuf(w, F))
         /\ EnsureConvertMmapBuf(w, F).ok => EnsureConvertMmapBuf(w, F).convBuf > 0
         /\ EnsureConvertMmapBuf(w, F).gen = w.gen
<1> DEFINE e == EnsureConvertMmapBuf(w, F)
           v == [w EXCEPT !.convBuf = w.noFrames, !.ok = TRUE]
<1>1. \/ w.convBuf > 0 /\ e = Ok(w)
      \/ e = Fail(w)
      \/ w.convBuf = 0 /\ w.noFrames > 0 /\ e = v
  BY DEF EnsureConvertMmapBuf, World, Ok, Fail
<1>2. v \in World /\ v.convBuf = w.noFrames /\ v.gen = w.gen /\ v.open = w.open
  BY DEF World
<1>3. w.convBuf = 0 /\ w.noFrames > 0 => Sound(v)
  BY DEF World, Sound
<1>4. w.convBuf = 0 /\ w.noFrames > 0 => Keeps(w, v)
  BY <1>2, <1>3 DEF World, Keeps
<1>5. w.convBuf \in Nat /\ w.noFrames \in Nat
  BY DEF World
<1> HIDE DEF e, v
<1>6. /\ Keeps(w, e)
      /\ e.ok => e.convBuf > 0
      /\ e.gen = w.gen
  BY <1>1, <1>2, <1>4, <1>5, OkKeeps
<1> QED BY <1>6 DEF e

\* Queueing one or several buffers of the driver changes the queues only.
LEMMA QueueingKeeps ==
  ASSUME NEW w \in World, Sound(w),
         NEW b \in BOOLEAN, NEW S \in SUBSET Upto(w.dN),
         NEW Q \in SUBSET Frames, NEW H \in SUBSET Frames
  PROVE  Keeps(w, [w EXCEPT !.ok = b, !.queued = Q, !.dQ = w.dQ \cup S, !.held = H])
<1> DEFINE v == [w EXCEPT !.ok = b, !.queued = Q, !.dQ = w.dQ \cup S, !.held = H]
<1>1. w.dQ \cup S \in SUBSET Frames
  BY UptoFrames DEF World
<1>2. v \in World
  BY <1>1 DEF World
<1>3. Sound(v)
  BY DEF World, Sound
<1> QED BY <1>2, <1>3 DEF Keeps, World

\* v4l2_queue_read_buffer().
LEMMA QueueReadBufferKeeps ==
  ASSUME NEW w \in World, NEW i \in Frames, NEW F, Sound(w)
  PROVE  /\ Keeps(w, QueueReadBuffer(w, i, F))
         /\ QueueReadBuffer(w, i, F).convBuf = w.convBuf
         /\ QueueReadBuffer(w, i, F).gen = w.gen
<1> DEFINE e == QueueReadBuffer(w, i, F)
           v == [w EXCEPT !.ok = TRUE, !.queued = w.queued \cup {i},
                          !.dQ = w.dQ \cup {i}, !.held = w.held \ {i}]
<1>1. \/ e = Ok(w)
      \/ e = Fail(w)
      \/ QbufOk(w, i, F) /\ e = v
  BY DEF QueueReadBuffer, Ok, Fail
<1>2. QbufOk(w, i, F) => {i} \in SUBSET Upto(w.dN)
  BY DEF QbufOk, Upto, Frames, World
<1>3. w.queued \cup {i} \in SUBSET Frames /\ w.held \ {i} \in SUBSET Frames
  BY DEF World
<1>4. QbufOk(w, i, F) => Keeps(w, v)
  BY <1>2, <1>3, QueueingKeeps
<1>5. v.convBuf = w.convBuf /\ v.gen = w.gen
  BY DEF World
<1> HIDE DEF e, v
<1>6. Keeps(w, e) /\ e.convBuf = w.convBuf /\ e.gen = w.gen
  BY <1>1, <1>4, <1>5, OkKeeps
<1> QED BY <1>6 DEF e

\* v4l2_queue_read_buffers().
LEMMA QueueReadBuffersKeeps ==
  ASSUME NEW w \in World, NEW F, Sound(w)
  PROVE  Keeps(w, QueueReadBuffers(w, F))
<1> DEFINE mapped == {i \in Upto(w.noFrames) : w.ptr[i] # "none"}
           new    == {i \in mapped \ w.queued : QbufOk(w, i, F)}
           b      == new \cup (mapped \cap w.queued) # {}
<1>1. QueueReadBuffers(w, F) =
        [w EXCEPT !.ok = b, !.queued = w.queued \cup new, !.dQ = w.dQ \cup new,
                  !.held = w.held \ new]
  BY DEF QueueReadBuffers
<1>2. new \in SUBSET Upto(w.dN)
  BY DEF Sound
<1>3. w.queued \cup new \in SUBSET Frames /\ w.held \ new \in SUBSET Frames
  BY <1>2, UptoFrames DEF World
<1>4. b \in BOOLEAN
  OBVIOUS
<1> HIDE DEF new, b
<1>5. Keeps(w, [w EXCEPT !.ok = b, !.queued = w.queued \cup new,
                         !.dQ = w.dQ \cup new, !.held = w.held \ new])
  BY <1>2, <1>3, <1>4, QueueingKeeps
<1> QED BY <1>1, <1>5

\* The driver's VIDIOC_REQBUFS by itself: what it allocates and what it drops.
LEMMA DriverReqbufsFacts ==
  ASSUME NEW w \in World, NEW k \in 0..MaxFrames, NEW F, Sound(w),
         NEW d, d = DriverReqbufs(w, k, F)
  PROVE  /\ d \in World
         /\ d.on = d.dOn
         /\ d.noFrames = w.noFrames /\ d.byRead = w.byRead
         /\ d.convBuf = w.convBuf /\ d.gen = w.gen /\ d.open = w.open
         /\ \A i \in Frames : d.ptr[i] # "none" => w.ptr[i] # "none"
         /\ d.dDone \subseteq d.dQ /\ d.dQ \subseteq Upto(d.dN)
         /\ d.ok => d.dN = Grant(k)
         /\ ~d.ok => d = [w EXCEPT !.ok = FALSE]
<1> DEFINE ptr == [i \in Frames |-> IF w.ptr[i] = "cur" THEN "stale" ELSE w.ptr[i]]
           v   == [w EXCEPT !.ok = TRUE, !.dN = Grant(k), !.dQ = {}, !.dDone = {},
                            !.dMap = {}, !.held = Upto(Grant(k)), !.ptr = ptr]
<1>1. d = [w EXCEPT !.ok = FALSE] \/ d = v
  BY DEF DriverReqbufs, Fail
<1>2. CASE d = [w EXCEPT !.ok = FALSE]
  <2>1. Keeps(w, d)
    BY <1>2, KeepsOk
  <2> QED BY <2>1, <1>2 DEF World, Sound, Keeps
<1>3. CASE d = v
  <2>1. Grant(k) \in 0..MaxFrames
    BY GrantFacts
  <2>2. Upto(Grant(k)) \in SUBSET Frames /\ {} \in SUBSET Frames
    BY <2>1, UptoFrames
  <2>3. ptr \in [Frames -> {"none", "cur", "stale"}]
    BY DEF World
  <2>4. \A i \in Frames : ptr[i] # "none" => w.ptr[i] # "none"
    OBVIOUS
  <2> HIDE DEF ptr
  <2>5. v \in World
    BY <2>1, <2>2, <2>3 DEF World
  <2>6. /\ v.on = w.on /\ v.dOn = w.dOn /\ v.noFrames = w.noFrames
        /\ v.byRead = w.byRead /\ v.convBuf = w.convBuf /\ v.gen = w.gen
        /\ v.open = w.open /\ v.ptr = ptr /\ v.dDone = {} /\ v.dQ = {}
        /\ v.ok = TRUE /\ v.dN = Grant(k)
    BY DEF World
  <2> HIDE DEF v
  <2> QED BY <1>3, <2>4, <2>5, <2>6 DEF Sound
<1> QED BY <1>1, <1>2, <1>3

\* v4l2_request_read_buffers(): the number of frames stays the driver's, and
\* the number convert_mmap_buf was made for.
LEMMA RequestReadBuffersKeeps ==
  ASSUME NEW w \in World, NEW F, Sound(w)
  PROVE  Keeps(w, RequestReadBuffers(w, F))
<1> DEFINE count == IF w.noFrames > 0 THEN w.noFrames ELSE NRead
           d     == DriverReqbufs(w, count, F)
           v     == [d EXCEPT !.byRead = d.byRead \/ w.noFrames = 0, !.noFrames = d.dN]
<1>1. count \in 0..MaxFrames
  BY DEF World
<1>2. RequestReadBuffers(w, F) = IF ~d.ok THEN d ELSE v
  BY DEF RequestReadBuffers
<1> HIDE DEF count
<1>3. /\ d \in World /\ d.on = d.dOn
      /\ d.noFrames = w.noFrames /\ d.byRead = w.byRead
      /\ d.convBuf = w.convBuf /\ d.gen = w.gen /\ d.open = w.open
      /\ \A i \in Frames : d.ptr[i] # "none" => w.ptr[i] # "none"
      /\ d.dDone \subseteq d.dQ /\ d.dQ \subseteq Upto(d.dN)
      /\ d.ok => d.dN = Grant(count)
      /\ ~d.ok => d = [w EXCEPT !.ok = FALSE]
  BY <1>1, DriverReqbufsFacts
<1>4. Grant(count) = IF w.noFrames > 0 THEN w.noFrames ELSE Grant(NRead)
  BY GrantFacts DEF count, World, Sound
<1> HIDE DEF d
<1>5. CASE ~d.ok
  BY <1>2, <1>3, <1>5, KeepsOk
<1>6. CASE d.ok
  <2>1. v \in World
    BY <1>3 DEF World
  <2>2. /\ v.on = d.on /\ v.dOn = d.dOn /\ v.noFrames = d.dN /\ v.dN = d.dN
        /\ v.byRead = (d.byRead \/ w.noFrames = 0) /\ v.convBuf = d.convBuf
        /\ v.gen = d.gen /\ v.open = d.open /\ v.ptr = d.ptr
        /\ v.dDone = d.dDone /\ v.dQ = d.dQ
    BY <1>3 DEF World
  <2> HIDE DEF v
  <2>3. v.noFrames = IF w.noFrames > 0 THEN w.noFrames ELSE Grant(NRead)
    BY <1>3, <1>4, <1>6, <2>2
  <2>4. \A i \in Frames : v.ptr[i] # "none" => i < v.noFrames
    BY <1>3, <2>2, <2>3, GrantFacts DEF Sound, Frames, World
  <2>5. Sound(v)
    BY <1>3, <2>2, <2>3, <2>4, GrantFacts DEF Sound, World
  <2>6. Keeps(w, v)
    BY <1>3, <2>1, <2>2, <2>5 DEF Keeps, World
  <2> QED BY <1>2, <1>6, <2>6
<1> QED BY <1>5, <1>6

\* v4l2_unrequest_read_buffers(), called with nothing mapped.
LEMMA UnrequestReadBuffersKeeps ==
  ASSUME NEW w \in World, NEW F, Sound(w), Unmapped(w)
  PROVE  /\ Keeps(w, UnrequestReadBuffers(w, F))
         /\ Unmapped(UnrequestReadBuffers(w, F))
         /\ UnrequestReadBuffers(w, F).convBuf = w.convBuf
<1> DEFINE d == DriverReqbufs(w, 0, F)
           v == [d EXCEPT !.noFrames = 0, !.byRead = FALSE]
<1>1. UnrequestReadBuffers(w, F) = w \/ (w.byRead /\ d.ok /\ UnrequestReadBuffers(w, F) = v)
  BY DEF UnrequestReadBuffers
<1>2. 0 \in 0..MaxFrames
  OBVIOUS
<1>3. /\ d \in World /\ d.on = d.dOn
      /\ d.convBuf = w.convBuf /\ d.gen = w.gen /\ d.open = w.open
      /\ \A i \in Frames : d.ptr[i] # "none" => w.ptr[i] # "none"
      /\ d.dDone \subseteq d.dQ /\ d.dQ \subseteq Upto(d.dN)
      /\ d.ok => d.dN = Grant(0)
  BY <1>2, DriverReqbufsFacts
<1> HIDE DEF d
<1>4. CASE w.byRead /\ d.ok
  <2>1. v \in World
    BY <1>2, <1>3 DEF World
  <2>2. /\ v.on = d.on /\ v.dOn = d.dOn /\ v.noFrames = 0 /\ v.dN = 0
        /\ v.byRead = FALSE /\ v.convBuf = w.convBuf
        /\ v.gen = w.gen /\ v.open = w.open /\ v.ptr = d.ptr
        /\ v.dDone = d.dDone /\ v.dQ = d.dQ /\ d.dN = 0
    BY <1>2, <1>3, <1>4, GrantFacts DEF World
  <2> HIDE DEF v
  <2>3. Unmapped(v)
    BY <1>3, <2>2 DEF Unmapped
  <2>4. w.convBuf > 0 => w.convBuf = Grant(NRead)
    BY <1>4 DEF Sound
  <2>5. Sound(v)
    BY <1>3, <1>4, <2>2, <2>3, <2>4 DEF Sound, Unmapped, World
  <2> QED BY <2>1, <2>2, <2>3, <2>5, <1>1, KeepsSelf DEF Keeps, World
<1> QED BY <1>1, <1>4, KeepsSelf

\* v4l2_activate_read_stream(), whatever step of it fails.
LEMMA ActivateReadStreamKeeps ==
  ASSUME NEW w \in World, NEW F, Sound(w)
  PROVE  Keeps(w, ActivateReadStream(w, F))
<1> DEFINE a == RequestReadBuffers(w, F)
           b == MapBuffers(a, F)
           c == QueueReadBuffers(b, F)
           d == [c EXCEPT !.ctl = TRUE]
<1>1. Keeps(w, a)
  BY RequestReadBuffersKeeps
<1>2. Keeps(a, b)
  BY <1>1, MapBuffersKeeps DEF Keeps
<1>3. Keeps(b, c)
  BY <1>2, QueueReadBuffersKeeps DEF Keeps
<1>4. Keeps(c, d)
  BY <1>3, KeepsCtl DEF Keeps
<1>5. Keeps(d, StreamOn(d, F))
  BY <1>4, StreamOnKeeps DEF Keeps
<1>6. \/ ActivateReadStream(w, F) \in {a, b, c, StreamOn(d, F)}
      \/ ActivateReadStream(w, F) = [w EXCEPT !.ok = FALSE]
  BY DEF ActivateReadStream, Fail
<1> HIDE DEF a, b, c, d
<1>7. a \in World /\ Keeps(w, b)
  BY <1>1, <1>2, KeepsTransitive DEF Keeps
<1>8. Keeps(w, c)
  BY <1>3, <1>7, KeepsTransitive
<1>9. Keeps(w, d)
  BY <1>4, <1>8, KeepsTransitive
<1>10. Keeps(w, StreamOn(d, F))
  BY <1>5, <1>9, KeepsTransitive
<1>11. Keeps(w, [w EXCEPT !.ok = FALSE])
  BY KeepsOk
<1> QED BY <1>1, <1>6, <1>7, <1>8, <1>10, <1>11

\* v4l2_deactivate_read_stream(): when it succeeds nothing is mapped, and a
\* convert_mmap_buf that was there still is.
LEMMA DeactivateReadStreamKeeps ==
  ASSUME NEW w \in World, NEW F, Sound(w)
  PROVE  /\ Keeps(w, DeactivateReadStream(w, F))
         /\ DeactivateReadStream(w, F).convBuf = w.convBuf
         /\ DeactivateReadStream(w, F).ok \/ Unmapped(w) => Unmapped(DeactivateReadStream(w, F))
<1> DEFINE a == StreamOff(w, F)
           u == UnmapBuffers(a)
           r == UnrequestReadBuffers(u, F)
           v == [r EXCEPT !.ctl = FALSE, !.ok = TRUE]
<1>1. Keeps(w, a) /\ a.convBuf = w.convBuf /\ a.ptr = w.ptr
  BY StreamOffKeeps
<1>2. Keeps(a, u) /\ u.convBuf = a.convBuf /\ Unmapped(u)
  BY <1>1, UnmapKeeps DEF Keeps
<1>3. Keeps(u, r) /\ r.convBuf = u.convBuf /\ Unmapped(r)
  BY <1>2, UnrequestReadBuffersKeeps DEF Keeps
<1>4. DeactivateReadStream(w, F) = IF ~a.ok THEN a ELSE v
  BY DEF DeactivateReadStream
<1> HIDE DEF a, u, r
<1>5. Keeps(r, [r EXCEPT !.ctl = FALSE])
  BY <1>3, KeepsCtl DEF Keeps
<1>6. Keeps([r EXCEPT !.ctl = FALSE], v)
  BY <1>5, KeepsOk DEF Keeps
<1>7. v.convBuf = r.convBuf /\ v.ptr = r.ptr
  BY <1>3 DEF Keeps, World
<1>8. Keeps(w, u)
  BY <1>1, <1>2, KeepsTransitive DEF Keeps
<1>9. Keeps(w, r)
  BY <1>3, <1>8, KeepsTransitive
<1>10. Keeps(w, [r EXCEPT !.ctl = FALSE])
  BY <1>5, <1>9, KeepsTransitive
<1>11. Keeps(w, v)
  BY <1>6, <1>10, KeepsTransitive
<1> QED BY <1>1, <1>2, <1>3, <1>4, <1>7, <1>11 DEF Unmapped

\* v4l2_check_buffer_change_ok(): a new generation before anything is taken
\* away, and when it agrees nothing is mapped and convert_mmap_buf is gone.
LEMMA CheckBufferChangeOkKeeps ==
  ASSUME NEW w \in World, NEW F, Sound(w)
  PROVE  /\ Keeps(w, CheckBufferChangeOk(w, F))
         /\ CheckBufferChangeOk(w, F).ok => /\ Unmapped(CheckBufferChangeOk(w, F))
                                            /\ CheckBufferChangeOk(w, F).convBuf = 0
<1> DEFINE g == [w EXCEPT !.gen = @ + 1]
           u == UnmapBuffers(g)
           v == [u EXCEPT !.convBuf = 0, !.ok = TRUE]
           f == [u EXCEPT !.ok = FALSE]
           d == DeactivateReadStream(v, F)
<1>1. g \in World /\ Sound(g) /\ g.open = w.open /\ g.gen = w.gen + 1
  BY DEF World, Sound
<1>2. u \in World /\ Sound(u) /\ u.open = w.open /\ u.gen > w.gen /\ Unmapped(u)
  BY <1>1, UnmapKeeps DEF Keeps, World
<1>3. \/ CheckBufferChangeOk(w, F) = f
      \/ CheckBufferChangeOk(w, F) \in {v, d}
  BY DEF CheckBufferChangeOk, Fail
<1> HIDE DEF g, u
<1>4. Keeps(w, f) /\ f.ok = FALSE
  <2>1. Keeps(u, f)
    BY <1>2, KeepsOk
  <2> QED BY <1>2, <2>1 DEF Keeps, World
<1>5. v \in World /\ v.open = u.open /\ v.gen = u.gen /\ v.convBuf = 0 /\ v.ptr = u.ptr
  <2>1. 0 \in 0..MaxFrames
    OBVIOUS
  <2> QED BY <1>2, <2>1 DEF World
<1>6. Sound(v)
  BY <1>2 DEF World, Sound
<1> HIDE DEF v
<1>7. Keeps(w, v) /\ Unmapped(v)
  BY <1>2, <1>5, <1>6 DEF Keeps, World, Unmapped
<1>8. Keeps(v, d) /\ d.convBuf = 0 /\ Unmapped(d)
  BY <1>5, <1>6, <1>7, DeactivateReadStreamKeeps
<1>9. Keeps(w, d)
  BY <1>7, <1>8, KeepsTransitive
<1> HIDE DEF d, f
<1> QED BY <1>3, <1>4, <1>5, <1>7, <1>8, <1>9

\* v4l2_s_fmt().
LEMMA SFmtKeeps ==
  ASSUME NEW w \in World, NEW c \in BOOLEAN, NEW F, Sound(w)
  PROVE  Keeps(w, SFmt(w, c, F))
<1> DEFINE a == CheckBufferChangeOk(w, F)
           f == [a EXCEPT !.ok = FALSE]
           v == [a EXCEPT !.conv = c]
           r == [w EXCEPT !.ok = FALSE]
<1>1. SFmt(w, c, F) = r \/ SFmt(w, c, F) \in {a, f, v}
  BY DEF SFmt, Fail
<1>2. Keeps(w, a)
  BY CheckBufferChangeOkKeeps
<1> HIDE DEF a
<1>3. Keeps(a, f) /\ Keeps(a, v) /\ Keeps(w, r)
  BY <1>2, KeepsOk, KeepsConv DEF Keeps
<1> HIDE DEF f, v, r
<1>4. Keeps(w, f) /\ Keeps(w, v)
  BY <1>2, <1>3, KeepsTransitive
<1> QED BY <1>1, <1>2, <1>3, <1>4

\* v4l2_adjust_src_fmt_to_fps().
LEMMA AdjustSrcFmtToFpsKeeps ==
  ASSUME NEW w \in World, NEW c \in BOOLEAN, NEW F, Sound(w)
  PROVE  Keeps(w, AdjustSrcFmtToFps(w, c, F))
<1> DEFINE a == CheckBufferChangeOk(w, F)
           o == [a EXCEPT !.ok = TRUE]
           v == [a EXCEPT !.conv = c]
<1>1. AdjustSrcFmtToFps(w, c, F) \in {o, v}
  BY DEF AdjustSrcFmtToFps, Ok
<1>2. Keeps(w, a)
  BY CheckBufferChangeOkKeeps
<1> HIDE DEF a
<1>3. Keeps(a, o) /\ Keeps(a, v)
  BY <1>2, KeepsOk, KeepsConv DEF Keeps
<1> HIDE DEF o, v
<1>4. Keeps(w, o) /\ Keeps(w, v)
  BY <1>2, <1>3, KeepsTransitive
<1> QED BY <1>1, <1>4

-----------------------------------------------------------------------------
(* The calls that return without blocking.                                  *)

\* VIDIOC_S_STD, S_INPUT and S_DV_TIMINGS.
LEMMA SInputKeeps ==
  ASSUME NEW w \in World, NEW x \in BOOLEAN, NEW c \in BOOLEAN, NEW F, Sound(w)
  PROVE  Keeps(w, SInput(w, x, c, F))
<1> DEFINE s == [w EXCEPT !.conv = FALSE]
           a == SFmt(s, c, F)
           o == [a EXCEPT !.ok = TRUE]
<1>1. SInput(w, x, c, F) \in {[w EXCEPT !.ok = FALSE], [w EXCEPT !.ok = TRUE], o}
  BY DEF SInput, Ok, Fail
<1>2. Keeps(w, s)
  BY KeepsConv
<1> HIDE DEF s
<1>3. Keeps(s, a)
  BY <1>2, SFmtKeeps DEF Keeps
<1> HIDE DEF a
<1>4. Keeps(a, o)
  BY <1>3, KeepsOk DEF Keeps
<1> HIDE DEF o
<1>5. Keeps(w, a)
  BY <1>2, <1>3, KeepsTransitive
<1>6. Keeps(w, o)
  BY <1>4, <1>5, KeepsTransitive
<1>7. Keeps(w, [w EXCEPT !.ok = TRUE]) /\ Keeps(w, [w EXCEPT !.ok = FALSE])
  BY KeepsOk
<1> QED BY <1>1, <1>6, <1>7

\* The first lines of every stream ioctl.
LEMMA TouchKeeps ==
  ASSUME NEW w \in World, NEW F, Sound(w)
  PROVE  Keeps(w, Touch(w, F))
<1> DEFINE a == IF ~w.touched /\ DstOnly /\ ~w.conv THEN SFmt(w, TRUE, F) ELSE w
           v == [a EXCEPT !.touched = TRUE, !.ok = TRUE]
<1>1. Keeps(w, a)
  BY SFmtKeeps, KeepsSelf
<1>2. Touch(w, F) = v
  BY DEF Touch
<1> HIDE DEF a
<1>3. v \in World /\ Sound(v) /\ v.open = a.open /\ v.gen = a.gen /\ v.convBuf = a.convBuf
  BY <1>1 DEF Keeps, World, Sound
<1> HIDE DEF v
<1> QED BY <1>1, <1>2, <1>3 DEF Keeps

\* The mmap ioctls take the stream back first.
LEMMA TakeBackKeeps ==
  ASSUME NEW w \in World, NEW F, Sound(w)
  PROVE  Keeps(w, TakeBack(w, F))
<1> DEFINE a == Touch(w, F)
           d == DeactivateReadStream(a, F)
<1>1. TakeBack(w, F) \in {a, d}
  BY DEF TakeBack
<1>2. Keeps(w, a)
  BY TouchKeeps
<1> HIDE DEF a
<1>3. Keeps(a, d)
  BY <1>2, DeactivateReadStreamKeeps DEF Keeps
<1> HIDE DEF d
<1>4. Keeps(w, d)
  BY <1>2, <1>3, KeepsTransitive
<1> QED BY <1>1, <1>2, <1>4

\* VIDIOC_QBUF.
LEMMA QbufCallKeeps ==
  ASSUME NEW w \in World, NEW i \in Frames, NEW F, Sound(w)
  PROVE  Keeps(w, QbufCall(w, i, F))
<1> DEFINE a == TakeBack(w, F)
           b == IF a.conv THEN MapBuffers(a, F) ELSE Ok(a)
           v == [b EXCEPT !.dQ = @ \cup {i}, !.held = @ \ {i}]
<1>1. \/ QbufCall(w, i, F) \in {a, b}
      \/ QbufOk(b, i, F) /\ QbufCall(w, i, F) = v
  BY DEF QbufCall
<1>2. Keeps(w, a)
  BY TakeBackKeeps
<1> HIDE DEF a
<1>3. Keeps(a, b)
  BY <1>2, MapBuffersKeeps, KeepsOk DEF Keeps, Ok
<1> HIDE DEF b
<1>4. QbufOk(b, i, F) => Keeps(b, v)
  <2>1. QbufOk(b, i, F) => {i} \in SUBSET Upto(b.dN)
    BY <1>3 DEF QbufOk, Upto, Frames, World, Keeps
  <2>2. /\ b.queued \in SUBSET Frames /\ b.ok \in BOOLEAN
        /\ b.held \ {i} \in SUBSET Frames
    BY <1>3 DEF Keeps, World
  <2>3. v = [b EXCEPT !.ok = b.ok, !.queued = b.queued, !.dQ = b.dQ \cup {i},
                      !.held = b.held \ {i}]
    BY <1>3 DEF Keeps, World
  <2> HIDE DEF v
  <2>4. b \in World /\ Sound(b)
    BY <1>3 DEF Keeps
  <2>5. QbufOk(b, i, F) =>
          Keeps(b, [b EXCEPT !.ok = b.ok, !.queued = b.queued, !.dQ = b.dQ \cup {i},
                             !.held = b.held \ {i}])
    BY <2>1, <2>2, <2>4, QueueingKeeps
  <2> QED BY <2>3, <2>5
<1> HIDE DEF v
<1>5. Keeps(w, b)
  BY <1>2, <1>3, KeepsTransitive
<1>6. QbufOk(b, i, F) => Keeps(w, v)
  BY <1>4, <1>5, KeepsTransitive
<1> QED BY <1>1, <1>2, <1>5, <1>6

\* VIDIOC_STREAMON and VIDIOC_STREAMOFF.
LEMMA StreamCallsKeep ==
  ASSUME NEW w \in World, NEW F, Sound(w)
  PROVE  Keeps(w, StreamOnCall(w, F)) /\ Keeps(w, StreamOffCall(w, F))
<1> DEFINE a == TakeBack(w, F)
<1>1. Keeps(w, a)
  BY TakeBackKeeps
<1>2. StreamOnCall(w, F) \in {a, StreamOn(a, F)}
  BY DEF StreamOnCall
<1>3. StreamOffCall(w, F) \in {a, StreamOff(a, F)}
  BY DEF StreamOffCall
<1> HIDE DEF a
<1>4. Keeps(a, StreamOn(a, F)) /\ Keeps(a, StreamOff(a, F))
  BY <1>1, StreamOnKeeps, StreamOffKeeps DEF Keeps
<1>5. Keeps(w, StreamOn(a, F)) /\ Keeps(w, StreamOff(a, F))
  BY <1>1, <1>4, KeepsTransitive
<1> QED BY <1>1, <1>2, <1>3, <1>5

\* VIDIOC_REQBUFS: only once nothing of the old buffers is mapped any more.
LEMMA ReqbufsCallKeeps ==
  ASSUME NEW w \in World, NEW n \in 0..MaxFrames, NEW F, Sound(w)
  PROVE  Keeps(w, ReqbufsCall(w, n, F))
<1> DEFINE x == Touch(w, F)
           a == CheckBufferChangeOk(x, F)
           d == DriverReqbufs(a, n, F)
           v == [d EXCEPT !.noFrames = d.dN, !.byRead = FALSE, !.asked = (d.dN > 0)]
<1>1. ReqbufsCall(w, n, F) = IF ~a.ok THEN a ELSE IF ~d.ok THEN d ELSE v
  BY DEF ReqbufsCall
<1>2. Keeps(w, x)
  BY TouchKeeps
<1> HIDE DEF x
<1>3. Keeps(x, a) /\ (a.ok => Unmapped(a) /\ a.convBuf = 0)
  BY <1>2, CheckBufferChangeOkKeeps DEF Keeps
<1> HIDE DEF a
<1>4. Keeps(w, a)
  BY <1>2, <1>3, KeepsTransitive
<1>5. /\ d \in World /\ d.on = d.dOn
      /\ d.convBuf = a.convBuf /\ d.gen = a.gen /\ d.open = a.open
      /\ \A i \in Frames : d.ptr[i] # "none" => a.ptr[i] # "none"
      /\ d.dDone \subseteq d.dQ /\ d.dQ \subseteq Upto(d.dN)
      /\ d.ok => d.dN = Grant(n)
      /\ ~d.ok => d = [a EXCEPT !.ok = FALSE]
  BY <1>4, DriverReqbufsFacts DEF Keeps
<1> HIDE DEF d
<1>6. CASE a.ok /\ d.ok
  <2>1. v \in World
    <3>1. (d.dN > 0) \in BOOLEAN /\ d.dN \in 0..MaxFrames
      BY <1>5 DEF World
    <3> QED BY <1>5, <3>1 DEF World
  <2>2. /\ v.on = d.on /\ v.dOn = d.dOn /\ v.noFrames = Grant(n) /\ v.dN = Grant(n)
        /\ d.dN = Grant(n) /\ v.byRead = FALSE /\ v.convBuf = 0 /\ v.gen = a.gen
        /\ v.open = a.open /\ v.ptr = d.ptr /\ v.dDone = d.dDone /\ v.dQ = d.dQ
    BY <1>3, <1>5, <1>6 DEF World
  <2> HIDE DEF v
  <2>3. Unmapped(v)
    BY <1>3, <1>5, <1>6, <2>2 DEF Unmapped
  <2>4. Sound(v)
    BY <1>5, <2>2, <2>3, GrantFacts DEF Sound, Unmapped
  <2>5. Keeps(a, v)
    BY <1>3, <1>6, <2>1, <2>2, <2>4 DEF Keeps, World
  <2> QED BY <1>1, <1>4, <1>6, <2>5, KeepsTransitive
<1>7. CASE a.ok /\ ~d.ok
  <2>1. Keeps(a, d)
    BY <1>4, <1>5, <1>7, KeepsOk DEF Keeps
  <2> QED BY <1>1, <1>4, <1>7, <2>1, KeepsTransitive
<1> QED BY <1>1, <1>4, <1>6, <1>7

-----------------------------------------------------------------------------
(* The steps.                                                               *)

\* A thread that does not move still fits the device another one leaves.
LEMMA FitsKept ==
  ASSUME NEW v \in World, NEW w, Keeps(v, w), NEW x \in ThreadState, Fits(x, v)
  PROVE  Fits(x, Ok(w))
<1> DEFINE o == Ok(w)
<1>1. o.gen = w.gen /\ o.convBuf = w.convBuf
  BY DEF Keeps, Ok, World
<1>2. /\ x.buf \in Int /\ x.gen \in Int
      /\ v.gen \in Int /\ w.gen \in Int /\ v.convBuf \in Int /\ w.convBuf \in Int
      /\ v.gen < w.gen \/ (v.gen = w.gen /\ v.convBuf <= w.convBuf)
  BY DEF ThreadState, Frames, World, Keeps
<1> HIDE DEF o
<1>3. x.gen <= o.gen
  BY <1>1, <1>2 DEF Fits
<1>4. HasDestination(x, o)
  BY <1>1, <1>2 DEF Fits, HasDestination
<1> QED BY <1>3, <1>4 DEF Fits, o

\* A thread that leaves the library or never entered it fits every device.
LEMMA IdleFits ==
  /\ Idle \in ThreadState
  /\ \A w \in World : Fits(Idle, w)
<1>1. 0 \in Frames /\ 0 \in 0..MaxTries
  BY DEF Frames, MaxTries
<1> QED BY <1>1 DEF Idle, ThreadState, Fits, HasDestination, HasTries, World

\* A step that leaves w of the open device and moves one thread to x.
LEMMA ThreadStep ==
  ASSUME IInv, dev.open, NEW w, Keeps(dev, w), dev' = Ok(w),
         NEW t \in Threads, NEW x \in ThreadState,
         thr' = [thr EXCEPT ![t] = x], Fits(x, Ok(w))
  PROVE  IInv'
<1>1. dev \in World /\ thr \in [Threads -> ThreadState]
  BY DEF IInv, TypeOK
<1>2. /\ dev' \in World /\ dev'.ok = TRUE /\ dev'.open /\ Sound(dev')
  <2>1. w \in World /\ Sound(w) /\ w.open
    BY DEF Keeps
  <2>2. Keeps(w, dev') /\ dev'.ok = TRUE
    BY <2>1, OkKeeps
  <2> QED BY <2>1, <2>2 DEF Keeps
<1>3. thr' \in [Threads -> ThreadState]
  BY <1>1
<1>4. \A s \in Threads : Fits(thr'[s], dev')
  <2> TAKE s \in Threads
  <2>1. CASE s = t
    BY <1>1, <2>1
  <2>2. CASE s # t
    <3>1. thr'[s] = thr[s] /\ thr[s] \in ThreadState /\ Fits(thr[s], dev)
      BY <1>1, <2>2 DEF IInv
    <3> QED BY <1>1, <3>1, FitsKept
  <2> QED BY <2>1, <2>2
<1> QED BY <1>2, <1>3, <1>4 DEF IInv, TypeOK

\* A call that returns without having blocked.
LEMMA AtomicStep ==
  ASSUME IInv, dev.open, NEW w, Keeps(dev, w), dev' = Ok(w), UNCHANGED thr
  PROVE  IInv'
<1>1. Keeps(w, dev') /\ dev'.ok = TRUE
  <2>1. w \in World /\ Sound(w)
    BY DEF Keeps
  <2> QED BY <2>1, OkKeeps
<1>2. dev' \in World /\ dev'.open /\ Sound(dev')
  BY <1>1 DEF Keeps
<1>3. \A s \in Threads : Fits(thr'[s], dev')
  BY FitsKept DEF IInv, TypeOK
<1> QED BY <1>1, <1>2, <1>3 DEF IInv, TypeOK

\* Between two calls no error is pending.
LEMMA OkIsSelf == \A w \in World : w.ok => w = Ok(w)
  BY DEF Ok, World

\* What v4l2_fd_open() leaves in the slot.
LEMMA OpenedSound ==
  ASSUME NEW c \in BOOLEAN, NEW g \in Nat
  PROVE  LET w == Opened(c, g)
         IN w \in World /\ Sound(w) /\ w.open /\ w.ok /\ w.gen = g
<1>1. /\ 0 \in 0..MaxFrames /\ 0 \in 0..IgnoreFirst /\ IgnoreFirst \in 0..IgnoreFirst
      /\ CanStream \in BOOLEAN
  OBVIOUS
<1> QED BY <1>1 DEF Opened, World, Sound, Frames

\* IInv holds of a device that was just opened.
THEOREM InitIInv == Init => IInv
<1> SUFFICES ASSUME Init PROVE IInv
  OBVIOUS
<1> PICK c \in BOOLEAN : dev = Opened(c, 0)
  BY DEF Init
<1>1. dev \in World /\ Sound(dev) /\ dev.open /\ dev.ok
  BY OpenedSound
<1>2. thr = [t \in Threads |-> Idle]
  BY DEF Init
<1> QED BY <1>1, <1>2, IdleFits DEF IInv, TypeOK

\* The calls that return without having blocked, one step each.
LEMMA AtomicCalls ==
  ASSUME IInv, NEW t \in Threads,
         \/ Qbuf(t) \/ Querybuf(t) \/ Streamon(t) \/ Streamoff(t) \/ Reqbufs(t)
         \/ SetFmt(t) \/ GetFmt(t) \/ SetParm(t) \/ SetInput(t)
  PROVE  IInv'
<1>1. dev \in World /\ (dev.open => Sound(dev))
  BY DEF IInv, TypeOK
<1>2. \A call, w : Atomic(t, call, w) /\ (dev.open => Keeps(dev, w)) => IInv'
  BY AtomicStep DEF Atomic, Enter, Leave
<1>3. \A F : dev.open => LET x == Touch(dev, F) IN x \in World /\ Sound(x) /\ Keeps(dev, x)
  BY <1>1, TouchKeeps DEF Keeps
<1>4. CASE Qbuf(t)
  BY <1>1, <1>2, <1>4, QbufCallKeeps DEF Qbuf
<1>5. CASE Querybuf(t)
  BY <1>1, <1>2, <1>5, TakeBackKeeps DEF Querybuf
<1>6. CASE Streamon(t)
  BY <1>1, <1>2, <1>6, StreamCallsKeep DEF Streamon
<1>7. CASE Streamoff(t)
  BY <1>1, <1>2, <1>7, StreamCallsKeep DEF Streamoff
<1>8. CASE Reqbufs(t)
  BY <1>1, <1>2, <1>8, ReqbufsCallKeeps DEF Reqbufs
<1>9. CASE GetFmt(t)
  BY <1>1, <1>2, <1>9, TouchKeeps DEF GetFmt
<1>10. CASE SetFmt(t)
  <2>1. PICK c \in BOOLEAN, F \in Faults : Atomic(t, "S_FMT", SFmt(Touch(dev, F), c, F))
    BY <1>10 DEF SetFmt
  <2>2. dev.open => Keeps(Touch(dev, F), SFmt(Touch(dev, F), c, F))
    BY <1>3, SFmtKeeps
  <2> QED BY <1>1, <1>2, <1>3, <2>1, <2>2, KeepsTransitive
<1>11. CASE SetParm(t)
  <2>1. PICK c \in BOOLEAN, F \in Faults :
          Atomic(t, "S_PARM", AdjustSrcFmtToFps(Touch(dev, F), c, F))
    BY <1>11 DEF SetParm
  <2>2. dev.open => Keeps(Touch(dev, F), AdjustSrcFmtToFps(Touch(dev, F), c, F))
    BY <1>3, AdjustSrcFmtToFpsKeeps
  <2> QED BY <1>1, <1>2, <1>3, <2>1, <2>2, KeepsTransitive
<1>12. CASE SetInput(t)
  <2>1. PICK x \in BOOLEAN, c \in BOOLEAN, F \in Faults :
          Atomic(t, "S_INPUT", SInput(Touch(dev, F), x, c, F))
    BY <1>12 DEF SetInput
  <2>2. dev.open => Keeps(Touch(dev, F), SInput(Touch(dev, F), x, c, F))
    BY <1>3, SInputKeeps
  <2> QED BY <1>1, <1>2, <1>3, <2>1, <2>2, KeepsTransitive
<1> QED BY <1>4, <1>5, <1>6, <1>7, <1>8, <1>9, <1>10, <1>11, <1>12

\* v4l2_mmap() and v4l2_munmap(), of converted frames and of the driver's own.
LEMMA MappingCalls ==
  ASSUME IInv, NEW t \in Threads,
         Mmap(t) \/ MmapRaw(t) \/ Munmap(t) \/ MunmapRaw(t)
  PROVE  IInv'
<1>1. dev \in World /\ dev.open /\ Sound(dev) /\ dev.ok
  BY DEF IInv, TypeOK, Mmap, MmapRaw, Munmap, MunmapRaw, Atomic, Enter
<1>2. \A call, w : Atomic(t, call, w) /\ Keeps(dev, w) => IInv'
  BY AtomicStep DEF Atomic, Enter, Leave
<1>3. ASSUME NEW w \in World, Sound(w), NEW f \in [Frames -> Nat]
      PROVE  Keeps(w, [w EXCEPT !.mapCount = f])
  BY <1>3 DEF Keeps, World, Sound
<1>4. ASSUME NEW S \in SUBSET Frames, dev' = [dev EXCEPT !.dMap = S], UNCHANGED thr
      PROVE  IInv'
  <2> DEFINE v == [dev EXCEPT !.dMap = S]
  <2>1. v \in World /\ v.gen = dev.gen /\ v.open = dev.open /\ v.convBuf = dev.convBuf
        /\ v.ok = TRUE /\ Sound(v)
    BY <1>1 DEF World, Sound
  <2>2. dev' = v
    BY <1>4
  <2> HIDE DEF v
  <2>3. Keeps(dev, v) /\ dev' = Ok(v)
    BY <1>1, <2>1, <2>2, OkIsSelf DEF Keeps, World
  <2> QED BY <1>1, <1>4, <2>3, AtomicStep
<1>5. CASE Mmap(t)
  <2>1. PICK i \in Frames, F \in Faults :
          LET a == EnsureConvertMmapBuf(dev, F)
          IN Atomic(t, "mmap", IF a.ok THEN [a EXCEPT !.mapCount[i] = @ + 1] ELSE a)
    BY <1>5 DEF Mmap
  <2> DEFINE a == EnsureConvertMmapBuf(dev, F)
             m == [a.mapCount EXCEPT ![i] = @ + 1]
  <2>2. Keeps(dev, a)
    BY <1>1, EnsureConvertMmapBufKeeps
  <2>3. Atomic(t, "mmap", IF a.ok THEN [a EXCEPT !.mapCount = m] ELSE a)
    BY <2>1
  <2> HIDE DEF a
  <2>4. m \in [Frames -> Nat]
    BY <2>2 DEF Keeps, World
  <2> HIDE DEF m
  <2>5. Keeps(a, [a EXCEPT !.mapCount = m])
    BY <1>3, <2>2, <2>4 DEF Keeps
  <2>6. Keeps(dev, [a EXCEPT !.mapCount = m])
    BY <1>1, <2>2, <2>5, KeepsTransitive
  <2> QED BY <1>2, <2>2, <2>3, <2>6
<1>6. CASE Munmap(t)
  <2>1. PICK i \in Frames :
          /\ dev.mapCount[i] > 0
          /\ Atomic(t, "munmap", IF i < dev.noFrames
                                 THEN [dev EXCEPT !.mapCount[i] = @ - 1] ELSE dev)
    BY <1>6 DEF Munmap
  <2> DEFINE m == [dev.mapCount EXCEPT ![i] = @ - 1]
  <2>2. Atomic(t, "munmap", IF i < dev.noFrames
                            THEN [dev EXCEPT !.mapCount = m] ELSE dev)
    BY <2>1
  <2>3. m \in [Frames -> Nat]
    BY <1>1, <2>1 DEF World
  <2> HIDE DEF m
  <2>4. Keeps(dev, [dev EXCEPT !.mapCount = m])
    BY <1>1, <1>3, <2>3
  <2> QED BY <1>1, <1>2, <2>2, <2>4, KeepsSelf
<1>7. CASE MmapRaw(t)
  <2>1. PICK i \in Frames : dev' = [dev EXCEPT !.dMap = @ \cup {i}] /\ UNCHANGED thr
    BY <1>7 DEF MmapRaw
  <2>2. dev.dMap \cup {i} \in SUBSET Frames
    BY <1>1 DEF World
  <2> QED BY <1>4, <2>1, <2>2
<1>8. CASE MunmapRaw(t)
  <2>1. PICK i \in dev.dMap : dev' = [dev EXCEPT !.dMap = @ \ {i}] /\ UNCHANGED thr
    BY <1>8 DEF MunmapRaw
  <2>2. dev.dMap \ {i} \in SUBSET Frames
    BY <1>1 DEF World
  <2> QED BY <1>4, <2>1, <2>2
<1> QED BY <1>5, <1>6, <1>7, <1>8

\* The driver's own steps.
LEMMA DriverSteps ==
  ASSUME IInv,
         DriverFills \/ \E t \in Threads : KernelDequeues(t) \/ DqbufFails(t)
  PROVE  IInv'
<1>1. dev \in World /\ dev.ok /\ (dev.open => Sound(dev))
  BY DEF IInv, TypeOK
<1>2. ASSUME NEW q \in SUBSET Frames, NEW f \in SUBSET Frames, dev.open,
             f \subseteq q, q \subseteq dev.dQ
      PROVE  LET v == [dev EXCEPT !.dQ = q, !.dDone = f]
             IN Keeps(dev, v) /\ v = Ok(v) /\ v.convBuf = dev.convBuf
  <2> DEFINE v == [dev EXCEPT !.dQ = q, !.dDone = f]
  <2>1. v \in World /\ v.gen = dev.gen /\ v.open = dev.open /\ v.convBuf = dev.convBuf
        /\ v.ok = TRUE
    BY <1>1 DEF World
  <2>2. Sound(v)
    BY <1>1, <1>2 DEF World, Sound
  <2> HIDE DEF v
  <2>3. Keeps(dev, v)
    BY <1>1, <2>1, <2>2 DEF Keeps, World
  <2>4. v = Ok(v)
    BY <2>1, OkIsSelf
  <2> QED BY <2>1, <2>3, <2>4 DEF v
<1>3. CASE DriverFills
  <2>1. PICK i \in dev.dQ : dev' = [dev EXCEPT !.dDone = @ \cup {i}] /\ UNCHANGED thr
    BY <1>3 DEF DriverFills
  <2>2. CASE dev.open
    <3> DEFINE v == [dev EXCEPT !.dQ = dev.dQ, !.dDone = dev.dDone \cup {i}]
    <3>1. dev.dDone \cup {i} \subseteq dev.dQ /\ dev.dQ \in SUBSET Frames
          /\ dev.dDone \cup {i} \in SUBSET Frames
      BY <1>1, <2>1, <2>2 DEF World, Sound
    <3>2. Keeps(dev, v) /\ v = Ok(v)
      BY <1>2, <2>2, <3>1
    <3>3. dev' = v
      BY <1>1, <2>1 DEF World
    <3> HIDE DEF v
    <3> QED BY <2>1, <2>2, <3>2, <3>3, AtomicStep
  <2>3. CASE ~dev.open
    BY <1>1, <2>1, <2>3 DEF IInv, TypeOK, World, Fits, HasDestination
  <2> QED BY <2>2, <2>3
<1>4. ASSUME NEW t \in Threads, KernelDequeues(t) PROVE IInv'
  <2>1. PICK i \in dev.dDone :
          /\ dev' = [dev EXCEPT !.dQ = @ \ {i}, !.dDone = @ \ {i}]
          /\ thr' = [thr EXCEPT ![t].pc = "got", ![t].buf = i]
          /\ thr[t].pc = "dq"
    BY <1>4 DEF KernelDequeues
  <2> DEFINE v == [dev EXCEPT !.dQ = dev.dQ \ {i}, !.dDone = dev.dDone \ {i}]
             x == [thr[t] EXCEPT !.pc = "got", !.buf = i]
  <2>2. dev.open /\ Sound(dev) /\ thr[t] \in ThreadState /\ Fits(thr[t], dev)
    BY <1>1, <2>1 DEF IInv, TypeOK, Idle
  <2>3. dev.dDone \ {i} \subseteq dev.dQ \ {i} /\ dev.dQ \ {i} \subseteq dev.dQ
        /\ dev.dQ \ {i} \in SUBSET Frames /\ dev.dDone \ {i} \in SUBSET Frames
    BY <1>1, <2>2 DEF World, Sound
  <2>4. Keeps(dev, v) /\ v = Ok(v) /\ v.convBuf = dev.convBuf
    BY <1>2, <2>2, <2>3
  <2>5. i \in Frames /\ i < dev.noFrames
    BY <1>1, <2>2 DEF Sound, World, Upto
  <2>6. x \in ThreadState /\ thr' = [thr EXCEPT ![t] = x]
    BY <2>1, <2>2, <2>5 DEF IInv, TypeOK, ThreadState
  <2>7. x.pc = "got" /\ x.buf = i /\ x.kind = thr[t].kind /\ x.gen = thr[t].gen
        /\ x.tries = thr[t].tries
    BY <2>2 DEF ThreadState
  <2>8. thr[t].kind = "ioctl" /\ thr[t].gen = dev.gen => i < dev.convBuf
    BY <1>1, <2>1, <2>2, <2>5 DEF Fits, HasDestination, Sound, World, Frames
  <2>9. dev' = v
    BY <2>1
  <2>10. v.gen = dev.gen
    BY <1>1 DEF World
  <2> HIDE DEF v, x
  <2>11. Fits(x, v)
    BY <2>1, <2>2, <2>4, <2>7, <2>8, <2>10 DEF Fits, HasDestination, HasTries
  <2> QED BY <2>2, <2>4, <2>6, <2>9, <2>11, ThreadStep
<1>5. ASSUME NEW t \in Threads, DqbufFails(t) PROVE IInv'
  <2>1. dev.open /\ thr' = [thr EXCEPT ![t] = Idle] /\ dev' = dev
    BY <1>5 DEF DqbufFails, IInv, Idle
  <2>2. Keeps(dev, dev) /\ dev' = Ok(dev)
    BY <1>1, <2>1, KeepsSelf, OkIsSelf
  <2> QED BY <1>1, <2>1, <2>2, IdleFits, ThreadStep
<1> QED BY <1>3, <1>4, <1>5

\* A call that goes on to wait in DQBUF with the lock released.
LEMMA UnlockStep ==
  ASSUME IInv, dev.open, NEW w, Keeps(dev, w), NEW t \in Threads,
         NEW kind \in {"none", "read", "ioctl", "raw"}, NEW tries \in 0..MaxTries,
         kind # "raw" => tries > 0,
         kind = "ioctl" => w.convBuf > 0,
         Unlock(t, kind, tries, w)
  PROVE  IInv'
<1> DEFINE x == In("dq", kind, w.gen, tries)
<1>1. dev' = Ok(w) /\ thr' = [thr EXCEPT ![t] = x]
  BY DEF Unlock, Leave
<1>2. 0 \in Frames
  BY DEF Frames
<1>3. x \in ThreadState
  BY <1>2 DEF In, ThreadState, Keeps, World
<1>4. Ok(w).gen = w.gen /\ Ok(w).convBuf = w.convBuf /\ w.gen \in Nat
  BY DEF Ok, Keeps, World
<1>5. /\ x.pc = "dq" /\ x.kind = kind /\ x.gen = w.gen /\ x.tries = tries
  BY DEF In
<1> HIDE DEF x
<1>6. Fits(x, Ok(w))
  BY <1>4, <1>5 DEF Fits, HasDestination, HasTries
<1> QED BY <1>1, <1>3, <1>6, ThreadStep

\* v4l2_read().
LEMMA ReadStep ==
  ASSUME IInv, NEW t \in Threads, NEW F, Read(t, F)
  PROVE  IInv'
<1> DEFINE a == IF dev.ctl \/ dev.useRead THEN dev ELSE ActivateReadStream(dev, F)
           b == IF a.ok THEN a
                ELSE [a EXCEPT !.useRead = TRUE, !.firstFrame = IgnoreFirst]
           m == MapBuffers(b, F)
<1>1. /\ dev.open
      /\ \/ thr' = [thr EXCEPT ![t] = In("kread", "pass", 0, 0)] /\ UNCHANGED dev
         \/ Leave(b) /\ thr' = [thr EXCEPT ![t] = In("kread", "read", 0, MaxTries)]
         \/ Unlock(t, "read", MaxTries, m)
         \/ Leave(m) /\ UNCHANGED thr
  BY DEF Read, Enter
<1>2. dev \in World /\ Sound(dev) /\ dev.ok
  BY <1>1 DEF IInv, TypeOK
<1>3. Keeps(dev, a)
  BY <1>2, KeepsSelf, ActivateReadStreamKeeps
<1> HIDE DEF a
<1>4. Keeps(a, b)
  <2> DEFINE v == [a EXCEPT !.useRead = TRUE, !.firstFrame = IgnoreFirst]
  <2>1. IgnoreFirst \in 0..IgnoreFirst
    OBVIOUS
  <2>2. v \in World /\ Sound(v) /\ v.open = a.open /\ v.gen = a.gen
        /\ v.convBuf = a.convBuf
    BY <1>3, <2>1 DEF Keeps, World, Sound
  <2> HIDE DEF v
  <2>3. Keeps(a, v)
    BY <1>3, <2>2 DEF Keeps, World
  <2>4. Keeps(a, a)
    BY <1>3, KeepsSelf DEF Keeps
  <2> QED BY <2>3, <2>4 DEF v
<1>5. Keeps(dev, b)
  BY <1>2, <1>3, <1>4, KeepsTransitive
<1> HIDE DEF b
<1>6. Keeps(b, m)
  BY <1>5, MapBuffersKeeps DEF Keeps
<1> HIDE DEF m
<1>7. Keeps(dev, m)
  BY <1>2, <1>5, <1>6, KeepsTransitive
<1>8. 0 \in Frames /\ 0 \in 0..MaxTries /\ MaxTries \in 0..MaxTries /\ MaxTries > 0
  BY DEF Frames, MaxTries
<1>9. ASSUME NEW x, x \in {In("kread", "pass", 0, 0), In("kread", "read", 0, MaxTries)},
             NEW w \in World
      PROVE  x \in ThreadState /\ Fits(x, w)
  BY <1>8, <1>9 DEF In, ThreadState, Fits, HasDestination, HasTries, World
<1>10. CASE thr' = [thr EXCEPT ![t] = In("kread", "pass", 0, 0)] /\ UNCHANGED dev
  <2>1. Keeps(dev, dev) /\ dev' = Ok(dev)
    BY <1>2, <1>10, KeepsSelf, OkIsSelf
  <2> QED BY <1>1, <1>2, <1>9, <1>10, <2>1, ThreadStep
<1>11. CASE Leave(b) /\ thr' = [thr EXCEPT ![t] = In("kread", "read", 0, MaxTries)]
  <2>1. Ok(b) \in World
    BY <1>5, KeepsOk DEF Keeps, Ok
  <2> QED BY <1>1, <1>5, <1>9, <1>11, <2>1, ThreadStep DEF Leave
<1>12. CASE Unlock(t, "read", MaxTries, m)
  BY <1>1, <1>7, <1>8, <1>12, UnlockStep
<1>13. CASE Leave(m) /\ UNCHANGED thr
  BY <1>1, <1>7, <1>13, AtomicStep DEF Leave
<1> QED BY <1>1, <1>10, <1>11, <1>12, <1>13

\* VIDIOC_DQBUF until the lock is released.
LEMMA DqbufStep ==
  ASSUME IInv, NEW t \in Threads, NEW F, Dqbuf(t, F)
  PROVE  IInv'
<1> DEFINE a == TakeBack(dev, F)
           b == EnsureConvertMmapBuf(a, F)
           m == MapBuffers(b, F)
           w == IF ~a.ok THEN a ELSE IF ~b.ok THEN b ELSE m
<1>1. /\ dev.open
      /\ \/ Unlock(t, "raw", 0, a)
         \/ a.ok /\ w.ok /\ Unlock(t, "ioctl", MaxTries, w)
         \/ Leave(w) /\ UNCHANGED thr
  BY DEF Dqbuf, Enter
<1>2. dev \in World /\ Sound(dev)
  BY <1>1 DEF IInv, TypeOK
<1>3. Keeps(dev, a)
  BY <1>2, TakeBackKeeps
<1> HIDE DEF a
<1>4. Keeps(a, b) /\ (b.ok => b.convBuf > 0)
  BY <1>3, EnsureConvertMmapBufKeeps DEF Keeps
<1>5. Keeps(dev, b)
  BY <1>2, <1>3, <1>4, KeepsTransitive
<1> HIDE DEF b
<1>6. Keeps(b, m) /\ m.convBuf = b.convBuf
  BY <1>5, MapBuffersKeeps DEF Keeps
<1>7. Keeps(dev, m)
  BY <1>2, <1>5, <1>6, KeepsTransitive
<1> HIDE DEF m
<1>8. Keeps(dev, w) /\ (a.ok /\ w.ok => w.convBuf > 0)
  BY <1>3, <1>4, <1>5, <1>6, <1>7
<1> HIDE DEF w
<1>9. 0 \in 0..MaxTries /\ MaxTries \in 0..MaxTries /\ MaxTries > 0
  BY DEF MaxTries
<1>10. CASE Unlock(t, "raw", 0, a)
  BY <1>1, <1>3, <1>9, <1>10, UnlockStep
<1>11. CASE a.ok /\ w.ok /\ Unlock(t, "ioctl", MaxTries, w)
  BY <1>1, <1>8, <1>9, <1>11, UnlockStep
<1>12. CASE Leave(w) /\ UNCHANGED thr
  BY <1>1, <1>8, <1>12, AtomicStep DEF Leave
<1> QED BY <1>1, <1>10, <1>11, <1>12

\* v4l2_dequeue_and_convert() after it has the lock again.
LEMMA RelockStep ==
  ASSUME IInv, NEW t \in Threads, NEW outcome, NEW F,
         Relock(t, outcome, F) \/ RelockRaw(t)
  PROVE  IInv'
<1> DEFINE th == thr[t]
           i  == th.buf
           w  == [dev EXCEPT !.queued = @ \ {i}]
           c  == Counted(w)
           q  == GiveBack(c, i, th.tries = 1, Judged(w, outcome), F)
           qr == QueueReadBuffer(c, i, F)
           h  == [c EXCEPT !.held = @ \cup {i}]
           hr == [dev EXCEPT !.held = @ \cup {i}]
<1>1. /\ th.pc = "got"
      /\ \/ /\ Leave(w) \/ Leave(q) \/ Leave(qr) \/ Leave(h) \/ dev' = hr
            /\ thr' = [thr EXCEPT ![t] = Idle]
         \/ /\ th.kind # "raw" /\ th.gen = dev.gen /\ th.tries # 1
            /\ Unlock(t, th.kind, th.tries - 1, q)
  BY DEF Relock, RelockRaw
<1>2. dev \in World /\ dev.open /\ Sound(dev) /\ dev.ok /\ th \in ThreadState
      /\ Fits(th, dev)
  BY <1>1 DEF IInv, TypeOK, Idle
<1> HIDE DEF th
<1>3. i \in Frames
  BY <1>2 DEF ThreadState
<1>4. w \in World /\ Sound(w) /\ w.open /\ w.gen = dev.gen /\ w.convBuf = dev.convBuf
  BY <1>2 DEF World, Sound
<1> HIDE DEF w
<1>5. Keeps(dev, w)
  BY <1>2, <1>4 DEF Keeps, World
<1>6. Keeps(w, c) /\ c.gen = w.gen /\ c.convBuf = w.convBuf
  <2>1. (IF w.firstFrame > 0 THEN w.firstFrame - 1 ELSE 0) \in 0..IgnoreFirst
    BY <1>4 DEF World
  <2>2. c = [w EXCEPT !.firstFrame = IF w.firstFrame > 0 THEN w.firstFrame - 1 ELSE 0]
    BY DEF Counted
  <2> HIDE DEF c
  <2>3. c \in World /\ Sound(c) /\ c.open = w.open /\ c.gen = w.gen /\ c.convBuf = w.convBuf
    BY <1>4, <2>1, <2>2 DEF World, Sound
  <2> QED BY <1>4, <2>3 DEF Keeps, World
<1>7. Keeps(dev, c)
  BY <1>2, <1>5, <1>6, KeepsTransitive
<1> HIDE DEF c
<1>8. Keeps(c, qr) /\ qr.convBuf = c.convBuf /\ qr.gen = c.gen
  BY <1>3, <1>7, QueueReadBufferKeeps DEF Keeps
<1>9. q \in {c, qr}
  BY DEF GiveBack
<1> HIDE DEF q, qr
<1>10. Keeps(c, q) /\ q.convBuf = c.convBuf /\ q.gen = c.gen
  BY <1>7, <1>8, <1>9, KeepsSelf DEF Keeps
<1>11. Keeps(dev, q) /\ Keeps(dev, qr)
  BY <1>2, <1>7, <1>8, <1>10, KeepsTransitive
<1>12. Keeps(c, h)
  <2>1. c \in World /\ Sound(c) /\ c.held \cup {i} \in SUBSET Frames
    BY <1>3, <1>7 DEF Keeps, World
  <2> HIDE DEF i
  <2>2. h \in World /\ Sound(h) /\ h.open = c.open /\ h.gen = c.gen /\ h.convBuf = c.convBuf
    BY <2>1 DEF World, Sound
  <2> QED BY <2>1, <2>2 DEF Keeps, World
<1>13. Keeps(dev, h)
  BY <1>2, <1>7, <1>12, KeepsTransitive
<1>14. Keeps(dev, hr) /\ hr = Ok(hr)
  <2>1. dev.held \cup {i} \in SUBSET Frames
    BY <1>2, <1>3 DEF World
  <2> HIDE DEF i
  <2>2. hr \in World /\ Sound(hr) /\ hr.open = dev.open /\ hr.gen = dev.gen
        /\ hr.convBuf = dev.convBuf /\ hr.ok
    BY <1>2, <2>1 DEF World, Sound
  <2> HIDE DEF hr
  <2> QED BY <1>2, <2>2, OkIsSelf DEF Keeps, World
<1> HIDE DEF h, hr
<1>15. ASSUME NEW v, Keeps(dev, v), dev' = Ok(v), thr' = [thr EXCEPT ![t] = Idle]
       PROVE  IInv'
  <2>1. Ok(v) \in World
    BY <1>15, KeepsOk DEF Keeps, Ok
  <2> QED BY <1>2, <1>15, <2>1, IdleFits, ThreadStep
<1>16. CASE /\ Leave(w) \/ Leave(q) \/ Leave(qr) \/ Leave(h) \/ dev' = hr
            /\ thr' = [thr EXCEPT ![t] = Idle]
  BY <1>5, <1>11, <1>13, <1>14, <1>15, <1>16 DEF Leave
<1>17. CASE /\ th.kind # "raw" /\ th.gen = dev.gen /\ th.tries # 1
            /\ Unlock(t, th.kind, th.tries - 1, q)
  <2>1. th.kind \in {"none", "read", "ioctl"} /\ th.tries > 1
    BY <1>1, <1>2, <1>17 DEF Fits, HasTries, ThreadState, MaxTries
  <2>2. th.tries - 1 \in 0..MaxTries /\ th.tries - 1 > 0
    BY <1>2, <2>1 DEF ThreadState, MaxTries
  <2>3. th.kind = "ioctl" => q.convBuf > 0
    BY <1>1, <1>2, <1>3, <1>4, <1>6, <1>10, <1>17 DEF Fits, HasDestination, Frames, World
  <2> QED BY <1>2, <1>11, <1>17, <2>1, <2>2, <2>3, UnlockStep
<1> QED BY <1>1, <1>16, <1>17

\* The driver's read() returns.
LEMMA KernelReadsStep ==
  ASSUME IInv, NEW t \in Threads, NEW outcome, KernelReads(t, outcome)
  PROVE  IInv'
<1> DEFINE th == thr[t]
           x  == [th EXCEPT !.tries = @ - 1]
           f  == [dev EXCEPT !.dFio = TRUE]
           n  == IF dev.firstFrame > 0 THEN dev.firstFrame - 1 ELSE 0
           c  == [dev EXCEPT !.firstFrame = n, !.dFio = TRUE]
<1>1. /\ th.pc = "kread"
      /\ \/ thr' = [thr EXCEPT ![t] = Idle] /\ dev' \in {dev, f, c}
         \/ /\ th.kind # "pass" /\ th.tries # 1
            /\ thr' = [thr EXCEPT ![t] = x] /\ dev' = c
  BY DEF KernelReads, Counted
<1>2. dev \in World /\ dev.open /\ Sound(dev) /\ dev.ok /\ th \in ThreadState
      /\ Fits(th, dev)
  BY <1>1 DEF IInv, TypeOK, Idle
<1>3. n \in 0..IgnoreFirst
  BY <1>2 DEF World
<1>4. Keeps(dev, f) /\ f = Ok(f)
  <2>1. f \in World /\ Sound(f) /\ f.open /\ f.gen = dev.gen /\ f.convBuf = dev.convBuf
        /\ f.ok
    BY <1>2 DEF World, Sound
  <2> HIDE DEF f
  <2> QED BY <1>2, <2>1, OkIsSelf DEF Keeps, World
<1> HIDE DEF n
<1>5. Keeps(dev, c) /\ c = Ok(c) /\ c.gen = dev.gen /\ c.convBuf = dev.convBuf
  <2>1. c \in World /\ Sound(c) /\ c.open /\ c.gen = dev.gen /\ c.convBuf = dev.convBuf
        /\ c.ok
    BY <1>2, <1>3 DEF World, Sound
  <2> HIDE DEF c
  <2> QED BY <1>2, <2>1, OkIsSelf DEF Keeps, World
<1>6. Keeps(dev, dev) /\ dev = Ok(dev)
  BY <1>2, KeepsSelf, OkIsSelf
<1> HIDE DEF f, c
<1>7. CASE thr' = [thr EXCEPT ![t] = Idle] /\ dev' \in {dev, f, c}
  <2>1. dev' \in World
    BY <1>4, <1>5, <1>6, <1>7 DEF Keeps
  <2>2. Keeps(dev, dev') /\ dev' = Ok(dev')
    BY <1>4, <1>5, <1>6, <1>7
  <2> QED BY <1>2, <1>7, <2>1, <2>2, IdleFits, ThreadStep
<1>8. CASE /\ th.kind # "pass" /\ th.tries # 1
           /\ thr' = [thr EXCEPT ![t] = x] /\ dev' = c
  <2>1. th.kind # "raw" /\ th.tries > 1
    BY <1>1, <1>2, <1>8 DEF Fits, HasTries, ThreadState, MaxTries
  <2>2. th.tries - 1 \in 0..MaxTries /\ th.tries - 1 > 0
    BY <1>2, <2>1 DEF ThreadState, MaxTries
  <2>3. /\ x \in ThreadState /\ x.pc = "kread" /\ x.kind = th.kind
        /\ x.gen = th.gen /\ x.tries = th.tries - 1
    BY <1>1, <1>2, <2>2 DEF ThreadState
  <2> HIDE DEF x
  <2>4. Fits(x, c)
    BY <1>2, <1>5, <2>1, <2>2, <2>3 DEF Fits, HasDestination, HasTries
  <2> QED BY <1>2, <1>5, <1>8, <2>3, <2>4, ThreadStep
<1> QED BY <1>1, <1>7, <1>8

\* The last v4l2_close(): all that was mapped is unmapped.
LEMMA CloseStep ==
  ASSUME IInv, NEW t \in Threads, Close(t)
  PROVE  IInv'
<1> DEFINE u == UnmapBuffers(dev)
           v == [u EXCEPT
                   !.open = FALSE, !.convBuf = 0, !.dN = 0, !.dQ = {}, !.dDone = {},
                   !.dOn = FALSE, !.dFio = FALSE, !.dMap = {}, !.held = {}]
<1>1. /\ dev.open /\ dev' = Ok(v) /\ thr' = thr
      /\ \A s \in Threads : thr[s] = Idle
  BY DEF Close, Atomic, Enter, Leave
<1>2. u \in World /\ Unmapped(u)
  BY <1>1, UnmapKeeps DEF IInv, TypeOK, Keeps
<1> HIDE DEF u
<1>3. 0 \in 0..MaxFrames /\ {} \in SUBSET Frames
  OBVIOUS
<1>4. v \in World /\ v.open = FALSE /\ Unmapped(v)
  BY <1>2, <1>3 DEF World, Unmapped
<1> HIDE DEF v
<1>5. Ok(v) \in World /\ Ok(v).ok = TRUE /\ Ok(v).open = FALSE /\ Unmapped(Ok(v))
  BY <1>4 DEF Ok, World, Unmapped
<1>6. \A s \in Threads : Fits(Idle, Ok(v))
  BY <1>5, IdleFits
<1> QED BY <1>1, <1>5, <1>6 DEF IInv, TypeOK, Unmapped

\* v4l2_fd_open() in the slot of a closed file.
LEMMA OpenStep ==
  ASSUME IInv, Open
  PROVE  IInv'
<1>1. PICK c \in BOOLEAN : dev' = Opened(c, dev.gen)
  BY DEF Open
<1>2. thr' = thr /\ dev.gen \in Nat /\ \A t \in Threads : thr[t] = Idle
  BY DEF Open, IInv, TypeOK, World
<1>3. dev' \in World /\ Sound(dev') /\ dev'.open /\ dev'.ok
  BY <1>1, <1>2, OpenedSound
<1> QED BY <1>2, <1>3, IdleFits DEF IInv, TypeOK

\* Every step of the library and of the driver keeps the inductive invariant.
THEOREM NextIInv == IInv /\ [Next]_vars => IInv'
<1> SUFFICES ASSUME IInv, [Next]_vars PROVE IInv'
  OBVIOUS
<1>1. ASSUME NEW t \in Threads, Call(t) PROVE IInv'
  <2>1. ASSUME NEW F \in Faults, Read(t, F) \/ Dqbuf(t, F) PROVE IInv'
    BY <2>1, ReadStep, DqbufStep
  <2>2. CASE Close(t)
    BY <2>2, CloseStep
  <2> QED BY <1>1, <2>1, <2>2, AtomicCalls, MappingCalls DEF Call
<1>2. ASSUME NEW t \in Threads, Kernel(t) PROVE IInv'
  BY <1>2, DriverSteps DEF Kernel
<1>3. ASSUME NEW t \in Threads, Resume(t) \/ RelockRaw(t) PROVE IInv'
  BY <1>3, RelockStep, KernelReadsStep DEF Resume
<1>4. CASE DriverFills
  BY <1>4, DriverSteps
<1>5. CASE Open
  BY <1>5, OpenStep
<1>6. CASE UNCHANGED vars
  BY <1>6 DEF vars, IInv, TypeOK
<1> QED BY <1>1, <1>2, <1>3, <1>4, <1>5, <1>6 DEF Next

\* IInv holds in every state the library can reach.
THEOREM IInvHolds == Spec => []IInv
<1> QED BY InitIInv, NextIInv, PTL DEF Spec

-----------------------------------------------------------------------------
(* What follows of it.                                                      *)

\* Every field keeps its type and no error stays pending between two calls:
\* no counter of devices[index] leaves its range.
THEOREM TypeCorrect == Spec => []TypeOK
<1>1. IInv => TypeOK
  BY DEF IInv
<1> QED BY <1>1, IInvHolds, PTL

\* The library's idea of the stream and of the number of buffers is the
\* driver's, whichever requests failed and whichever threads interfered.
THEOREM ViewCorrect == Spec => []ViewMatchesDriver
<1>1. IInv => ViewMatchesDriver
  BY DEF IInv, Sound, ViewMatchesDriver
<1> QED BY <1>1, IInvHolds, PTL

\* The frame a VIDIOC_DQBUF converts has its slot in convert_mmap_buf, however
\* many calls came between releasing the lock and taking it again.
THEOREM DestinationCorrect == Spec => []DestinationLive
<1>1. IInv => DestinationLive
  BY DEF IInv, Fits, HasDestination, DestinationLive, Converting
<1> QED BY <1>1, IInvHolds, PTL

\* The last v4l2_close() leaves no buffer of the driver mapped.
THEOREM ClosedUnmapped == Spec => []NothingMappedOnceClosed
<1>1. IInv => NothingMappedOnceClosed
  BY DEF IInv, NothingMappedOnceClosed
<1> QED BY <1>1, IInvHolds, PTL

-----------------------------------------------------------------------------
(* The mappings, and the threads that wait for a frame.                     *)

\* The ioctls that take the stream back from read(): they unmap its buffers
\* without a new generation, so an application that mixes them with read()
\* gets no promise.
StreamIoctls == {"DQBUF", "QBUF", "QUERYBUF", "STREAMON", "STREAMOFF"}
NoReads  == \A t \in Threads : "read" \notin Calls[t]
NoIoctls == \A t \in Threads : Calls[t] \cap StreamIoctls = {}
OneUse   == NoReads \/ NoIoctls

\* No pointer into an allocation that is gone.
Fresh(w) == \A i \in Frames : w.ptr[i] # "stale"

\* What the application mapped is a frame, and has its part of convert_mmap_buf.
Backed(w) ==
  \A i \in Frames :
    w.mapCount[i] > 0 => w.conv /\ ~w.byRead /\ i < w.convBuf /\ i < w.noFrames

\* The application has nothing mapped.
NoFakeMaps(w) == \A i \in Frames : w.mapCount[i] = 0

\* There is a stream a thread may be waiting on.
Used(w) == w.noFrames > 0 /\ (NoIoctls => w.ctl)

\* What every function keeps of the mappings, also on the way.
Loose(w) ==
  /\ OneUse \/ ~Orphans => Fresh(w)
  /\ NoReads => ~w.ctl /\ ~w.byRead /\ (w.convBuf > 0 => w.noFrames = w.convBuf)
  /\ NoIoctls /\ w.ctl => w.noFrames > 0
  /\ ~LaxInput => Backed(w)

\* Between two calls, moreover, read() alone has buffers mapped.
MapsForRead(w) == NoIoctls => w.ctl \/ w.useRead \/ Unmapped(w)

\* The device between two calls.
Steady(w) == w \in World /\ Sound(w) /\ Loose(w) /\ MapsForRead(w)

\* What a thread that waits since v finds in w, unless the generation tells it
\* that it need not look; meanwhile only the buffers in S were queued.
Spares(v, w, S) ==
  \/ v.gen < w.gen
  \/ /\ v.gen = w.gen
     /\ OneUse /\ Used(v) =>
          /\ Used(w)
          /\ w.noFrames = v.noFrames
          /\ \A i \in Frames : v.ptr[i] = "cur" => w.ptr[i] = "cur"
          /\ ~LaxInput => w.conv = v.conv
          /\ NoIoctls => w.dQ \subseteq v.dQ \cup S

\* w may be what a function of the library leaves of v.
Leaves(v, w) == Keeps(v, w) /\ Steady(w) /\ Spares(v, w, {})

\* Nothing differs but what no mapping depends on.
Same(v, w) ==
  /\ w.open = v.open /\ w.gen = v.gen /\ w.noFrames = v.noFrames
  /\ w.byRead = v.byRead /\ w.ctl = v.ctl /\ w.ptr = v.ptr /\ w.conv = v.conv
  /\ w.convBuf = v.convBuf /\ w.mapCount = v.mapCount
  /\ v.useRead => w.useRead

-----------------------------------------------------------------------------
(* How the relations compose.                                               *)

\* Functions of the library compose.
LEMMA SparesTransitive ==
  ASSUME NEW u \in World, NEW v \in World, NEW w \in World, NEW S,
         Spares(u, v, {}), Spares(v, w, S)
  PROVE  Spares(u, w, S)
<1>1. u.gen \in Int /\ v.gen \in Int /\ w.gen \in Int
  BY DEF World
<1> QED BY <1>1 DEF Spares

LEMMA LeavesTransitive ==
  ASSUME NEW u \in World, NEW v, NEW w, Leaves(u, v), Leaves(v, w)
  PROVE  Leaves(u, w)
<1>1. v \in World /\ w \in World
  BY DEF Leaves, Keeps
<1> QED BY <1>1, KeepsTransitive, SparesTransitive DEF Leaves

\* Fields on which no mapping depends may change freely.
LEMMA SameSpares ==
  ASSUME NEW v \in World, NEW w, Steady(v), Keeps(v, w), Same(v, w),
         NEW S, NoIoctls => w.dQ \subseteq v.dQ \cup S
  PROVE  Steady(w) /\ Spares(v, w, S)
<1>1. w \in World /\ Sound(w)
  BY DEF Keeps
<1>2. Loose(w)
  BY DEF Steady, Loose, Same, Fresh, Backed
<1>3. MapsForRead(w)
  BY DEF Steady, MapsForRead, Same, Unmapped
<1>4. Spares(v, w, S)
  BY DEF Same, Spares, Used
<1> QED BY <1>1, <1>2, <1>3, <1>4 DEF Steady

LEMMA SameLeaves ==
  ASSUME NEW v \in World, NEW w, Steady(v), Keeps(v, w), Same(v, w),
         NoIoctls => w.dQ \subseteq v.dQ
  PROVE  Leaves(v, w)
<1>1. NoIoctls => w.dQ \subseteq v.dQ \cup {}
  OBVIOUS
<1>2. Steady(w) /\ Spares(v, w, {})
  BY <1>1, SameSpares
<1> QED BY <1>2 DEF Leaves

\* The result is such a field.
LEMMA ResultLeaves ==
  ASSUME NEW w \in World, Steady(w)
  PROVE  Leaves(w, w) /\ Leaves(w, Ok(w)) /\ Leaves(w, Fail(w))
<1>1. Same(w, w) /\ Same(w, Ok(w)) /\ Same(w, Fail(w))
      /\ Ok(w).dQ = w.dQ /\ Fail(w).dQ = w.dQ
  BY DEF Same, Ok, Fail, World
<1>2. Keeps(w, w) /\ Keeps(w, Ok(w)) /\ Keeps(w, Fail(w))
  BY KeepsSelf, OkKeeps DEF Steady
<1> QED BY <1>1, <1>2, SameLeaves

\* A function that changed the generation owes nothing to those who wait.
LEMMA NewGenerationLeaves ==
  ASSUME NEW v \in World, NEW w, Keeps(v, w), v.gen < w.gen, Loose(w), MapsForRead(w)
  PROVE  Leaves(v, w)
  BY DEF Leaves, Steady, Spares, Keeps

-----------------------------------------------------------------------------
(* The functions that no mapping depends on.                                *)

\* v4l2_streamoff() and v4l2_streamon().
LEMMA StreamSame ==
  ASSUME NEW w \in World, NEW F
  PROVE  /\ Same(w, StreamOff(w, F)) /\ StreamOff(w, F).dQ \subseteq w.dQ
         /\ Same(w, StreamOn(w, F)) /\ StreamOn(w, F).dQ = w.dQ
  BY DEF Same, StreamOff, StreamOn, Ok, Fail, World

LEMMA StreamLeaves ==
  ASSUME NEW w \in World, NEW F, Steady(w)
  PROVE  Leaves(w, StreamOff(w, F)) /\ Leaves(w, StreamOn(w, F))
  BY StreamSame, SameLeaves, StreamOffKeeps, StreamOnKeeps DEF Steady

\* v4l2_queue_read_buffer() and v4l2_queue_read_buffers() change the queues.
LEMMA QueueingSame ==
  ASSUME NEW w \in World, NEW F
  PROVE  /\ \A i \in Frames : /\ Same(w, QueueReadBuffer(w, i, F))
                              /\ QueueReadBuffer(w, i, F).dQ \subseteq w.dQ \cup {i}
         /\ Same(w, QueueReadBuffers(w, F))
         /\ QueueReadBuffers(w, F).ok => w.noFrames > 0
<1>1. ASSUME NEW i \in Frames
      PROVE  /\ Same(w, QueueReadBuffer(w, i, F))
             /\ QueueReadBuffer(w, i, F).dQ \subseteq w.dQ \cup {i}
  BY DEF Same, QueueReadBuffer, Ok, Fail, World
<1> DEFINE mapped == {i \in Upto(w.noFrames) : w.ptr[i] # "none"}
           new    == {i \in mapped \ w.queued : QbufOk(w, i, F)}
           b      == new \cup (mapped \cap w.queued) # {}
           v      == [w EXCEPT !.ok = b, !.queued = w.queued \cup new,
                               !.dQ = w.dQ \cup new, !.held = w.held \ new]
<1>2. QueueReadBuffers(w, F) = v
  BY DEF QueueReadBuffers
<1>3. b => w.noFrames > 0
  BY DEF Upto, World
<1> HIDE DEF new, b
<1>4. Same(w, v) /\ v.ok = b
  BY DEF Same, World
<1> HIDE DEF v
<1> QED BY <1>1, <1>2, <1>3, <1>4

\* v4l2_ensure_convert_mmap_buf() makes room for all frames, so for those the
\* application mapped.
LEMMA EnsureConvertMmapBufLeaves ==
  ASSUME NEW w \in World, NEW F, Steady(w)
  PROVE  Leaves(w, EnsureConvertMmapBuf(w, F))
<1> DEFINE e == EnsureConvertMmapBuf(w, F)
           v == [w EXCEPT !.convBuf = w.noFrames, !.ok = TRUE]
<1>1. e \in {Ok(w), Fail(w)} \/ (w.convBuf = 0 /\ w.noFrames > 0 /\ e = v)
  BY DEF EnsureConvertMmapBuf, World, Ok, Fail
<1>2. /\ v.convBuf = w.noFrames /\ v.gen = w.gen /\ v.noFrames = w.noFrames
      /\ v.byRead = w.byRead /\ v.ctl = w.ctl /\ v.ptr = w.ptr /\ v.conv = w.conv
      /\ v.mapCount = w.mapCount /\ v.useRead = w.useRead /\ v.dQ = w.dQ
  BY DEF World
<1>3. Keeps(w, e)
  BY EnsureConvertMmapBufKeeps DEF Steady
<1> HIDE DEF e, v
<1>4. CASE e = v
  <2>1. Loose(e)
    BY <1>2, <1>4 DEF Steady, Loose, Fresh, Backed
  <2>2. MapsForRead(e)
    BY <1>2, <1>4 DEF Steady, MapsForRead, Unmapped
  <2>3. Spares(w, e, {})
    BY <1>2, <1>4 DEF Spares, Used
  <2> QED BY <1>3, <2>1, <2>2, <2>3 DEF Leaves, Steady, Keeps, e
<1>5. e \in {Ok(w), Fail(w)} => Leaves(w, e)
  BY ResultLeaves
<1> QED BY <1>1, <1>4, <1>5 DEF e

-----------------------------------------------------------------------------
(* The functions that map and unmap.                                        *)

\* What v4l2_map_buffers() changes: it adds mappings of the present buffers,
\* and where it succeeds every frame has one.
LEMMA MapBuffersFacts ==
  ASSUME NEW w \in World, NEW F, NEW v, v = MapBuffers(w, F)
  PROVE  /\ v.gen = w.gen /\ v.noFrames = w.noFrames /\ v.byRead = w.byRead
         /\ v.ctl = w.ctl /\ v.conv = w.conv /\ v.convBuf = w.convBuf
         /\ v.mapCount = w.mapCount /\ v.useRead = w.useRead /\ v.dQ = w.dQ
         /\ \A i \in Frames : v.ptr[i] = w.ptr[i] \/ (w.ptr[i] = "none" /\ v.ptr[i] = "cur")
         /\ v.ok => \A i \in Frames : i < w.noFrames => v.ptr[i] # "none"
<1> DEFINE need == {i \in Upto(w.noFrames) : w.ptr[i] = "none"}
           bad  == {i \in need : i >= w.dN \/ RefusedFor(F, "MAP", i)}
           done == {i \in need : \A j \in bad : i < j}
           ptr  == [i \in Frames |-> IF i \in done THEN "cur" ELSE w.ptr[i]]
<1>1. v = [w EXCEPT !.ptr = ptr, !.ok = (bad = {})]
  BY DEF MapBuffers
<1>2. \A i \in Frames : ptr[i] = w.ptr[i] \/ (w.ptr[i] = "none" /\ ptr[i] = "cur")
  OBVIOUS
<1>3. bad = {} => \A i \in Frames : i < w.noFrames => ptr[i] # "none"
  <2> SUFFICES ASSUME bad = {}, NEW i \in Frames, i < w.noFrames PROVE ptr[i] # "none"
    OBVIOUS
  <2>1. i \in Upto(w.noFrames)
    BY DEF Upto, Frames, World
  <2>2. w.ptr[i] = "none" => i \in done
    BY <2>1
  <2> QED BY <2>2
<1> HIDE DEF ptr, bad
<1>4. /\ v.gen = w.gen /\ v.noFrames = w.noFrames /\ v.byRead = w.byRead
      /\ v.ctl = w.ctl /\ v.conv = w.conv /\ v.convBuf = w.convBuf
      /\ v.mapCount = w.mapCount /\ v.useRead = w.useRead /\ v.dQ = w.dQ
      /\ v.ptr = ptr /\ v.ok = (bad = {})
  BY <1>1 DEF World
<1> QED BY <1>2, <1>3, <1>4

\* v4l2_map_buffers() disturbs nobody.
LEMMA MapBuffersLoose ==
  ASSUME NEW w \in World, NEW F, Loose(w)
  PROVE  Loose(MapBuffers(w, F))
<1> DEFINE v == MapBuffers(w, F)
<1>1. /\ v.noFrames = w.noFrames /\ v.byRead = w.byRead
      /\ v.ctl = w.ctl /\ v.conv = w.conv /\ v.convBuf = w.convBuf
      /\ v.mapCount = w.mapCount
      /\ \A i \in Frames : v.ptr[i] = w.ptr[i] \/ v.ptr[i] = "cur"
  BY MapBuffersFacts
<1> HIDE DEF v
<1>2. Fresh(w) => Fresh(v)
  BY <1>1 DEF Fresh
<1>3. Backed(w) => Backed(v)
  BY <1>1 DEF Backed
<1>4. Loose(v)
  BY <1>1, <1>2, <1>3 DEF Loose
<1> QED BY <1>4 DEF v

LEMMA MapBuffersLeaves ==
  ASSUME NEW w \in World, NEW F, Steady(w), NoIoctls => w.ctl \/ w.useRead
  PROVE  /\ Leaves(w, MapBuffers(w, F))
         /\ OneUse /\ MapBuffers(w, F).ok =>
              \A i \in Frames : i < MapBuffers(w, F).noFrames => MapBuffers(w, F).ptr[i] = "cur"
<1> DEFINE v == MapBuffers(w, F)
<1>1. /\ v.gen = w.gen /\ v.noFrames = w.noFrames
      /\ v.ctl = w.ctl /\ v.conv = w.conv /\ v.useRead = w.useRead /\ v.dQ = w.dQ
      /\ \A i \in Frames : v.ptr[i] = w.ptr[i] \/ (w.ptr[i] = "none" /\ v.ptr[i] = "cur")
      /\ v.ok => \A i \in Frames : i < w.noFrames => v.ptr[i] # "none"
  BY MapBuffersFacts
<1>2. Keeps(w, v)
  BY MapBuffersKeeps DEF Steady
<1>3. Loose(v)
  BY MapBuffersLoose DEF Steady
<1> HIDE DEF v
<1>4. MapsForRead(v)
  BY <1>1 DEF MapsForRead
<1>5. Spares(w, v, {})
  BY <1>1 DEF Spares, Used
<1>6. OneUse /\ v.ok => \A i \in Frames : i < v.noFrames => v.ptr[i] = "cur"
  BY <1>1, <1>2, <1>3 DEF Loose, Fresh, Keeps, World
<1> QED BY <1>2, <1>3, <1>4, <1>5, <1>6 DEF Leaves, Steady, Keeps, v

\* v4l2_unmap_buffers() leaves what it does not unmap.
LEMMA UnmapFacts ==
  ASSUME NEW w \in World, NEW v, v = UnmapBuffers(w)
  PROVE  /\ v.gen = w.gen /\ v.noFrames = w.noFrames /\ v.byRead = w.byRead
         /\ v.ctl = w.ctl /\ v.conv = w.conv /\ v.convBuf = w.convBuf
         /\ v.mapCount = w.mapCount /\ v.useRead = w.useRead /\ v.dN = w.dN
         /\ v.open = w.open
<1> DEFINE ptr == [i \in Frames |-> IF i < w.noFrames THEN "none" ELSE w.ptr[i]]
<1>1. v = [w EXCEPT !.ptr = ptr]
  BY DEF UnmapBuffers, World
<1> HIDE DEF ptr
<1> QED BY <1>1 DEF World

\* VIDIOC_REQBUFS in the driver: pointers go stale only where there were some,
\* and a driver without orphans refuses in that case.
LEMMA ReqbufsMappings ==
  ASSUME NEW w \in World, NEW k \in 0..MaxFrames, NEW F, NEW d, d = DriverReqbufs(w, k, F)
  PROVE  /\ d.noFrames = w.noFrames /\ d.byRead = w.byRead /\ d.ctl = w.ctl
         /\ d.conv = w.conv /\ d.convBuf = w.convBuf /\ d.mapCount = w.mapCount
         /\ d.useRead = w.useRead /\ d.gen = w.gen
         /\ ~Orphans /\ Fresh(w) => Fresh(d)
         /\ Unmapped(w) => Unmapped(d)
<1> DEFINE ptr == [i \in Frames |-> IF w.ptr[i] = "cur" THEN "stale" ELSE w.ptr[i]]
           v   == [w EXCEPT !.ok = TRUE, !.dN = Grant(k), !.dQ = {}, !.dDone = {},
                            !.dMap = {}, !.held = Upto(Grant(k)), !.ptr = ptr]
<1>1. d = [w EXCEPT !.ok = FALSE] \/ (d = v /\ (~Orphans => ~InUse(w)))
  BY DEF DriverReqbufs, Fail
<1>2. CASE d = [w EXCEPT !.ok = FALSE]
  BY <1>2 DEF World, Fresh, Unmapped
<1>3. CASE d = v /\ (~Orphans => ~InUse(w))
  <2>1. ~Orphans => \A i \in Frames : ptr[i] = w.ptr[i]
    BY <1>3 DEF InUse
  <2>2. Unmapped(w) => \A i \in Frames : ptr[i] = "none"
    BY DEF Unmapped
  <2> HIDE DEF ptr
  <2>3. /\ v.noFrames = w.noFrames /\ v.byRead = w.byRead /\ v.ctl = w.ctl
        /\ v.conv = w.conv /\ v.convBuf = w.convBuf /\ v.mapCount = w.mapCount
        /\ v.useRead = w.useRead /\ v.gen = w.gen /\ v.ptr = ptr
    BY DEF World
  <2> QED BY <1>3, <2>1, <2>2, <2>3 DEF Fresh, Unmapped
<1> QED BY <1>1, <1>2, <1>3

-----------------------------------------------------------------------------
(* Who requests buffers and who gives them up.                              *)

\* The last lines of v4l2_deactivate_read_stream().
Released(r) == [r EXCEPT !.ctl = FALSE, !.ok = TRUE]

\* v4l2_unrequest_read_buffers() and the end of v4l2_deactivate_read_stream():
\* read()'s own buffers have no mapping of the application.
LEMMA UnrequestMappings ==
  ASSUME NEW w \in World, NEW F, Sound(w), Loose(w), Unmapped(w),
         NEW x, x = Released(UnrequestReadBuffers(w, F))
  PROVE  /\ Loose(x) /\ ~x.ctl /\ x.ok /\ x.gen = w.gen
         /\ x.mapCount = w.mapCount
<1> DEFINE d == DriverReqbufs(w, 0, F)
           v == [d EXCEPT !.noFrames = 0, !.byRead = FALSE]
<1> DEFINE r == UnrequestReadBuffers(w, F)
<1>1. r = w \/ (w.byRead /\ r = v)
  BY DEF UnrequestReadBuffers
<1>2. 0 \in 0..MaxFrames
  OBVIOUS
<1>3. /\ d.ctl = w.ctl /\ d.conv = w.conv /\ d.convBuf = w.convBuf
      /\ d.mapCount = w.mapCount /\ d.useRead = w.useRead /\ Unmapped(d)
      /\ d.gen = w.gen
  BY <1>2, ReqbufsMappings
<1>4. d \in World
  BY <1>2, DriverReqbufsFacts
<1> HIDE DEF d, r
<1>7. x = [r EXCEPT !.ctl = FALSE, !.ok = TRUE]
  BY DEF Released, r
<1>5. CASE r = w
  <2>1. /\ ~x.ctl /\ x.ok /\ x.gen = w.gen /\ x.mapCount = w.mapCount
        /\ x.conv = w.conv /\ x.convBuf = w.convBuf /\ x.byRead = w.byRead
        /\ x.noFrames = w.noFrames /\ x.ptr = w.ptr
    BY <1>5, <1>7 DEF World
  <2> QED BY <2>1 DEF Loose, Fresh, Backed
<1>6. CASE w.byRead /\ r = v
  <2>1. /\ ~x.ctl /\ x.ok /\ x.gen = w.gen /\ x.mapCount = w.mapCount
        /\ x.ptr = d.ptr /\ x.byRead = FALSE
    BY <1>3, <1>4, <1>6, <1>7 DEF World
  <2>2. Fresh(x)
    BY <1>3, <2>1 DEF Unmapped, Fresh
  <2>3. ~NoReads
    BY <1>6 DEF Loose
  <2>4. Backed(w) => Backed(x)
    BY <1>6, <2>1 DEF Backed
  <2> QED BY <2>1, <2>2, <2>3, <2>4 DEF Loose
<1> QED BY <1>1, <1>5, <1>6

\* v4l2_deactivate_read_stream() unmaps without a new generation: nobody may
\* wait for its stream any more.
LEMMA DeactivateMappings ==
  ASSUME NEW w \in World, NEW F, Steady(w), NEW x, x = DeactivateReadStream(w, F)
  PROVE  /\ Keeps(w, x) /\ Steady(x)
         /\ x.mapCount = w.mapCount
         /\ x.ok => ~x.ctl /\ Unmapped(x)
<1> DEFINE a == StreamOff(w, F)
           u == UnmapBuffers(a)
           r == UnrequestReadBuffers(u, F)
           y == Released(r)
<1>1. x = IF ~a.ok THEN a ELSE y
  BY DEF DeactivateReadStream, Released
<1>2. Keeps(w, x) /\ (x.ok => Unmapped(x))
  BY DeactivateReadStreamKeeps DEF Steady
<1>3. Leaves(w, a) /\ Same(w, a)
  BY StreamLeaves, StreamSame
<1> HIDE DEF a
<1>4. a \in World /\ Sound(a) /\ Loose(a)
  BY <1>3 DEF Leaves, Steady
<1>5. u \in World /\ Sound(u) /\ Unmapped(u)
  BY <1>4, UnmapKeeps DEF Keeps
<1>6. /\ u.noFrames = a.noFrames /\ u.byRead = a.byRead /\ u.ctl = a.ctl
      /\ u.conv = a.conv /\ u.convBuf = a.convBuf /\ u.mapCount = a.mapCount
  BY <1>4, UnmapFacts
<1> HIDE DEF u
<1>7. Loose(u)
  BY <1>4, <1>5, <1>6 DEF Loose, Fresh, Unmapped, Backed
<1>8. Loose(y) /\ ~y.ctl /\ y.ok /\ y.mapCount = u.mapCount
  BY <1>5, <1>7, UnrequestMappings
<1> HIDE DEF y
<1>9. CASE ~a.ok
  BY <1>1, <1>2, <1>3, <1>9 DEF Leaves, Same
<1>10. CASE a.ok
  <2>1. x = y /\ Unmapped(x)
    BY <1>1, <1>2, <1>8, <1>10
  <2>2. Steady(x)
    BY <1>2, <1>8, <2>1 DEF Steady, MapsForRead, Keeps
  <2> QED BY <1>2, <1>3, <1>6, <1>8, <2>1, <2>2 DEF Same
<1> QED BY <1>9, <1>10

\* v4l2_check_buffer_change_ok(): it agrees only where the application has
\* nothing mapped, and then nothing is left of the stream either.
LEMMA CheckBufferChangeOkLeaves ==
  ASSUME NEW w \in World, NEW F, Steady(w), NEW x, x = CheckBufferChangeOk(w, F)
  PROVE  /\ Leaves(w, x) /\ w.gen < x.gen
         /\ x.ok => /\ ~x.ctl /\ Unmapped(x) /\ x.convBuf = 0
                    /\ ~LaxInput => NoFakeMaps(x)
<1> DEFINE g == [w EXCEPT !.gen = @ + 1]
           u == UnmapBuffers(g)
           v == [u EXCEPT !.convBuf = 0, !.ok = TRUE]
           f == [u EXCEPT !.ok = FALSE]
           d == DeactivateReadStream(v, F)
<1>1. /\ Keeps(w, x)
      /\ x.ok => Unmapped(x) /\ x.convBuf = 0
  BY CheckBufferChangeOkKeeps DEF Steady
<1>2. /\ g \in World /\ Sound(g) /\ g.open = w.open /\ g.gen = w.gen + 1
      /\ g.noFrames = w.noFrames /\ g.byRead = w.byRead /\ g.ctl = w.ctl
      /\ g.conv = w.conv /\ g.convBuf = w.convBuf /\ g.mapCount = w.mapCount
  BY DEF World, Sound, Steady
<1> HIDE DEF g
<1>3. /\ u \in World /\ Sound(u) /\ Unmapped(u) /\ u.open = w.open
  BY <1>2, UnmapKeeps DEF Keeps
<1>4. /\ u.noFrames = w.noFrames /\ u.byRead = w.byRead /\ u.ctl = w.ctl
      /\ u.conv = w.conv /\ u.convBuf = w.convBuf /\ u.mapCount = w.mapCount
      /\ u.gen = w.gen + 1
  BY <1>2, UnmapFacts
<1>5. \/ x = f
      \/ ~BuffersMapped(u, F) /\ x = (IF v.ctl THEN d ELSE v)
  BY DEF CheckBufferChangeOk, Fail, g
<1> HIDE DEF u
<1>6. w.gen \in Int
  BY DEF World
<1>7. Loose(u)
  BY <1>3, <1>4 DEF Steady, Loose, Fresh, Unmapped, Backed
<1>8. CASE x = f
  <2>1. /\ x.noFrames = u.noFrames /\ x.byRead = u.byRead /\ x.ctl = u.ctl
        /\ x.conv = u.conv /\ x.convBuf = u.convBuf /\ x.mapCount = u.mapCount
        /\ x.gen = w.gen + 1 /\ x.ptr = u.ptr /\ x.ok = FALSE
    BY <1>3, <1>4, <1>8 DEF World
  <2>2. Loose(x) /\ MapsForRead(x) /\ w.gen < x.gen
    BY <1>3, <1>6, <1>7, <2>1 DEF Loose, MapsForRead, Fresh, Unmapped, Backed
  <2> QED BY <1>1, <2>1, <2>2, NewGenerationLeaves
<1>9. CASE ~BuffersMapped(u, F) /\ x = (IF v.ctl THEN d ELSE v)
  <2>1. ~LaxInput => NoFakeMaps(u)
    <3> SUFFICES ASSUME ~LaxInput, NEW i \in Frames, u.mapCount[i] # 0 PROVE FALSE
      BY DEF NoFakeMaps
    <3>1. u.mapCount[i] > 0
      BY <1>3 DEF World
    <3>2. u.conv /\ i < u.noFrames
      BY <1>7, <3>1 DEF Loose, Backed
    <3>3. u.noFrames \in Int /\ i \in Int /\ 0 <= i
      <4>1. u.noFrames \in 0..MaxFrames
        BY <1>3 DEF World
      <4> QED BY <4>1, StreamAssumption DEF Frames
    <3>4. i \in Upto(u.noFrames)
      BY <3>2, <3>3 DEF Upto
    <3> QED BY <1>9, <3>1, <3>2, <3>4 DEF BuffersMapped
  <2>2. /\ v.noFrames = u.noFrames /\ v.byRead = u.byRead /\ v.ctl = u.ctl
        /\ v.conv = u.conv /\ v.convBuf = 0 /\ v.mapCount = u.mapCount
        /\ v.gen = w.gen + 1 /\ v.ptr = u.ptr /\ v.open = u.open
    BY <1>3, <1>4 DEF World
  <2>3. v \in World
    <3>1. 0 \in 0..MaxFrames
      OBVIOUS
    <3> QED BY <1>3, <3>1 DEF World
  <2>4. Sound(v)
    BY <1>3 DEF World, Sound
  <2> HIDE DEF v
  <2>5. Unmapped(v) /\ (~LaxInput => NoFakeMaps(v))
    BY <1>3, <2>1, <2>2 DEF Unmapped, NoFakeMaps
  <2>6. Loose(v)
    BY <1>7, <2>2, <2>5 DEF Loose, Fresh, Unmapped, Backed, NoFakeMaps
  <2>7. Steady(v)
    BY <2>3, <2>4, <2>5, <2>6 DEF Steady, MapsForRead
  <2>8. /\ Keeps(v, d) /\ Steady(d) /\ d.mapCount = v.mapCount
        /\ d.ok => ~d.ctl
    BY <2>3, <2>7, DeactivateMappings
  <2> HIDE DEF d
  <2>9. w.gen < v.gen /\ w.gen < d.gen
    BY <1>6, <2>2, <2>8 DEF Keeps, World
  <2>10. CASE v.ctl
    BY <1>1, <1>9, <2>5, <2>8, <2>9, <2>10, NewGenerationLeaves DEF Steady, NoFakeMaps
  <2>11. CASE ~v.ctl
    BY <1>1, <1>9, <2>5, <2>7, <2>9, <2>11, NewGenerationLeaves DEF Steady
  <2> QED BY <2>10, <2>11
<1> QED BY <1>5, <1>8, <1>9

-----------------------------------------------------------------------------
(* The calls that change the format.                                        *)

\* Once v4l2_check_buffer_change_ok() agreed, the format may change.
LEMMA ConvSteady ==
  ASSUME NEW w \in World, NEW c \in BOOLEAN, Steady(w), ~LaxInput => NoFakeMaps(w),
         NEW x, x = [w EXCEPT !.conv = c]
  PROVE  Keeps(w, x) /\ Steady(x) /\ x.gen = w.gen
<1>1. /\ x.noFrames = w.noFrames /\ x.byRead = w.byRead /\ x.ctl = w.ctl
      /\ x.convBuf = w.convBuf /\ x.mapCount = w.mapCount /\ x.ptr = w.ptr
      /\ x.useRead = w.useRead /\ x.gen = w.gen
  BY DEF World
<1>2. Keeps(w, x)
  BY KeepsConv DEF Steady
<1>3. Loose(x)
  BY <1>1 DEF Steady, Loose, Fresh, Backed, NoFakeMaps
<1>4. MapsForRead(x)
  BY <1>1 DEF Steady, MapsForRead, Unmapped
<1> QED BY <1>1, <1>2, <1>3, <1>4 DEF Steady, Keeps

\* v4l2_s_fmt() and v4l2_adjust_src_fmt_to_fps().
LEMMA SFmtLeaves ==
  ASSUME NEW w \in World, NEW c \in BOOLEAN, NEW F, Steady(w)
  PROVE  Leaves(w, SFmt(w, c, F)) /\ Leaves(w, AdjustSrcFmtToFps(w, c, F))
<1> DEFINE a == CheckBufferChangeOk(w, F)
           v == [a EXCEPT !.conv = c]
<1>1. SFmt(w, c, F) \in {Fail(w), a, Fail(a)} \/ (a.ok /\ SFmt(w, c, F) = v)
  BY DEF SFmt
<1>2. \/ AdjustSrcFmtToFps(w, c, F) = Ok(a)
      \/ a.ok /\ AdjustSrcFmtToFps(w, c, F) = v
  BY DEF AdjustSrcFmtToFps
<1>3. Leaves(w, a) /\ w.gen < a.gen /\ (a.ok => (~LaxInput => NoFakeMaps(a)))
  BY CheckBufferChangeOkLeaves
<1> HIDE DEF a
<1>4. a \in World /\ Steady(a)
  BY <1>3 DEF Leaves, Steady
<1>5. Leaves(w, Fail(w)) /\ Leaves(a, Ok(a)) /\ Leaves(a, Fail(a))
  BY <1>4, ResultLeaves
<1>6. a.ok => Keeps(a, v) /\ Steady(v) /\ v.gen = a.gen
  BY <1>3, <1>4, ConvSteady
<1> HIDE DEF v
<1>7. a.ok => Leaves(w, v)
  <2>1. a.ok => Keeps(w, v)
    BY <1>3, <1>6, KeepsTransitive DEF Leaves
  <2> QED BY <1>3, <1>6, <2>1, NewGenerationLeaves DEF Steady
<1>8. Leaves(w, Ok(a)) /\ Leaves(w, Fail(a))
  BY <1>3, <1>5, LeavesTransitive
<1> QED BY <1>1, <1>2, <1>3, <1>5, <1>7, <1>8

\* VIDIOC_S_STD, S_INPUT and S_DV_TIMINGS: a driver that refuses them while
\* buffers are allocated changes the format under nobody.
LEMMA SInputLeaves ==
  ASSUME NEW w \in World, NEW changed \in BOOLEAN, NEW c \in BOOLEAN, NEW F, Steady(w)
  PROVE  Leaves(w, SInput(w, changed, c, F))
<1> DEFINE s == [w EXCEPT !.conv = FALSE]
           a == SFmt(s, c, F)
<1>1. \/ SInput(w, changed, c, F) \in {Fail(w), Ok(w)}
      \/ /\ ~LaxInput => w.dN = 0
         /\ SInput(w, changed, c, F) = Ok(a)
  BY DEF SInput, DriverBusy, World
<1>2. Leaves(w, Ok(w)) /\ Leaves(w, Fail(w))
  BY ResultLeaves
<1>3. CASE ~LaxInput => w.dN = 0
  <2>1. ~LaxInput => w.noFrames = 0
    BY <1>3 DEF Steady, Sound
  <2>2. ~LaxInput => NoFakeMaps(w)
    <3> SUFFICES ASSUME ~LaxInput, NEW i \in Frames, w.mapCount[i] # 0 PROVE FALSE
      BY DEF NoFakeMaps
    <3>1. w.mapCount[i] > 0
      BY DEF World
    <3>2. i < 0
      BY <2>1, <3>1 DEF Steady, Loose, Backed
    <3> QED BY <3>2 DEF Frames
  <2>3. Keeps(w, s) /\ Steady(s) /\ s.gen = w.gen
    BY <2>2, ConvSteady
  <2>4. s.noFrames = w.noFrames /\ s.ctl = w.ctl /\ s.ptr = w.ptr /\ s.dQ = w.dQ
    BY DEF World
  <2> HIDE DEF s
  <2>5. Leaves(w, s)
    BY <2>1, <2>3, <2>4 DEF Leaves, Spares, Used
  <2>6. Leaves(s, a)
    BY <2>3, SFmtLeaves DEF Steady
  <2> HIDE DEF a
  <2>7. Leaves(a, Ok(a))
    BY <2>6, ResultLeaves DEF Leaves, Steady
  <2>8. Leaves(w, a)
    BY <2>5, <2>6, LeavesTransitive
  <2> QED BY <1>1, <1>2, <2>7, <2>8, LeavesTransitive
<1> QED BY <1>1, <1>2, <1>3

\* The first lines of every stream ioctl.
LEMMA TouchLeaves ==
  ASSUME NEW w \in World, NEW F, Steady(w)
  PROVE  Leaves(w, Touch(w, F))
<1> DEFINE a == IF ~w.touched /\ DstOnly /\ ~w.conv THEN SFmt(w, TRUE, F) ELSE w
           v == [a EXCEPT !.touched = TRUE, !.ok = TRUE]
<1>1. Leaves(w, a)
  BY SFmtLeaves, ResultLeaves
<1>2. Touch(w, F) = v
  BY DEF Touch
<1> HIDE DEF a
<1>3. a \in World /\ Steady(a)
  BY <1>1 DEF Leaves, Steady
<1>4. Keeps(a, v) /\ Same(a, v) /\ v.dQ = a.dQ
  <2>1. Same(a, v) /\ v.dQ = a.dQ /\ v \in World /\ v.open = a.open
    BY <1>3 DEF Same, World
  <2>2. Sound(v)
    BY <1>3 DEF Steady, Sound, World
  <2> HIDE DEF v
  <2> QED BY <1>3, <2>1, <2>2 DEF Keeps, Same, World
<1> HIDE DEF v
<1>5. Leaves(a, v)
  BY <1>3, <1>4, SameLeaves
<1> QED BY <1>1, <1>2, <1>5, LeavesTransitive

\* VIDIOC_REQBUFS.
LEMMA ReqbufsCallLeaves ==
  ASSUME NEW w \in World, NEW n \in 0..MaxFrames, NEW F, Steady(w)
  PROVE  Leaves(w, ReqbufsCall(w, n, F))
<1> DEFINE x == Touch(w, F)
           a == CheckBufferChangeOk(x, F)
           d == DriverReqbufs(a, n, F)
           v == [d EXCEPT !.noFrames = d.dN, !.byRead = FALSE, !.asked = (d.dN > 0)]
           r == ReqbufsCall(w, n, F)
<1>1. r = IF ~a.ok THEN a ELSE IF ~d.ok THEN d ELSE v
  BY DEF ReqbufsCall
<1>2. Keeps(w, r)
  BY ReqbufsCallKeeps DEF Steady
<1>3. Leaves(w, x)
  BY TouchLeaves
<1> HIDE DEF x
<1>4. x \in World /\ Steady(x)
  BY <1>3 DEF Leaves, Steady
<1>5. /\ Leaves(x, a) /\ x.gen < a.gen
      /\ a.ok => /\ ~a.ctl /\ Unmapped(a) /\ a.convBuf = 0
                 /\ ~LaxInput => NoFakeMaps(a)
  BY <1>4, CheckBufferChangeOkLeaves
<1> HIDE DEF a
<1>6. Leaves(w, a)
  BY <1>3, <1>5, LeavesTransitive
<1>7. a \in World /\ Steady(a)
  BY <1>6 DEF Leaves, Steady
<1>8. /\ d.ctl = a.ctl /\ d.convBuf = a.convBuf /\ d.mapCount = a.mapCount
      /\ d.gen = a.gen /\ (Unmapped(a) => Unmapped(d))
  BY <1>7, ReqbufsMappings
<1>9. d \in World /\ (~d.ok => d = Fail(a))
  BY <1>7, DriverReqbufsFacts DEF Steady, Fail
<1> HIDE DEF d
<1>10. CASE ~a.ok \/ ~d.ok
  <2>1. Leaves(a, Fail(a))
    BY <1>7, ResultLeaves
  <2> QED BY <1>1, <1>6, <1>9, <1>10, <2>1, LeavesTransitive
<1>11. CASE a.ok /\ d.ok
  <2>1. /\ v.ctl = d.ctl /\ v.convBuf = d.convBuf /\ v.mapCount = d.mapCount
        /\ v.gen = d.gen /\ v.ptr = d.ptr /\ v.byRead = FALSE
    BY <1>9 DEF World
  <2>2. r = v
    BY <1>1, <1>11
  <2> HIDE DEF v, r
  <2>3. Unmapped(v) /\ ~v.ctl /\ v.convBuf = 0 /\ (~LaxInput => NoFakeMaps(v))
    BY <1>5, <1>8, <1>11, <2>1 DEF Unmapped, NoFakeMaps
  <2>4. Loose(v)
    BY <2>1, <2>3 DEF Loose, Fresh, Unmapped, Backed, NoFakeMaps
  <2>5. MapsForRead(v)
    BY <2>3 DEF MapsForRead
  <2>6. w.gen < v.gen
    BY <1>3, <1>5, <1>7, <1>8, <2>1, <1>4 DEF Leaves, Keeps, World
  <2> QED BY <1>2, <2>2, <2>4, <2>5, <2>6, NewGenerationLeaves DEF r
<1> QED BY <1>10, <1>11

-----------------------------------------------------------------------------
(* The ioctls that take the stream back.                                    *)

\* Where an application never calls read() there is nothing to take back.
LEMMA TakeBackLeaves ==
  ASSUME NEW w \in World, NEW F, Steady(w), ~NoIoctls
  PROVE  Leaves(w, TakeBack(w, F))
<1> DEFINE a == Touch(w, F)
           d == DeactivateReadStream(a, F)
<1>1. TakeBack(w, F) = IF a.ctl THEN d ELSE a
  BY DEF TakeBack
<1>2. Leaves(w, a)
  BY TouchLeaves
<1> HIDE DEF a
<1>3. a \in World /\ Steady(a)
  BY <1>2 DEF Leaves, Steady
<1>4. Keeps(a, d) /\ Steady(d)
  BY <1>3, DeactivateMappings
<1> HIDE DEF d
<1>5. a.ctl => Leaves(a, d)
  <2>1. a.ctl => ~OneUse
    BY <1>3 DEF Steady, Loose, OneUse
  <2> QED BY <1>4, <2>1 DEF Leaves, Spares, Keeps
<1> QED BY <1>1, <1>2, <1>5, LeavesTransitive

\* VIDIOC_QBUF.
LEMMA QbufCallLeaves ==
  ASSUME NEW w \in World, NEW i \in Frames, NEW F, Steady(w), ~NoIoctls
  PROVE  Leaves(w, QbufCall(w, i, F))
<1> DEFINE a == TakeBack(w, F)
           b == IF a.conv THEN MapBuffers(a, F) ELSE Ok(a)
           v == [b EXCEPT !.dQ = @ \cup {i}, !.held = @ \ {i}]
           r == QbufCall(w, i, F)
<1>1. r \in {a, b, v}
  BY DEF QbufCall
<1>2. Keeps(w, r)
  BY QbufCallKeeps DEF Steady
<1>3. Leaves(w, a)
  BY TakeBackLeaves
<1> HIDE DEF a
<1>4. a \in World /\ Steady(a)
  BY <1>3 DEF Leaves, Steady
<1>5. Leaves(a, b)
  BY <1>4, MapBuffersLeaves, ResultLeaves
<1> HIDE DEF b
<1>6. Leaves(w, b)
  BY <1>3, <1>5, LeavesTransitive
<1>7. b \in World
  BY <1>6 DEF Leaves, Steady
<1>8. Same(b, v)
  BY <1>7 DEF Same, World
<1> HIDE DEF r, v
<1>9. CASE r = v
  <2>1. Loose(r) /\ MapsForRead(r)
    BY <1>6, <1>8, <1>9 DEF Leaves, Steady, Same, Loose, MapsForRead, Fresh, Backed, Unmapped
  <2>2. Spares(w, r, {})
    BY <1>6, <1>8, <1>9 DEF Leaves, Spares, Same, Used
  <2>3. Leaves(w, r)
    BY <1>2, <2>1, <2>2 DEF Leaves, Steady, Keeps
  <2> QED BY <2>3 DEF r
<1> QED BY <1>1, <1>3, <1>6, <1>9 DEF r

\* VIDIOC_STREAMON and VIDIOC_STREAMOFF.
LEMMA StreamCallsLeave ==
  ASSUME NEW w \in World, NEW F, Steady(w), ~NoIoctls
  PROVE  Leaves(w, StreamOnCall(w, F)) /\ Leaves(w, StreamOffCall(w, F))
<1> DEFINE a == TakeBack(w, F)
<1>1. Leaves(w, a)
  BY TakeBackLeaves
<1>2. StreamOnCall(w, F) \in {a, StreamOn(a, F)}
  BY DEF StreamOnCall
<1>3. StreamOffCall(w, F) \in {a, StreamOff(a, F)}
  BY DEF StreamOffCall
<1> HIDE DEF a
<1>4. Leaves(a, StreamOn(a, F)) /\ Leaves(a, StreamOff(a, F))
  BY <1>1, StreamLeaves DEF Leaves, Steady
<1>5. Leaves(w, StreamOn(a, F)) /\ Leaves(w, StreamOff(a, F))
  BY <1>1, <1>4, LeavesTransitive
<1> QED BY <1>1, <1>2, <1>3, <1>5

-----------------------------------------------------------------------------
(* read().                                                                  *)

\* v4l2_request_read_buffers(), called where nothing is mapped.
LEMMA RequestMappings ==
  ASSUME NEW w \in World, NEW F, Steady(w), ~NoReads, ~w.ctl, ~w.useRead,
         NEW x, x = RequestReadBuffers(w, F)
  PROVE  /\ Loose(x) /\ ~x.ctl /\ x.gen = w.gen
<1> DEFINE count == IF w.noFrames > 0 THEN w.noFrames ELSE NRead
           d     == DriverReqbufs(w, count, F)
           v     == [d EXCEPT !.byRead = d.byRead \/ w.noFrames = 0, !.noFrames = d.dN]
<1>1. count \in 0..MaxFrames
  BY DEF World
<1>2. x = IF ~d.ok THEN d ELSE v
  BY DEF RequestReadBuffers
<1> HIDE DEF count
<1>3. /\ d.noFrames = w.noFrames /\ d.byRead = w.byRead /\ d.ctl = w.ctl
      /\ d.conv = w.conv /\ d.convBuf = w.convBuf /\ d.mapCount = w.mapCount
      /\ d.gen = w.gen
      /\ ~Orphans /\ Fresh(w) => Fresh(d)
      /\ Unmapped(w) => Unmapped(d)
  BY <1>1, ReqbufsMappings
<1>4. d \in World /\ (d.ok => d.dN = Grant(count))
  BY <1>1, DriverReqbufsFacts DEF Steady
<1>5. w.noFrames > 0 => Grant(count) = w.noFrames
  BY GrantFacts DEF count, World, Sound, Steady
<1> HIDE DEF d
<1>6. OneUse \/ ~Orphans => Fresh(d)
  BY <1>3 DEF OneUse, Steady, MapsForRead, Loose, Fresh, Unmapped
<1>7. ~LaxInput /\ w.noFrames = 0 => NoFakeMaps(w)
  <2> SUFFICES ASSUME ~LaxInput, w.noFrames = 0, NEW i \in Frames, w.mapCount[i] # 0
               PROVE  FALSE
    BY DEF NoFakeMaps
  <2>1. w.mapCount[i] > 0
    BY DEF World
  <2>2. i < 0
    BY <2>1 DEF Steady, Loose, Backed
  <2> QED BY <2>2 DEF Frames
<1>8. CASE ~d.ok
  BY <1>2, <1>3, <1>6, <1>8 DEF Steady, Loose, Backed
<1>9. CASE d.ok
  <2>1. /\ v.noFrames = d.dN /\ v.byRead = (d.byRead \/ w.noFrames = 0)
        /\ v.ctl = d.ctl /\ v.conv = d.conv /\ v.convBuf = d.convBuf
        /\ v.mapCount = d.mapCount /\ v.gen = d.gen /\ v.ptr = d.ptr
    BY <1>4 DEF World
  <2>2. x = v
    BY <1>2, <1>9
  <2> HIDE DEF v
  <2>3. CASE w.noFrames = 0
    BY <1>3, <1>6, <1>7, <2>1, <2>2, <2>3 DEF Loose, Fresh, Backed, NoFakeMaps
  <2>4. CASE w.noFrames > 0
    <3>1. v.noFrames = w.noFrames /\ v.byRead = w.byRead
      BY <1>3, <1>4, <1>5, <1>9, <2>1, <2>4 DEF World
    <3> QED BY <1>3, <1>6, <2>1, <2>2, <3>1 DEF Loose, Steady, Fresh, Backed
  <2> QED BY <2>3, <2>4 DEF World
<1> QED BY <1>8, <1>9

\* v4l2_activate_read_stream(): where it fails half way some buffers may stay
\* mapped, and read() never comes back to them.
LEMMA ActivateMappings ==
  ASSUME NEW w \in World, NEW F, Steady(w), ~NoReads, ~w.ctl, ~w.useRead,
         NEW x, x = ActivateReadStream(w, F)
  PROVE  Loose(x) /\ x.gen = w.gen /\ (x.ok => x.ctl)
<1> DEFINE a == RequestReadBuffers(w, F)
           b == MapBuffers(a, F)
           c == QueueReadBuffers(b, F)
           d == [c EXCEPT !.ctl = TRUE]
           s == StreamOn(d, F)
<1>1. \/ x = Fail(w) \/ (~a.ok /\ x = a) \/ (~b.ok /\ x = b)
      \/ ~c.ok /\ x = c
      \/ c.ok /\ x = s
  BY DEF ActivateReadStream
<1>2. Loose(Fail(w)) /\ Fail(w).gen = w.gen /\ ~Fail(w).ok
  <2>1. Fail(w).gen = w.gen /\ ~Fail(w).ok
    BY DEF Fail, World
  <2> QED BY <2>1, ResultLeaves DEF Leaves, Steady
<1>3. Loose(a) /\ ~a.ctl /\ a.gen = w.gen
  BY RequestMappings
<1>4. a \in World /\ Sound(a)
  BY RequestReadBuffersKeeps DEF Keeps, Steady
<1> HIDE DEF a
<1>5. Loose(b) /\ b.gen = a.gen /\ b.ctl = a.ctl
  BY <1>3, <1>4, MapBuffersLoose, MapBuffersFacts
<1>6. b \in World /\ Sound(b)
  BY <1>4, MapBuffersKeeps DEF Keeps
<1> HIDE DEF b
<1>7. Same(b, c) /\ (c.ok => b.noFrames > 0)
  BY <1>6, QueueingSame
<1>8. c \in World /\ Sound(c)
  BY <1>6, QueueReadBuffersKeeps DEF Keeps
<1> HIDE DEF c
<1>9. Loose(c) /\ c.gen = b.gen
  BY <1>5, <1>7 DEF Same, Loose, Fresh, Backed
<1>10. /\ d.ctl = TRUE /\ d.noFrames = c.noFrames /\ d.byRead = c.byRead
       /\ d.conv = c.conv /\ d.convBuf = c.convBuf /\ d.mapCount = c.mapCount
       /\ d.ptr = c.ptr /\ d.gen = c.gen /\ d \in World
  BY <1>8 DEF World
<1> HIDE DEF d
<1>11. c.ok => Loose(d)
  BY <1>7, <1>9, <1>10 DEF Same, Loose, Fresh, Backed
<1>12. Same(d, s)
  BY <1>10, StreamSame
<1> HIDE DEF s
<1>13. c.ok => Loose(s) /\ s.gen = d.gen /\ s.ctl
  BY <1>10, <1>11, <1>12 DEF Same, Loose, Fresh, Backed
<1> QED BY <1>1, <1>2, <1>3, <1>5, <1>7, <1>9, <1>10, <1>13

-----------------------------------------------------------------------------
(* The threads.                                                             *)

\* A thread in VIDIOC_DQBUF whose generation is the device's will find every
\* frame mapped.
Watch(x, w) ==
  x.pc \in {"dq", "got"} /\ x.kind \in {"read", "ioctl"} /\ x.gen = w.gen =>
    /\ Used(w)
    /\ \A i \in Frames : i < w.noFrames => w.ptr[i] = "cur"
    /\ x.pc = "got" => x.buf < w.noFrames

\* The buffer t converts is neither the driver's nor another thread's.
Owns(t) ==
  Converting(t) =>
    /\ thr[t].buf \notin dev.dQ
    /\ \A s \in Threads : Converting(s) /\ thr[s].buf = thr[t].buf => s = t

\* With IInv, the inductive invariant behind ConvertReadsMapped,
\* FrameHasOneOwner, NoStaleMapping and FakeMapsBacked.
Mappings ==
  /\ dev.open => Steady(dev)
  /\ \A t \in Threads : thr[t].pc \in {"dq", "got"} => thr[t].kind # "none"
  /\ OneUse => \A t \in Threads : Watch(thr[t], dev)
  /\ NoIoctls => \A t \in Threads : Owns(t)

\* A thread that waits can tell that the format has changed.
FormatSeen ==
  OneUse /\ ~LaxInput =>
    \A t \in Threads :
      thr[t].pc \in {"dq", "got"} /\ thr[t].kind \in {"read", "ioctl"}
        /\ thr[t].gen = dev.gen /\ dev'.conv # dev.conv
      => dev'.gen # dev.gen

\* What every step is shown to do.
MappingsStep == Mappings' /\ FormatSeen

\* A thread that waits finds what it needs in the device another one leaves.
LEMMA WatchKept ==
  ASSUME NEW v \in World, NEW w \in World, NEW S, Spares(v, w, S), OneUse,
         NEW x \in ThreadState, Fits(x, v), Watch(x, v)
  PROVE  Watch(x, Ok(w))
<1> DEFINE o == Ok(w)
<1>1. o.gen = w.gen /\ o.noFrames = w.noFrames /\ o.ptr = w.ptr /\ o.ctl = w.ctl
  BY DEF Ok, World
<1> HIDE DEF o
<1>2. x.gen \in Int /\ v.gen \in Int /\ w.gen \in Int /\ x.gen <= v.gen
  BY DEF ThreadState, World, Fits
<1>3. x.gen = o.gen => x.gen = v.gen /\ v.gen = w.gen
  BY <1>1, <1>2 DEF Spares
<1>4. Watch(x, o)
  BY <1>1, <1>2, <1>3 DEF Watch, Spares, Used
<1> QED BY <1>4 DEF o

\* A step that leaves w of the open device, queues the buffers in S only, and
\* after which the threads that moved do not hold a buffer.
LEMMA StepMappings ==
  ASSUME IInv, Mappings, dev.open, NEW w, Keeps(dev, w), Steady(w),
         NEW S, Spares(dev, w, S), dev' = Ok(w),
         \A s \in Threads :
           \/ thr'[s] = thr[s] /\ (NoIoctls /\ Converting(s) => thr[s].buf \notin S)
           \/ /\ thr'[s].pc # "got"
              /\ thr'[s].pc = "dq" => thr'[s].kind # "none"
              /\ OneUse => Watch(thr'[s], Ok(w))
  PROVE  MappingsStep
<1>1. /\ dev \in World /\ w \in World /\ thr \in [Threads -> ThreadState]
      /\ \A s \in Threads : Fits(thr[s], dev)
  BY DEF IInv, TypeOK, Keeps
<1>2. /\ dev'.gen = w.gen /\ dev'.noFrames = w.noFrames /\ dev'.ptr = w.ptr
      /\ dev'.dQ = w.dQ /\ w.gen \in Int /\ dev.gen \in Int /\ dev.gen <= w.gen
  BY <1>1 DEF Ok, World, Spares
<1>3. Steady(dev')
  BY <1>1, ResultLeaves DEF Leaves
<1>4. ASSUME OneUse, NEW s \in Threads PROVE Watch(thr[s], dev)
  BY <1>4 DEF Mappings
<1>5. ASSUME OneUse, NEW s \in Threads PROVE Watch(thr'[s], dev')
  <2>1. CASE thr'[s] = thr[s]
    <3>1. thr[s] \in ThreadState /\ Fits(thr[s], dev) /\ Watch(thr[s], dev)
      BY <1>1, <1>4, <1>5
    <3> QED BY <1>1, <1>5, <2>1, <3>1, WatchKept
  <2>2. CASE thr'[s] # thr[s]
    BY <1>5, <2>2
  <2> QED BY <2>1, <2>2
<1>6. ASSUME NoIoctls, NEW s \in Threads, Converting(s)'
      PROVE  /\ thr'[s] = thr[s] /\ Converting(s) /\ thr[s].buf \notin dev'.dQ
  <2>1. thr'[s].pc = "got" /\ thr'[s].kind \in {"read", "ioctl"} /\ thr'[s].gen = dev'.gen
    BY <1>6 DEF Converting
  <2>2. thr'[s] = thr[s] /\ (Converting(s) => thr[s].buf \notin S)
    BY <1>6, <2>1
  <2>3. thr[s].gen \in Int /\ thr[s].gen <= dev.gen
    BY <1>1 DEF ThreadState, Fits
  <2>4. thr[s].gen = dev.gen /\ dev.gen = w.gen
    BY <1>2, <2>1, <2>2, <2>3
  <2>5. Converting(s) /\ thr[s].buf \notin S
    BY <2>1, <2>2, <2>4 DEF Converting
  <2>6. Used(dev) /\ OneUse
    BY <1>4, <1>6, <2>1, <2>2, <2>4 DEF Watch, OneUse
  <2>7. w.dQ \subseteq dev.dQ \cup S
    BY <1>2, <1>6, <2>4, <2>6 DEF Spares
  <2>8. thr[s].buf \notin dev.dQ
    BY <1>6, <2>5 DEF Mappings, Owns
  <2> QED BY <1>2, <2>2, <2>5, <2>7, <2>8
<1>7. ASSUME NoIoctls, NEW s \in Threads PROVE Owns(s)'
  <2> SUFFICES ASSUME Converting(s)', NEW r \in Threads, Converting(r)',
                      thr'[r].buf = thr'[s].buf
               PROVE  thr'[s].buf \notin dev'.dQ /\ r = s
    BY <1>6, <1>7 DEF Owns
  <2>1. thr'[s] = thr[s] /\ Converting(s) /\ thr[s].buf \notin dev'.dQ
    BY <1>6, <1>7
  <2>2. thr'[r] = thr[r] /\ Converting(r)
    BY <1>6, <1>7
  <2>3. Owns(s)
    BY <1>7 DEF Mappings
  <2> QED BY <2>1, <2>2, <2>3 DEF Owns
<1>8. ASSUME NEW s \in Threads, thr'[s].pc \in {"dq", "got"} PROVE thr'[s].kind # "none"
  BY <1>8 DEF Mappings
<1>9. FormatSeen
  <2> SUFFICES ASSUME OneUse, ~LaxInput, NEW s \in Threads,
                      thr[s].pc \in {"dq", "got"}, thr[s].kind \in {"read", "ioctl"},
                      thr[s].gen = dev.gen, dev'.gen = dev.gen
               PROVE  dev'.conv = dev.conv
    BY DEF FormatSeen
  <2>1. Used(dev)
    BY <1>4 DEF Watch
  <2>2. w.conv = dev.conv
    BY <1>2, <2>1 DEF Spares
  <2> QED BY <1>1, <2>2 DEF Ok, World
<1> QED BY <1>3, <1>5, <1>7, <1>8, <1>9 DEF Mappings, MappingsStep

\* A call that returns without having blocked, and leaves w.
LEMMA AtomicMappings ==
  ASSUME IInv, Mappings, dev.open, NEW w, Leaves(dev, w), dev' = Ok(w), UNCHANGED thr
  PROVE  MappingsStep
<1>1. Keeps(dev, w) /\ Steady(w) /\ Spares(dev, w, {})
  BY DEF Leaves
<1> QED BY <1>1, StepMappings

\* Nobody is in the library of a closed device.
LEMMA ClosedMappings ==
  ASSUME dev'.open => Steady(dev'), \A s \in Threads : thr'[s] = Idle /\ thr[s] = Idle
  PROVE  MappingsStep
  BY DEF MappingsStep, FormatSeen, Mappings, Watch, Owns, Converting, Idle

-----------------------------------------------------------------------------
(* The steps.                                                               *)

\* A call that returns without having blocked is made by an application that
\* makes such calls.
LEMMA CallMappings ==
  ASSUME IInv, Mappings, NEW t \in Threads,
         \/ Qbuf(t) \/ Querybuf(t) \/ Streamon(t) \/ Streamoff(t) \/ Reqbufs(t)
         \/ SetFmt(t) \/ GetFmt(t) \/ SetParm(t) \/ SetInput(t)
  PROVE  MappingsStep
<1>1. \A call, w : Atomic(t, call, w) => dev.open /\ call \in Calls[t]
  BY DEF Atomic, Enter
<1>2. dev.open
  BY <1>1 DEF Qbuf, Querybuf, Streamon, Streamoff, Reqbufs, SetFmt, GetFmt, SetParm, SetInput
<1>3. dev \in World /\ Steady(dev)
  BY <1>2 DEF Mappings, Steady
<1>4. \A call, w : Atomic(t, call, w) /\ Leaves(dev, w) => MappingsStep
  BY <1>2, AtomicMappings DEF Atomic, Leave
<1>5. ASSUME NEW F, NEW w, Leaves(Touch(dev, F), w) PROVE Leaves(dev, w)
  BY <1>3, <1>5, TouchLeaves, LeavesTransitive
<1>6. ASSUME NEW F PROVE Touch(dev, F) \in World /\ Steady(Touch(dev, F))
  BY <1>3, TouchLeaves DEF Leaves, Steady
<1>7. CASE Qbuf(t) \/ Querybuf(t) \/ Streamon(t) \/ Streamoff(t)
  <2>1. ~NoIoctls
    BY <1>1, <1>7 DEF Qbuf, Querybuf, Streamon, Streamoff, NoIoctls, StreamIoctls
  <2>2. CASE Qbuf(t)
    BY <1>3, <1>4, <2>1, <2>2, QbufCallLeaves DEF Qbuf
  <2>3. CASE Querybuf(t)
    BY <1>3, <1>4, <2>1, <2>3, TakeBackLeaves DEF Querybuf
  <2>4. CASE Streamon(t)
    BY <1>3, <1>4, <2>1, <2>4, StreamCallsLeave DEF Streamon
  <2>5. CASE Streamoff(t)
    BY <1>3, <1>4, <2>1, <2>5, StreamCallsLeave DEF Streamoff
  <2> QED BY <1>7, <2>2, <2>3, <2>4, <2>5
<1>8. CASE Reqbufs(t)
  BY <1>3, <1>4, <1>8, ReqbufsCallLeaves DEF Reqbufs
<1>9. CASE GetFmt(t)
  BY <1>3, <1>4, <1>9, TouchLeaves DEF GetFmt
<1>10. CASE SetFmt(t)
  <2>1. PICK c \in BOOLEAN, F \in Faults : Atomic(t, "S_FMT", SFmt(Touch(dev, F), c, F))
    BY <1>10 DEF SetFmt
  <2>2. Leaves(Touch(dev, F), SFmt(Touch(dev, F), c, F))
    BY <1>6, SFmtLeaves
  <2> QED BY <1>4, <1>5, <2>1, <2>2
<1>11. CASE SetParm(t)
  <2>1. PICK c \in BOOLEAN, F \in Faults :
          Atomic(t, "S_PARM", AdjustSrcFmtToFps(Touch(dev, F), c, F))
    BY <1>11 DEF SetParm
  <2>2. Leaves(Touch(dev, F), AdjustSrcFmtToFps(Touch(dev, F), c, F))
    BY <1>6, SFmtLeaves
  <2> QED BY <1>4, <1>5, <2>1, <2>2
<1>12. CASE SetInput(t)
  <2>1. PICK x \in BOOLEAN, c \in BOOLEAN, F \in Faults :
          Atomic(t, "S_INPUT", SInput(Touch(dev, F), x, c, F))
    BY <1>12 DEF SetInput
  <2>2. Leaves(Touch(dev, F), SInput(Touch(dev, F), x, c, F))
    BY <1>6, SInputLeaves
  <2> QED BY <1>4, <1>5, <2>1, <2>2
<1> QED BY <1>7, <1>8, <1>9, <1>10, <1>11, <1>12

\* A step that changes nothing a mapping depends on.
LEMMA SameStep ==
  ASSUME IInv, IInv', Mappings, dev.open, Same(dev, dev'),
         NEW S, NoIoctls => dev'.dQ \subseteq dev.dQ \cup S
  PROVE  /\ Keeps(dev, dev') /\ Steady(dev') /\ Spares(dev, dev', S)
         /\ dev' = Ok(dev')
<1>1. dev \in World /\ Steady(dev) /\ dev'.open = dev.open
  BY DEF IInv, TypeOK, Mappings, Same
<1>2. dev' \in World /\ Sound(dev') /\ dev'.ok
  BY <1>1 DEF IInv, TypeOK
<1>3. Keeps(dev, dev')
  BY <1>1, <1>2 DEF Keeps, Same, World
<1>4. Steady(dev') /\ Spares(dev, dev', S)
  BY <1>1, <1>3, SameSpares
<1> QED BY <1>2, <1>3, <1>4, OkIsSelf

\* Such a step that lets threads go.
LEMMA SameMappings ==
  ASSUME IInv, IInv', Mappings, dev.open, Same(dev, dev'),
         NoIoctls => dev'.dQ \subseteq dev.dQ,
         \A s \in Threads : thr'[s] = thr[s] \/ thr'[s].pc \notin {"dq", "got"}
  PROVE  MappingsStep
<1>1. NoIoctls => dev'.dQ \subseteq dev.dQ \cup {}
  OBVIOUS
<1>2. Keeps(dev, dev') /\ Steady(dev') /\ Spares(dev, dev', {}) /\ dev' = Ok(dev')
  BY <1>1, SameStep
<1>3. \A s \in Threads : thr'[s].pc \notin {"dq", "got"} =>
        /\ thr'[s].pc # "got" /\ thr'[s].pc # "dq"
        /\ Watch(thr'[s], Ok(dev'))
  BY DEF Watch
<1> QED BY <1>2, <1>3, StepMappings

\* The application maps a converted frame that convert_mmap_buf has room for,
\* and unmaps it.
LEMMA FakeMapMappings ==
  ASSUME IInv, Mappings, NEW t \in Threads, Mmap(t) \/ Munmap(t)
  PROVE  MappingsStep
<1>1. dev.open
  BY DEF Mmap, Munmap, Atomic, Enter
<1>2. dev \in World /\ Steady(dev)
  BY <1>1 DEF Mappings, Steady
<1>3. \A call, w : Atomic(t, call, w) /\ Leaves(dev, w) => MappingsStep
  BY <1>1, AtomicMappings DEF Atomic, Leave
<1>4. ASSUME NEW w \in World, Steady(w), NEW m \in [Frames -> Nat],
             ~LaxInput => \A j \in Frames : m[j] > 0 =>
                            w.conv /\ ~w.byRead /\ j < w.convBuf /\ j < w.noFrames
      PROVE  Leaves(w, [w EXCEPT !.mapCount = m])
  <2> DEFINE v == [w EXCEPT !.mapCount = m]
  <2>1. /\ v.gen = w.gen /\ v.noFrames = w.noFrames /\ v.byRead = w.byRead
        /\ v.ctl = w.ctl /\ v.ptr = w.ptr /\ v.conv = w.conv
        /\ v.convBuf = w.convBuf /\ v.mapCount = m /\ v.useRead = w.useRead
        /\ v.dQ = w.dQ /\ v.open = w.open /\ v \in World
    BY DEF World
  <2>2. Sound(v)
    BY <1>4 DEF World, Sound, Steady
  <2> HIDE DEF v
  <2>3. Loose(v)
    BY <1>4, <2>1 DEF Steady, Loose, Fresh, Backed
  <2>4. MapsForRead(v)
    BY <1>4, <2>1 DEF Steady, MapsForRead, Unmapped
  <2>5. Keeps(w, v) /\ Spares(w, v, {})
    BY <2>1, <2>2 DEF Keeps, Spares, Used, World
  <2> QED BY <2>1, <2>2, <2>3, <2>4, <2>5 DEF Leaves, Steady, v
<1>5. CASE Mmap(t)
  <2>1. PICK i \in Frames, F \in Faults :
          LET a == EnsureConvertMmapBuf(dev, F)
          IN /\ dev.conv /\ ~dev.byRead /\ i < dev.noFrames
             /\ Atomic(t, "mmap", IF a.ok THEN [a EXCEPT !.mapCount[i] = @ + 1] ELSE a)
    BY <1>5 DEF Mmap
  <2> DEFINE a == EnsureConvertMmapBuf(dev, F)
             m == [a.mapCount EXCEPT ![i] = @ + 1]
  <2>2. Leaves(dev, a) /\ (a.ok => a.convBuf > 0)
    BY <1>2, EnsureConvertMmapBufLeaves, EnsureConvertMmapBufKeeps DEF Steady
  <2>3. Atomic(t, "mmap", IF a.ok THEN [a EXCEPT !.mapCount = m] ELSE a)
    BY <2>1
  <2>4. a.conv = dev.conv /\ a.byRead = dev.byRead /\ a.noFrames = dev.noFrames
    BY <1>2 DEF EnsureConvertMmapBuf, Ok, Fail, World
  <2> HIDE DEF a
  <2>5. a \in World /\ Steady(a)
    BY <2>2 DEF Leaves, Steady
  <2>6. m \in [Frames -> Nat]
    BY <2>5 DEF World
  <2>7. a.ok => i < a.convBuf
    BY <2>1, <2>2, <2>4, <2>5 DEF Steady, Sound, World, Frames
  <2>8. ~LaxInput /\ a.ok => \A j \in Frames : m[j] > 0 =>
          a.conv /\ ~a.byRead /\ j < a.convBuf /\ j < a.noFrames
    BY <2>1, <2>4, <2>5, <2>7 DEF Steady, Loose, Backed, World
  <2> HIDE DEF m
  <2>9. a.ok => Leaves(a, [a EXCEPT !.mapCount = m])
    BY <1>4, <2>5, <2>6, <2>8
  <2>10. a.ok => Leaves(dev, [a EXCEPT !.mapCount = m])
    BY <1>2, <2>2, <2>9, LeavesTransitive
  <2> QED BY <1>3, <2>2, <2>3, <2>10
<1>6. CASE Munmap(t)
  <2>1. PICK i \in Frames :
          /\ dev.mapCount[i] > 0
          /\ Atomic(t, "munmap", IF i < dev.noFrames
                                 THEN [dev EXCEPT !.mapCount[i] = @ - 1] ELSE dev)
    BY <1>6 DEF Munmap
  <2> DEFINE m == [dev.mapCount EXCEPT ![i] = @ - 1]
  <2>2. Atomic(t, "munmap", IF i < dev.noFrames
                            THEN [dev EXCEPT !.mapCount = m] ELSE dev)
    BY <2>1
  <2>3. m \in [Frames -> Nat]
    BY <1>2, <2>1 DEF World
  <2>4. \A j \in Frames : m[j] > 0 => dev.mapCount[j] > 0
    BY <1>2, <2>1 DEF World
  <2> HIDE DEF m
  <2>5. Leaves(dev, [dev EXCEPT !.mapCount = m])
    BY <1>2, <1>4, <2>3, <2>4 DEF Steady, Loose, Backed
  <2>6. Leaves(dev, dev)
    BY <1>2, ResultLeaves
  <2> QED BY <1>3, <2>2, <2>5, <2>6
<1> QED BY <1>5, <1>6

\* The application's mappings of the driver's own buffers, and the driver's
\* steps but for handing out a buffer.
LEMMA QuietMappings ==
  ASSUME IInv, IInv', Mappings,
         \/ \E t \in Threads : \/ MmapRaw(t) \/ MunmapRaw(t) \/ DqbufFails(t) \/ RelockRaw(t)
                               \/ \E outcome : KernelReads(t, outcome)
         \/ DriverFills
  PROVE  MappingsStep
<1>1. dev \in World /\ thr \in [Threads -> ThreadState]
  BY DEF IInv, TypeOK
<1>2. Same(dev, dev') /\ dev'.dQ = dev.dQ /\ dev'.open = dev.open
  <2>1. \/ dev' = dev
        \/ \E S : dev' = [dev EXCEPT !.dMap = S]
        \/ \E S : dev' = [dev EXCEPT !.held = S]
        \/ \E S : dev' = [dev EXCEPT !.dDone = S]
        \/ dev' = [dev EXCEPT !.dFio = TRUE]
        \/ \E n : dev' = [dev EXCEPT !.firstFrame = n, !.dFio = TRUE]
    <3>1. \A t \in Threads : MmapRaw(t) \/ MunmapRaw(t) => \E S : dev' = [dev EXCEPT !.dMap = S]
      BY DEF MmapRaw, MunmapRaw
    <3>2. \A t \in Threads : RelockRaw(t) => \E S : dev' = [dev EXCEPT !.held = S]
      BY DEF RelockRaw
    <3>3. \A t \in Threads : DqbufFails(t) => dev' = dev
      BY DEF DqbufFails
    <3>4. DriverFills => \E S : dev' = [dev EXCEPT !.dDone = S]
      BY DEF DriverFills
    <3>5. ASSUME NEW t \in Threads, NEW outcome, KernelReads(t, outcome)
          PROVE  \/ dev' = dev \/ dev' = [dev EXCEPT !.dFio = TRUE]
                 \/ \E n : dev' = [dev EXCEPT !.firstFrame = n, !.dFio = TRUE]
      <4> DEFINE n == IF dev.firstFrame > 0 THEN dev.firstFrame - 1 ELSE 0
      <4>1. \/ dev' = dev \/ dev' = [dev EXCEPT !.dFio = TRUE]
            \/ dev' = [dev EXCEPT !.firstFrame = n, !.dFio = TRUE]
        BY <3>5 DEF KernelReads, Counted
      <4> HIDE DEF n
      <4> QED BY <4>1
    <3> QED BY <3>1, <3>2, <3>3, <3>4, <3>5
  <2>2. ASSUME NEW S, \/ dev' = [dev EXCEPT !.dMap = S] \/ dev' = [dev EXCEPT !.held = S]
                      \/ dev' = [dev EXCEPT !.dDone = S]
        PROVE  Same(dev, dev') /\ dev'.dQ = dev.dQ /\ dev'.open = dev.open
    BY <1>1, <2>2 DEF Same, World
  <2>3. ASSUME NEW n, dev' = dev \/ dev' = [dev EXCEPT !.dFio = TRUE]
                      \/ dev' = [dev EXCEPT !.firstFrame = n, !.dFio = TRUE]
        PROVE  Same(dev, dev') /\ dev'.dQ = dev.dQ /\ dev'.open = dev.open
    <3>1. CASE dev' = dev
      BY <3>1 DEF Same
    <3>2. CASE dev' = [dev EXCEPT !.dFio = TRUE]
      BY <1>1, <3>2 DEF Same, World
    <3>3. CASE dev' = [dev EXCEPT !.firstFrame = n, !.dFio = TRUE]
      BY <1>1, <3>3 DEF Same, World
    <3> QED BY <2>3, <3>1, <3>2, <3>3
  <2> QED BY <2>1, <2>2, <2>3
<1>3. ASSUME NEW s \in Threads
      PROVE  thr'[s] = thr[s] \/ thr'[s].pc \notin {"dq", "got"}
  <2>1. CASE \E t \in Threads : MmapRaw(t) \/ MunmapRaw(t)
    BY <2>1 DEF MmapRaw, MunmapRaw
  <2>2. CASE DriverFills
    BY <2>2 DEF DriverFills
  <2>3. CASE \E t \in Threads : DqbufFails(t) \/ RelockRaw(t)
    BY <1>1, <2>3 DEF DqbufFails, RelockRaw, Idle
  <2>4. CASE \E t \in Threads : \E outcome : KernelReads(t, outcome)
    <3>1. PICK t \in Threads :
            /\ thr[t].pc = "kread"
            /\ thr' = [thr EXCEPT ![t] = Idle] \/ thr' = [thr EXCEPT ![t].tries = @ - 1]
      BY <2>4 DEF KernelReads
    <3>2. thr'[s] = thr[s] \/ thr'[s] = Idle \/ thr'[s].pc = "kread"
      BY <1>1, <3>1 DEF ThreadState
    <3> QED BY <3>2 DEF Idle
  <2> QED BY <2>1, <2>2, <2>3, <2>4
<1>4. CASE dev.open
  BY <1>2, <1>3, <1>4, SameMappings
<1>5. CASE ~dev.open
  <2>1. \A s \in Threads : thr'[s] = Idle /\ thr[s] = Idle
    BY <1>2, <1>5 DEF IInv
  <2> QED BY <1>2, <1>5, <2>1, ClosedMappings
<1> QED BY <1>4, <1>5

\* A call that goes on to wait in DQBUF finds every frame mapped.
LEMMA UnlockMappings ==
  ASSUME IInv, Mappings, dev.open, NEW w, Keeps(dev, w), Steady(w),
         NEW S, Spares(dev, w, S), NEW t \in Threads,
         NEW kind \in {"read", "ioctl", "raw"}, NEW tries, Unlock(t, kind, tries, w),
         OneUse /\ kind # "raw" =>
           Used(w) /\ \A i \in Frames : i < w.noFrames => w.ptr[i] = "cur",
         NoIoctls => \A s \in Threads : s # t /\ Converting(s) => thr[s].buf \notin S
  PROVE  MappingsStep
<1> DEFINE x == In("dq", kind, w.gen, tries)
<1>1. dev' = Ok(w) /\ thr' = [thr EXCEPT ![t] = x]
  BY DEF Unlock, Leave
<1>2. x.pc = "dq" /\ x.kind = kind
  BY DEF In
<1> HIDE DEF x
<1>3. /\ Ok(w).noFrames = w.noFrames /\ Ok(w).ctl = w.ctl /\ Ok(w).ptr = w.ptr
  BY DEF Steady, Ok, World
<1>4. OneUse => Watch(x, Ok(w))
  BY <1>2, <1>3 DEF Watch, Used
<1>5. ASSUME NEW s \in Threads
      PROVE  \/ thr'[s] = thr[s] /\ (NoIoctls /\ Converting(s) => thr[s].buf \notin S)
             \/ /\ thr'[s].pc # "got"
                /\ thr'[s].pc = "dq" => thr'[s].kind # "none"
                /\ OneUse => Watch(thr'[s], Ok(w))
  <2>1. thr'[s] = IF s = t THEN x ELSE thr[s]
    BY <1>1 DEF IInv, TypeOK
  <2> QED BY <1>2, <1>4, <2>1
<1> QED BY <1>1, <1>5, StepMappings

\* A thread that goes on without a buffer.
LEMMA GoneMappings ==
  ASSUME IInv, Mappings, dev.open, NEW w, Keeps(dev, w), Steady(w),
         NEW S, Spares(dev, w, S), dev' = Ok(w), NEW t \in Threads,
         thr'[t].pc \notin {"dq", "got"},
         \A s \in Threads : s # t => thr'[s] = thr[s],
         NoIoctls => \A s \in Threads : s # t /\ Converting(s) => thr[s].buf \notin S
  PROVE  MappingsStep
<1>1. Watch(thr'[t], Ok(w))
  BY DEF Watch
<1> QED BY <1>1, StepMappings

\* v4l2_read() until the lock is released, or kept across the driver's read().
LEMMA ReadMappings ==
  ASSUME IInv, Mappings, NEW t \in Threads, NEW F, Read(t, F)
  PROVE  MappingsStep
<1> DEFINE a == IF dev.ctl \/ dev.useRead THEN dev ELSE ActivateReadStream(dev, F)
           b == IF a.ok THEN a
                ELSE [a EXCEPT !.useRead = TRUE, !.firstFrame = IgnoreFirst]
           m == MapBuffers(b, F)
<1>1. /\ dev.open /\ "read" \in Calls[t]
      /\ \/ thr' = [thr EXCEPT ![t] = In("kread", "pass", 0, 0)] /\ UNCHANGED dev
         \/ Leave(b) /\ thr' = [thr EXCEPT ![t] = In("kread", "read", 0, MaxTries)]
         \/ ~b.useRead /\ m.ok /\ Unlock(t, "read", MaxTries, m)
         \/ Leave(m) /\ UNCHANGED thr
  BY DEF Read, Enter
<1>2. dev \in World /\ Steady(dev) /\ dev.ok /\ Sound(dev)
  BY <1>1 DEF Mappings, Steady, IInv, TypeOK
<1>3. ~NoReads /\ (OneUse => NoIoctls)
  BY <1>1 DEF NoReads, OneUse
<1>4. /\ Keeps(dev, a) /\ Loose(a) /\ a.gen = dev.gen
      /\ a.ok => a.ctl \/ a.useRead
      /\ dev.ctl \/ dev.useRead => a = dev
  <2>1. CASE dev.ctl \/ dev.useRead
    BY <1>2, <2>1, KeepsSelf DEF Steady
  <2>2. CASE ~(dev.ctl \/ dev.useRead)
    <3>1. Keeps(dev, ActivateReadStream(dev, F))
      BY <1>2, ActivateReadStreamKeeps
    <3>2. /\ Loose(ActivateReadStream(dev, F)) /\ ActivateReadStream(dev, F).gen = dev.gen
          /\ ActivateReadStream(dev, F).ok => ActivateReadStream(dev, F).ctl
      BY <1>2, <1>3, <2>2, ActivateMappings
    <3> QED BY <2>2, <3>1, <3>2
  <2> QED BY <2>1, <2>2
<1> HIDE DEF a
<1>5. Keeps(a, b) /\ Same(a, b) /\ (a.ok => b = a) /\ (~a.ok => b.useRead)
  <2> DEFINE v == [a EXCEPT !.useRead = TRUE, !.firstFrame = IgnoreFirst]
  <2>1. IgnoreFirst \in 0..IgnoreFirst
    OBVIOUS
  <2>2. v \in World /\ Sound(v) /\ v.open = a.open /\ Same(a, v) /\ v.useRead
    BY <1>4, <2>1 DEF Keeps, World, Sound, Same
  <2> HIDE DEF v
  <2>3. Keeps(a, v)
    BY <1>4, <2>2 DEF Keeps, World, Same
  <2>4. Keeps(a, a) /\ Same(a, a)
    BY <1>4, KeepsSelf DEF Keeps, Same
  <2> QED BY <2>2, <2>3, <2>4 DEF v
<1> HIDE DEF b
<1>6. b \in World /\ Keeps(dev, b) /\ (b.ctl \/ b.useRead)
  <2>1. Keeps(dev, b)
    BY <1>2, <1>4, <1>5, KeepsTransitive
  <2> QED BY <1>4, <1>5, <2>1 DEF Keeps
<1>7. Steady(b)
  <2>1. Loose(b)
    BY <1>4, <1>5 DEF Same, Loose, Fresh, Backed
  <2> QED BY <1>6, <2>1 DEF Steady, MapsForRead, Keeps
<1>8. Spares(dev, b, {})
  <2>1. CASE dev.ctl \/ dev.useRead
    <3>1. b = dev
      BY <1>2, <1>4, <1>5, <2>1
    <3> QED BY <1>2, <3>1, ResultLeaves DEF Leaves
  <2>2. CASE ~(dev.ctl \/ dev.useRead)
    BY <1>3, <1>4, <1>5, <2>2 DEF Same, Spares, Used
  <2> QED BY <2>1, <2>2
<1>9. Leaves(b, m) /\ (OneUse /\ m.ok => \A i \in Frames : i < m.noFrames => m.ptr[i] = "cur")
  BY <1>6, <1>7, MapBuffersLeaves
<1>10. m.ctl = b.ctl
  BY <1>6, MapBuffersFacts
<1> HIDE DEF m
<1>11. Leaves(dev, b) /\ Leaves(dev, m)
  <2>1. Leaves(dev, b)
    BY <1>6, <1>7, <1>8 DEF Leaves
  <2> QED BY <1>2, <1>9, <2>1, LeavesTransitive
<1>12. ASSUME NEW w, Leaves(dev, w), dev' = Ok(w), thr'[t].pc = "kread",
              \A s \in Threads : s # t => thr'[s] = thr[s]
       PROVE  MappingsStep
  <2>1. Keeps(dev, w) /\ Steady(w) /\ Spares(dev, w, {})
    BY <1>12 DEF Leaves
  <2> QED BY <1>1, <1>12, <2>1, GoneMappings
<1>13. CASE thr' = [thr EXCEPT ![t] = In("kread", "pass", 0, 0)] /\ UNCHANGED dev
  <2>1. Leaves(dev, dev) /\ dev' = Ok(dev)
    BY <1>2, <1>13, ResultLeaves, OkIsSelf
  <2>2. thr'[t].pc = "kread" /\ \A s \in Threads : s # t => thr'[s] = thr[s]
    BY <1>13 DEF In, IInv, TypeOK
  <2> QED BY <1>12, <1>13, <2>1, <2>2
<1>14. CASE Leave(b) /\ thr' = [thr EXCEPT ![t] = In("kread", "read", 0, MaxTries)]
  <2>1. thr'[t].pc = "kread" /\ \A s \in Threads : s # t => thr'[s] = thr[s]
    BY <1>14 DEF In, IInv, TypeOK
  <2> QED BY <1>11, <1>12, <1>14, <2>1 DEF Leave
<1>15. CASE ~b.useRead /\ m.ok /\ Unlock(t, "read", MaxTries, m)
  <2>1. OneUse => Used(m)
    BY <1>3, <1>6, <1>9, <1>10, <1>15 DEF Used, Leaves, Steady, Loose
  <2> QED BY <1>1, <1>9, <1>11, <1>15, <2>1, UnlockMappings DEF Leaves
<1>16. CASE Leave(m) /\ UNCHANGED thr
  BY <1>1, <1>11, <1>16, AtomicMappings DEF Leave
<1> QED BY <1>1, <1>13, <1>14, <1>15, <1>16

\* VIDIOC_DQBUF until the lock is released.
LEMMA DqbufMappings ==
  ASSUME IInv, Mappings, NEW t \in Threads, NEW F, Dqbuf(t, F)
  PROVE  MappingsStep
<1> DEFINE a == TakeBack(dev, F)
           b == EnsureConvertMmapBuf(a, F)
           m == MapBuffers(b, F)
           w == IF ~a.ok THEN a ELSE IF ~b.ok THEN b ELSE m
<1>1. /\ dev.open /\ "DQBUF" \in Calls[t]
      /\ \/ Unlock(t, "raw", 0, a)
         \/ a.ok /\ w.ok /\ Unlock(t, "ioctl", MaxTries, w)
         \/ Leave(w) /\ UNCHANGED thr
  BY DEF Dqbuf, Enter
<1>2. dev \in World /\ Steady(dev)
  BY <1>1 DEF Mappings, Steady
<1>3. ~NoIoctls
  BY <1>1 DEF NoIoctls, StreamIoctls
<1>4. Leaves(dev, a)
  BY <1>2, <1>3, TakeBackLeaves
<1> HIDE DEF a
<1>5. a \in World /\ Steady(a)
  BY <1>4 DEF Leaves, Steady
<1>6. Leaves(a, b) /\ (b.ok => b.convBuf > 0)
  BY <1>5, EnsureConvertMmapBufLeaves, EnsureConvertMmapBufKeeps DEF Steady
<1> HIDE DEF b
<1>7. b \in World /\ Steady(b) /\ Leaves(dev, b)
  BY <1>2, <1>4, <1>6, LeavesTransitive DEF Leaves, Steady
<1>8. Leaves(b, m) /\ (OneUse /\ m.ok => \A i \in Frames : i < m.noFrames => m.ptr[i] = "cur")
  BY <1>3, <1>7, MapBuffersLeaves
<1>9. m.noFrames = b.noFrames
  BY <1>7, MapBuffersFacts
<1> HIDE DEF m
<1>10. Leaves(dev, m)
  BY <1>2, <1>7, <1>8, LeavesTransitive
<1>11. Leaves(dev, w)
  BY <1>4, <1>7, <1>10
<1>12. CASE Unlock(t, "raw", 0, a)
  BY <1>1, <1>4, <1>12, UnlockMappings DEF Leaves
<1>13. CASE a.ok /\ w.ok /\ Unlock(t, "ioctl", MaxTries, w)
  <2>1. w = m /\ b.ok /\ m.ok
    BY <1>13
  <2>2. OneUse => Used(m)
    BY <1>3, <1>6, <1>7, <1>9, <2>1 DEF Used, OneUse, Steady, Loose
  <2> HIDE DEF w
  <2> QED BY <1>1, <1>8, <1>10, <1>13, <2>1, <2>2, UnlockMappings DEF Leaves
<1>14. CASE Leave(w) /\ UNCHANGED thr
  <2> HIDE DEF w
  <2> QED BY <1>1, <1>11, <1>14, AtomicMappings DEF Leave
<1> QED BY <1>1, <1>12, <1>13, <1>14

\* The driver hands out a buffer, which then nobody else has.
LEMMA DequeueMappings ==
  ASSUME IInv, IInv', Mappings, NEW t \in Threads, KernelDequeues(t)
  PROVE  MappingsStep
<1>1. PICK i \in dev.dDone :
        /\ dev' = [dev EXCEPT !.dQ = @ \ {i}, !.dDone = @ \ {i}]
        /\ thr' = [thr EXCEPT ![t].pc = "got", ![t].buf = i]
        /\ thr[t].pc = "dq"
  BY DEF KernelDequeues
<1>2. dev.open /\ dev \in World /\ Sound(dev) /\ thr \in [Threads -> ThreadState]
  BY <1>1 DEF IInv, TypeOK, Idle
<1>3. i \in dev.dQ /\ i \in Frames /\ i < dev.noFrames
  BY <1>2 DEF Sound, World, Upto
<1>4. Same(dev, dev') /\ dev'.dQ = dev.dQ \ {i}
  BY <1>1, <1>2 DEF Same, World
<1>5. Steady(dev') /\ Spares(dev, dev', {}) /\ dev' = Ok(dev') /\ dev' \in World
  <2>1. dev'.dQ \subseteq dev.dQ \cup {}
    BY <1>4
  <2> QED BY <1>2, <1>4, <2>1, SameStep DEF Steady
<1>6. /\ thr'[t].pc = "got" /\ thr'[t].buf = i
      /\ thr'[t].kind = thr[t].kind /\ thr'[t].gen = thr[t].gen
      /\ \A s \in Threads : s # t => thr'[s] = thr[s]
  BY <1>1, <1>2 DEF ThreadState
<1>7. ASSUME OneUse, NEW s \in Threads PROVE Watch(thr'[s], dev')
  <2>1. Watch(thr[s], dev)
    BY <1>7 DEF Mappings
  <2>2. CASE s # t
    <3>1. thr[s] \in ThreadState /\ Fits(thr[s], dev)
      BY <1>2 DEF IInv
    <3>2. Watch(thr[s], Ok(dev'))
      BY <1>2, <1>5, <1>7, <2>1, <3>1, WatchKept
    <3> QED BY <1>5, <1>6, <2>2, <3>2
  <2>3. CASE s = t
    BY <1>1, <1>3, <1>4, <1>6, <2>1, <2>3 DEF Watch, Same, Used
  <2> QED BY <2>2, <2>3
<1>8. ASSUME NEW s \in Threads, s # t, Converting(s)' PROVE Converting(s)
  BY <1>4, <1>6, <1>8 DEF Converting, Same
<1>9. ASSUME NoIoctls, NEW s \in Threads PROVE Owns(s)'
  <2>1. \A r \in Threads : r # t /\ Converting(r)' =>
          /\ thr'[r].buf = thr[r].buf /\ Converting(r)
          /\ thr[r].buf \notin dev.dQ
    BY <1>6, <1>8, <1>9 DEF Mappings, Owns
  <2>2. CASE s = t
    BY <1>3, <1>4, <1>6, <2>1, <2>2 DEF Owns
  <2>3. CASE s # t
    <3>1. Owns(s)
      BY <1>9 DEF Mappings
    <3> QED BY <1>3, <1>4, <1>6, <2>1, <2>3, <3>1 DEF Owns
  <2> QED BY <2>2, <2>3
<1>10. \A s \in Threads : thr'[s].pc \in {"dq", "got"} => thr'[s].kind # "none"
  BY <1>1, <1>6 DEF Mappings
<1>11. FormatSeen
  BY <1>4 DEF FormatSeen, Same
<1> QED BY <1>5, <1>7, <1>9, <1>10, <1>11 DEF Mappings, MappingsStep

\* Same is transitive, and the result does not matter.
LEMMA SameTransitive ==
  ASSUME NEW u, NEW v, NEW w, Same(u, v), Same(v, w)
  PROVE  Same(u, w)
  BY DEF Same

LEMMA SameOk ==
  ASSUME NEW w \in World
  PROVE  Same(w, Ok(w)) /\ Ok(w).dQ = w.dQ
  BY DEF Same, Ok, World

\* v4l2_dequeue_and_convert() has the lock again: it queues no buffer but its
\* own, and that only if its generation is the device's.
LEMMA RelockMappings ==
  ASSUME IInv, IInv', Mappings, NEW t \in Threads, NEW outcome, NEW F, Relock(t, outcome, F)
  PROVE  MappingsStep
<1> DEFINE th == thr[t]
           i  == th.buf
           w  == [dev EXCEPT !.queued = @ \ {i}]
           c  == Counted(w)
           q  == GiveBack(c, i, th.tries = 1, Judged(w, outcome), F)
           qr == QueueReadBuffer(c, i, F)
           h  == [c EXCEPT !.held = @ \cup {i}]
<1>1. /\ th.pc = "got" /\ th.kind # "raw"
      /\ \/ th.gen # dev.gen /\ Leave(w) /\ thr' = [thr EXCEPT ![t] = Idle]
         \/ th.gen = dev.gen /\ Unlock(t, th.kind, th.tries - 1, q)
         \/ /\ th.gen = dev.gen /\ (Leave(q) \/ Leave(qr) \/ Leave(h))
            /\ thr' = [thr EXCEPT ![t] = Idle]
  BY DEF Relock
<1>2. dev \in World /\ dev.open /\ Sound(dev) /\ th \in ThreadState /\ Fits(th, dev)
      /\ thr \in [Threads -> ThreadState]
  BY <1>1 DEF IInv, TypeOK, Idle
<1>3. th.kind \in {"read", "ioctl"}
  BY <1>1, <1>2 DEF Mappings, Fits, HasTries, ThreadState
<1> HIDE DEF th
<1>4. i \in Frames
  BY <1>2 DEF ThreadState
<1>5. Same(dev, w) /\ w.dQ = dev.dQ /\ w \in World
  BY <1>2 DEF Same, World
<1> HIDE DEF w
<1>6. Same(w, c) /\ c.dQ = w.dQ /\ c \in World
  <2> DEFINE n == IF w.firstFrame > 0 THEN w.firstFrame - 1 ELSE 0
  <2>1. n \in 0..IgnoreFirst /\ c = [w EXCEPT !.firstFrame = n]
    BY <1>5 DEF World, Counted
  <2> HIDE DEF n, c
  <2> QED BY <1>5, <2>1 DEF Same, World
<1> HIDE DEF c
<1>7. Same(c, qr) /\ qr.dQ \subseteq c.dQ \cup {i} /\ qr \in World
  <2>1. Ok(c) \in World /\ Fail(c) \in World
    BY <1>6 DEF Ok, Fail, World
  <2>2. ASSUME NEW Q, NEW D, NEW H, Q \in SUBSET Frames,
               D \in SUBSET Frames, H \in SUBSET Frames
        PROVE  [c EXCEPT !.ok = TRUE, !.queued = Q, !.dQ = D, !.held = H] \in World
    BY <1>6, <2>2 DEF World
  <2>3. /\ c.queued \cup {i} \in SUBSET Frames
        /\ c.dQ \cup {i} \in SUBSET Frames /\ c.held \ {i} \in SUBSET Frames
    BY <1>4, <1>6 DEF World
  <2>4. [c EXCEPT !.ok = TRUE, !.queued = @ \cup {i}, !.dQ = @ \cup {i},
                  !.held = @ \ {i}] \in World
    BY <2>2, <2>3
  <2>5. qr \in World
    BY <2>1, <2>4 DEF QueueReadBuffer
  <2> QED BY <1>4, <1>6, <2>5, QueueingSame
<1>8. Same(c, h) /\ h.dQ = c.dQ /\ h \in World
  BY <1>4, <1>6 DEF Same, World
<1>9. q \in {c, qr}
  BY DEF GiveBack
<1> HIDE DEF q, qr, h
<1>10. Same(c, q) /\ q.dQ \subseteq c.dQ \cup {i}
  <2>1. Same(c, c)
    BY DEF Same
  <2> QED BY <1>7, <1>9, <2>1
<1>11. ASSUME NEW x, x \in {q, qr, h}, dev' = Ok(x)
       PROVE  Same(dev, dev') /\ dev'.dQ \subseteq dev.dQ \cup {i}
  <2>1. Same(c, x) /\ x.dQ \subseteq c.dQ \cup {i}
    BY <1>7, <1>8, <1>10, <1>11
  <2>2. Same(dev, x)
    BY <1>5, <1>6, <2>1, SameTransitive
  <2>3. x \in World
    BY <1>6, <1>7, <1>8, <1>9, <1>11
  <2> QED BY <1>5, <1>6, <1>11, <2>1, <2>2, <2>3, SameOk, SameTransitive
<1>12. CASE th.gen # dev.gen /\ Leave(w) /\ thr' = [thr EXCEPT ![t] = Idle]
  <2>1. Same(dev, dev') /\ dev'.dQ = dev.dQ
    BY <1>5, <1>12, SameOk, SameTransitive DEF Leave
  <2>2. \A s \in Threads : thr'[s] = thr[s] \/ thr'[s].pc \notin {"dq", "got"}
    BY <1>2, <1>12 DEF Idle
  <2> QED BY <1>2, <2>1, <2>2, SameMappings
<1>13. ASSUME th.gen = dev.gen
       PROVE  NoIoctls => \A s \in Threads : s # t /\ Converting(s) => thr[s].buf \notin {i}
  <2>1. Converting(t)
    BY <1>1, <1>3, <1>13 DEF Converting, th
  <2> QED BY <2>1 DEF Mappings, Owns, th
<1>14. CASE /\ th.gen = dev.gen /\ (Leave(q) \/ Leave(qr) \/ Leave(h))
            /\ thr' = [thr EXCEPT ![t] = Idle]
  <2>1. Same(dev, dev') /\ dev'.dQ \subseteq dev.dQ \cup {i}
    BY <1>11, <1>14 DEF Leave
  <2>2. Keeps(dev, dev') /\ Steady(dev') /\ Spares(dev, dev', {i}) /\ dev' = Ok(dev')
    BY <1>2, <2>1, SameStep
  <2>3. thr'[t].pc \notin {"dq", "got"} /\ \A s \in Threads : s # t => thr'[s] = thr[s]
    BY <1>2, <1>14 DEF Idle
  <2> QED BY <1>2, <1>13, <1>14, <2>2, <2>3, GoneMappings
<1>15. CASE th.gen = dev.gen /\ Unlock(t, th.kind, th.tries - 1, q)
  <2>1. Same(dev, dev') /\ dev'.dQ \subseteq dev.dQ \cup {i}
    BY <1>11, <1>15 DEF Unlock, Leave
  <2>2. Keeps(dev, dev') /\ Steady(dev') /\ Spares(dev, dev', {i}) /\ dev' = Ok(dev')
    BY <1>2, <2>1, SameStep
  <2>3. /\ thr'[t].pc = "dq" /\ thr'[t].kind = th.kind
        /\ \A s \in Threads : s # t => thr'[s] = thr[s]
    BY <1>2, <1>15 DEF Unlock, In
  <2>4. OneUse => Watch(thr'[t], dev')
    <3>1. OneUse => Watch(th, dev)
      BY DEF Mappings, th
    <3> QED BY <1>1, <1>3, <1>15, <2>1, <2>3, <3>1 DEF Watch, Same, Used
  <2>5. \A s \in Threads :
           \/ thr'[s] = thr[s] /\ (NoIoctls /\ Converting(s) => thr[s].buf \notin {i})
           \/ /\ thr'[s].pc # "got"
              /\ thr'[s].pc = "dq" => thr'[s].kind # "none"
              /\ OneUse => Watch(thr'[s], Ok(dev'))
    <3> TAKE s \in Threads
    <3>1. CASE s = t
      <4>1. thr'[s].pc # "got" /\ thr'[s].kind # "none"
        BY <1>3, <2>3, <3>1
      <4> QED BY <2>2, <2>4, <3>1, <4>1
    <3>2. CASE s # t
      BY <1>13, <1>15, <2>3, <3>2
    <3> QED BY <3>1, <3>2
  <2> QED BY <1>2, <2>2, <2>5, StepMappings
<1> QED BY <1>1, <1>12, <1>14, <1>15

\* v4l2_fd_open() in the slot of a closed file, and the last v4l2_close().
LEMMA SlotMappings ==
  ASSUME IInv, Mappings, Open \/ \E t \in Threads : Close(t)
  PROVE  MappingsStep
<1>1. CASE Open
  <2>1. PICK c \in BOOLEAN : dev' = Opened(c, dev.gen)
    BY <1>1 DEF Open
  <2>2. thr' = thr /\ dev.gen \in Nat /\ \A t \in Threads : thr[t] = Idle
    BY <1>1 DEF Open, IInv, TypeOK, World
  <2>3. dev' \in World /\ Sound(dev')
    BY <2>1, <2>2, OpenedSound
  <2>4. Loose(dev') /\ MapsForRead(dev')
    BY <2>1 DEF Opened, Loose, Fresh, Backed, MapsForRead, Unmapped
  <2> QED BY <2>2, <2>3, <2>4, ClosedMappings DEF Steady
<1>2. ASSUME NEW t \in Threads, Close(t) PROVE MappingsStep
  <2> DEFINE u == UnmapBuffers(dev)
             v == [u EXCEPT
                     !.open = FALSE, !.convBuf = 0, !.dN = 0, !.dQ = {}, !.dDone = {},
                     !.dOn = FALSE, !.dFio = FALSE, !.dMap = {}, !.held = {}]
  <2>1. /\ dev' = Ok(v) /\ thr' = thr /\ dev.open
        /\ \A s \in Threads : thr[s] = Idle
    BY <1>2 DEF Close, Atomic, Enter, Leave
  <2>2. u \in World
    BY <2>1, UnmapKeeps DEF IInv, TypeOK, Keeps
  <2> HIDE DEF u
  <2>3. v.open = FALSE /\ v \in World
    <3>1. 0 \in 0..MaxFrames /\ {} \in SUBSET Frames
      OBVIOUS
    <3> QED BY <2>2, <3>1 DEF World
  <2> HIDE DEF v
  <2>4. Ok(v).open = FALSE
    BY <2>3 DEF Ok, World
  <2> QED BY <2>1, <2>4, ClosedMappings
<1> QED BY <1>1, <1>2

\* Mappings holds of a device that was just opened.
LEMMA InitMappings == Init => Mappings
<1> SUFFICES ASSUME Init PROVE Mappings
  OBVIOUS
<1>1. PICK c \in BOOLEAN : dev = Opened(c, 0)
  BY DEF Init
<1>2. dev \in World /\ Sound(dev)
  BY <1>1, OpenedSound
<1>3. Loose(dev) /\ MapsForRead(dev)
  BY <1>1 DEF Opened, Loose, Fresh, Backed, MapsForRead, Unmapped
<1>4. \A t \in Threads : thr[t] = Idle
  BY DEF Init
<1> QED BY <1>2, <1>3, <1>4 DEF Mappings, Steady, Watch, Owns, Converting, Idle

\* Every step of the library and of the driver keeps Mappings, and no change of
\* the format goes unnoticed.
LEMMA NextMappings == IInv /\ IInv' /\ Mappings /\ [Next]_vars => MappingsStep
<1> SUFFICES ASSUME IInv, IInv', Mappings, [Next]_vars PROVE MappingsStep
  OBVIOUS
<1>1. ASSUME NEW t \in Threads, Call(t) PROVE MappingsStep
  <2>1. ASSUME NEW F \in Faults, Read(t, F) \/ Dqbuf(t, F) PROVE MappingsStep
    BY <2>1, ReadMappings, DqbufMappings
  <2>2. CASE MmapRaw(t) \/ MunmapRaw(t)
    BY <2>2, QuietMappings
  <2>3. CASE Close(t)
    BY <2>3, SlotMappings
  <2> QED BY <1>1, <2>1, <2>2, <2>3, CallMappings, FakeMapMappings DEF Call
<1>2. ASSUME NEW t \in Threads, Kernel(t) \/ Resume(t) \/ RelockRaw(t) PROVE MappingsStep
  <2>1. ASSUME NEW outcome \in Outcomes, NEW F \in Faults, Relock(t, outcome, F)
        PROVE  MappingsStep
    BY <2>1, RelockMappings
  <2>2. ASSUME NEW outcome \in Outcomes, KernelReads(t, outcome) PROVE MappingsStep
    BY <2>2, QuietMappings
  <2>3. CASE DqbufFails(t) \/ RelockRaw(t)
    BY <2>3, QuietMappings
  <2> QED BY <1>2, <2>1, <2>2, <2>3, DequeueMappings DEF Kernel, Resume
<1>3. CASE DriverFills
  BY <1>3, QuietMappings
<1>4. CASE Open
  BY <1>4, SlotMappings
<1>5. CASE UNCHANGED vars
  BY <1>5 DEF vars, MappingsStep, FormatSeen, Mappings, Steady, Watch, Owns, Converting
<1> QED BY <1>1, <1>2, <1>3, <1>4, <1>5 DEF Next

\* For every driver and every application, the mappings are in order and every
\* waiting thread knows of what was changed under it.
THEOREM MappingsHold == Spec => []Mappings
<1>1. Init => IInv /\ Mappings
  BY InitIInv, InitMappings
<1>2. (IInv /\ Mappings) /\ [Next]_vars => (IInv /\ Mappings)'
  BY NextIInv, NextMappings DEF MappingsStep
<1> QED BY <1>1, <1>2, PTL DEF Spec

-----------------------------------------------------------------------------
(* What follows of it.                                                      *)

\* An application that does not mix read() with the streaming ioctls: however
\* many threads it has, a frame is converted from a mapping of the buffer the
\* driver filled.
THEOREM ConversionReadsMapped == ASSUME OneUse PROVE Spec => []ConvertReadsMapped
<1>1. IInv /\ Mappings => ConvertReadsMapped
  <2> SUFFICES ASSUME IInv, Mappings, NEW t \in Threads, Converting(t)
               PROVE  dev.ptr[thr[t].buf] = "cur"
    BY DEF ConvertReadsMapped
  <2>1. Watch(thr[t], dev) /\ thr[t].buf \in Frames
    BY DEF Mappings, IInv, TypeOK, ThreadState
  <2> QED BY <2>1 DEF Watch, Converting
<1> QED BY <1>1, IInvHolds, MappingsHold, PTL

\* An application that only read()s, from any number of threads: the camera
\* does not write a frame that one of them is converting.
THEOREM FrameOwned == ASSUME NoIoctls PROVE Spec => []FrameHasOneOwner
<1>1. Mappings => FrameHasOneOwner
  BY DEF Mappings, Owns, FrameHasOneOwner
<1> QED BY <1>1, MappingsHold, PTL

\* No pointer into an allocation that is gone: by such an application, or with
\* a driver that does not give up buffers that are mapped.
THEOREM MappingsFresh == ASSUME OneUse \/ ~Orphans PROVE Spec => []NoStaleMapping
<1>1. IInv /\ Mappings => NoStaleMapping
  BY DEF IInv, Mappings, Steady, Loose, Fresh, NoStaleMapping
<1> QED BY <1>1, IInvHolds, MappingsHold, PTL

\* What the application mapped has memory behind it, with a driver that keeps
\* the input while buffers are allocated.
THEOREM FakeMapsHaveMemory == ASSUME ~LaxInput PROVE Spec => []FakeMapsBacked
<1>1. Mappings => FakeMapsBacked
  BY DEF Mappings, Steady, Loose, Backed, FakeMapsBacked
<1> QED BY <1>1, MappingsHold, PTL

\* A change of the format under a thread that waits in DQBUF changes the
\* generation that thread compares: for such an application and such a driver.
THEOREM FormatChangeSeen == ASSUME OneUse, ~LaxInput PROVE Spec => FormatChangeIsSeen
<1>1. IInv /\ IInv' /\ Mappings /\ [Next]_vars =>
        [\A t \in Threads :
           thr[t].pc \in {"dq", "got"} /\ thr[t].kind \in {"read", "ioctl"}
             /\ thr[t].gen = dev.gen /\ dev'.conv # dev.conv
           => dev'.gen # dev.gen]_vars
  BY NextMappings DEF MappingsStep, FormatSeen
<1> QED BY <1>1, IInvHolds, MappingsHold, PTL DEF Spec, FormatChangeIsSeen
=============================================================================
