-------------------------- MODULE V4l2DevicesProofs --------------------------
(***************************************************************************)
(* Proofs about the device table: unless one of the Mishaps of V4l2Devices  *)
(* happens, devices[] is exact for any number of threads, descriptors and   *)
(* slots, however opens, dups and closes overlap otherwise.                 *)
(***************************************************************************)
EXTENDS V4l2Devices, FiniteSetTheorems, TLAPS

-----------------------------------------------------------------------------
(* The inductive invariant.                                                 *)

\* A thread that opens a device, or that frees it after the last close, has
\* the descriptor to itself; the others share it.
Owning == {"probe", "init", "used", "grow", "free", "unregister", "sysclose"}
Busy == Owning \cup {"dup", "close", "counting"}
InSlot == Busy \ {"probe", "sysclose"}

Owned(fd) == \E t \in Threads : thr[t].fd = fd /\ thr[t].pc \in Owning

\* A call that relies on its descriptor has a video device there.
OnVideo(t) ==
  thr[t].pc \in Busy => thr[t].fd \in Fds /\ file[thr[t].fd] = "video"

Alone(t) ==
  thr[t].pc \in Owning =>
    /\ refs[thr[t].fd] = 0
    /\ \A s \in Threads \ {t} : thr[s].fd = thr[t].fd => thr[s].pc \notin Busy

\* Where the call stands in devices[].
Placed(t) ==
  LET me == thr[t]
  IN  /\ me.pc \in InSlot => me.idx \in Slots /\ slot[me.idx].fd = me.fd
      /\ me.pc \in {"probe", "sysclose"} => \A i \in Slots : slot[i].fd # me.fd
      /\ me.pc = "probe" => me.val \in {0, 1}
      /\ me.pc \in {"init", "unregister"} => ~slot[me.idx].live
      /\ me.pc \in {"used", "grow"} => slot[me.idx].live /\ slot[me.idx].count = 1
      /\ me.pc = "grow" => me.idx >= used
      /\ me.pc = "free" => slot[me.idx].count = 0

\* The count a dup has read stays true until it writes.
DupExact(t) ==
  thr[t].pc = "dup" =>
    /\ refs[thr[t].fd] > 0
    /\ thr[t].val = slot[thr[t].idx].count /\ thr[t].val < MaxRefs
    /\ \A s \in Threads \ {t} :
         thr[s].fd = thr[t].fd => thr[s].pc \notin {"dup", "counting"}

CountExact(t) ==
  thr[t].pc = "counting" =>
    slot[thr[t].idx].lock = {t} /\ thr[t].val = slot[thr[t].idx].count

ThreadOK(t) == OnVideo(t) /\ Alone(t) /\ Placed(t) /\ DupExact(t) /\ CountExact(t)

\* What is referred to is open, and what is open is referred to.
FileOK(fd) ==
  /\ refs[fd] > 0 => /\ file[fd] # "none"
                     /\ file[fd] = "video" => \E i \in Slots : slot[i].fd = fd
  /\ file[fd] = "plain" => refs[fd] = 1
  /\ file[fd] # "none" =>
       refs[fd] > 0 \/ \E t \in Threads : thr[t].fd = fd /\ thr[t].pc \in Busy

\* A slot that is neither being filled nor being given up.
Settled(i) ==
  /\ i < used /\ slot[i].live /\ slot[i].count > 0
  /\ slot[i].count = refs[slot[i].fd] + Cardinality(Closing(slot[i].fd))

SlotOK(i) ==
  /\ slot[i].fd = NoFd => ~slot[i].live
  /\ slot[i].fd # NoFd =>
       file[slot[i].fd] = "video" /\ (Owned(slot[i].fd) \/ Settled(i))

\* Only one open at a time has devices_used to write.
OneGrower == \A s, t \in Growing : s = t

Inv ==
  /\ TypeOK
  /\ \A t \in Threads : ThreadOK(t)
  /\ \A fd \in Fds : FileOK(fd)
  /\ \A i \in Slots : SlotOK(i)
  /\ OneSlotPerFd
  /\ OneGrower

-----------------------------------------------------------------------------
(* Facts about records, slots and counts.                                   *)

\* What a step of thread t does to thr.
LEMMA Became ==
  ASSUME TypeOK, NEW t \in Threads, NEW p, NEW f, NEW i, NEW v, Become(t, p, f, i, v)
  PROVE  /\ thr'[t].pc = p /\ thr'[t].fd = f /\ thr'[t].idx = i /\ thr'[t].val = v
         /\ \A s \in Threads \ {t} : thr'[s] = thr[s]
  BY DEF TypeOK, Become

LEMMA Went ==
  ASSUME TypeOK, NEW t \in Threads, NEW p, Goto(t, p)
  PROVE  /\ thr'[t].pc = p /\ thr'[t].fd = thr[t].fd
         /\ thr'[t].idx = thr[t].idx /\ thr'[t].val = thr[t].val
         /\ \A s \in Threads \ {t} : thr'[s] = thr[s]
  BY DEF TypeOK, Goto

LEMMA Returned ==
  ASSUME TypeOK, NEW t \in Threads, Return(t)
  PROVE  /\ thr'[t].pc = "idle" /\ thr'[t].fd = NoFd
         /\ \A s \in Threads \ {t} : thr'[s] = thr[s]
  BY DEF TypeOK, Return, Idle

LEMMA ClosingFinite == \A fd : IsFiniteSet(Closing(fd)) /\ Cardinality(Closing(fd)) \in Nat
<1> TAKE fd
<1>1. Closing(fd) \in SUBSET Threads
  BY DEF Closing
<1> QED BY <1>1, FS_Subset, FS_CardinalityType, DevicesAssumption

\* Closes are counted for the descriptor they close only.
LEMMA ClosingUnchanged ==
  ASSUME NEW fd, \A s \in Threads :
           (thr'[s].fd = fd /\ thr'[s].pc \in {"close", "counting"})
             <=> (thr[s].fd = fd /\ thr[s].pc \in {"close", "counting"})
  PROVE  Closing(fd)' = Closing(fd)
  BY DEF Closing

-----------------------------------------------------------------------------
(* A step of thread t concerns one descriptor f and its slot: everything    *)
(* else stays as it was.                                                    *)

Local(t, f) ==
  /\ \A s \in Threads \ {t} : thr'[s] = thr[s]
  /\ thr[t].pc \in Busy => thr[t].fd = f
  /\ thr'[t].pc \in Busy => thr'[t].fd = f
  /\ \A g \in Fds \ {f} : file'[g] = file[g] /\ refs'[g] = refs[g]
  /\ \A i \in Slots : slot'[i] = slot[i] \/ (/\ slot[i].fd \in {f, NoFd}
                                             /\ slot'[i].fd \in {f, NoFd})
  /\ used' = used \/ (used' > used /\ \A s \in Threads \ {t} : thr[s].pc # "grow")

LEMMA ElsewhereThreads ==
  ASSUME Inv, TypeOK', NEW t \in Threads, NEW f \in Fds, Local(t, f),
         NEW s \in Threads \ {t}, thr[s].fd # f \/ thr[s].pc \notin Busy
  PROVE  ThreadOK(s)'
<1>1. thr'[s] = thr[s]
  BY DEF Local
<1>2. CASE thr[s].pc \notin Busy
  BY <1>1, <1>2 DEF ThreadOK, OnVideo, Alone, Placed, DupExact, CountExact, Busy, InSlot, Owning
<1>3. CASE thr[s].pc \in Busy /\ thr[s].fd # f
  <2> DEFINE g == thr[s].fd
  <2>1. ThreadOK(s) /\ g \in Fds \ {f} /\ g # NoFd
    BY <1>3, DevicesAssumption DEF Inv, ThreadOK, OnVideo
  <2>2. file'[g] = file[g] /\ refs'[g] = refs[g]
    BY <2>1 DEF Local
  <2>3. thr[s].pc \in InSlot => thr[s].idx \in Slots /\ slot'[thr[s].idx] = slot[thr[s].idx]
    BY <2>1 DEF Local, ThreadOK, Placed
  <2>4. OnVideo(s)'
    BY <1>1, <2>1, <2>2 DEF OnVideo, ThreadOK
  <2>5. Alone(s)'
    BY <1>1, <1>3, <2>1, <2>2 DEF Alone, ThreadOK, Local
  <2>6. Placed(s)'
    <3>1. thr[s].pc = "grow" => used' = used
      BY DEF Local
    <3>2. \A i \in Slots : slot[i].fd # g => slot'[i].fd # g
      BY <2>1 DEF Local
    <3>3. Placed(s)
      BY <2>1 DEF ThreadOK
    <3> QED BY <1>1, <2>3, <3>1, <3>2, <3>3 DEF Placed, InSlot, Busy, Owning
  <2>7. DupExact(s)'
    BY <1>1, <2>1, <2>2, <2>3 DEF DupExact, ThreadOK, Local, InSlot, Busy
  <2>8. CountExact(s)'
    BY <1>1, <2>1, <2>2, <2>3 DEF CountExact, ThreadOK, InSlot, Busy
  <2> QED BY <2>4, <2>5, <2>6, <2>7, <2>8 DEF ThreadOK
<1> QED BY <1>2, <1>3

LEMMA ElsewhereFiles ==
  ASSUME Inv, TypeOK', NEW t \in Threads, NEW f \in Fds, Local(t, f), NEW g \in Fds \ {f}
  PROVE  FileOK(g)'
<1>1. FileOK(g) /\ file'[g] = file[g] /\ refs'[g] = refs[g] /\ g # NoFd
  BY DevicesAssumption DEF Inv, Local
<1>2. \A i \in Slots : slot[i].fd = g => slot'[i].fd = g
  BY <1>1 DEF Local
<1>3. \A s \in Threads : thr[s].fd = g /\ thr[s].pc \in Busy => thr'[s] = thr[s]
  BY DEF Local
<1> QED BY <1>1, <1>2, <1>3 DEF FileOK

LEMMA ElsewhereSlots ==
  ASSUME Inv, TypeOK', NEW t \in Threads, NEW f \in Fds, Local(t, f),
         NEW i \in Slots, slot'[i] = slot[i], slot[i].fd # f
  PROVE  SlotOK(i)'
<1>0. PICK g : g = slot[i].fd
  OBVIOUS
<1>1. SlotOK(i) /\ slot'[i].fd = g
  BY <1>0 DEF Inv
<1>2. CASE g = NoFd
  BY <1>0, <1>1, <1>2 DEF SlotOK
<1>3. CASE g # NoFd
  <2>1. g \in Fds \ {f}
    BY <1>0, <1>3 DEF Inv, TypeOK
  <2>2. file'[g] = file[g] /\ refs'[g] = refs[g]
    BY <2>1 DEF Local
  <2>3. \A s \in Threads : thr[s].fd = g /\ thr[s].pc \in Busy => thr'[s] = thr[s]
    BY <2>1 DEF Local
  <2>4. \A s \in Threads : thr'[s].fd = g /\ thr'[s].pc \in Busy => thr'[s] = thr[s]
    BY <2>1 DEF Local
  <2>5. Closing(g)' = Closing(g)
    BY <2>3, <2>4, ClosingUnchanged DEF Busy
  <2>6. Owned(g) => Owned(g)'
    BY <2>3 DEF Owned, Busy
  <2>7. Settled(i) => Settled(i)'
    <3>1. used \in Nat /\ used' \in Nat /\ used' >= used
      BY DEF Inv, TypeOK, Local
    <3>2. Closing(slot[i].fd) = Closing(g) /\ Closing(slot[i].fd)' = Closing(g)'
      BY <1>0, <1>1
    <3> QED BY <1>0, <1>1, <2>2, <2>5, <3>1, <3>2 DEF Settled, Slots
  <2> QED BY <1>0, <1>1, <1>3, <2>2, <2>6, <2>7 DEF SlotOK
<1> QED BY <1>2, <1>3

\* What is left to show of a step.
LEMMA Here ==
  ASSUME Inv, TypeOK', NEW t \in Threads, NEW f \in Fds, Local(t, f),
         \A s \in Threads : s = t \/ (thr[s].fd = f /\ thr[s].pc \in Busy) => ThreadOK(s)',
         FileOK(f)',
         \A i \in Slots : slot[i].fd = f \/ slot'[i] # slot[i] => SlotOK(i)',
         OneSlotPerFd', OneGrower'
  PROVE  Inv'
<1>1. \A s \in Threads : ThreadOK(s)'
  BY ElsewhereThreads
<1>2. \A g \in Fds : FileOK(g)'
  BY ElsewhereFiles
<1>3. \A i \in Slots : SlotOK(i)'
  BY ElsewhereSlots
<1> QED BY <1>1, <1>2, <1>3 DEF Inv, ThreadOK

\* As long as no slot changes its descriptor, each has one slot.
LEMMA SlotsKept ==
  ASSUME Inv, \A i \in Slots : slot'[i].fd = slot[i].fd
  PROVE  OneSlotPerFd'
  BY DEF Inv, OneSlotPerFd, Slots

\* Nor are there two threads about to write devices_used when none starts to.
LEMMA GrowersKept ==
  ASSUME Inv, \A s \in Threads : thr'[s].pc = "grow" => thr[s].pc = "grow"
  PROVE  OneGrower'
  BY DEF Inv, OneGrower, Growing, At

LEMMA OpenFileStep ==
  ASSUME Inv, NEW t \in Threads, NEW f \in Fds, OpenFile(t, f)
  PROVE  Inv'
<1>1. /\ file[f] = "none" /\ file' = [file EXCEPT ![f] = "video"]
      /\ refs' = refs /\ slot' = slot /\ used' = used
      /\ thr[t].pc = "idle" /\ Become(t, "probe", f, NoSlot, 0)
  BY DEF OpenFile, Begins, At
<1>2. /\ thr'[t].pc = "probe" /\ thr'[t].fd = f /\ thr'[t].val = 0
      /\ \A s \in Threads \ {t} : thr'[s] = thr[s]
  BY <1>1, Became DEF Inv
<1>3. TypeOK'
  <2>1. file' \in [Fds -> {"none", "video", "plain"}]
    BY <1>1 DEF Inv, TypeOK
  <2>2. thr' \in [Threads -> [pc : PCs, fd : Fds \cup {NoFd},
                             idx : Slots \cup {NoSlot}, val : 0..MaxRefs]]
    BY <1>1, DevicesAssumption DEF Inv, TypeOK, Become, PCs
  <2> QED BY <1>1, <2>1, <2>2 DEF Inv, TypeOK
<1>4. Local(t, f)
  BY <1>1, <1>2 DEF Local, Busy, Owning, Inv, TypeOK
<1>5. /\ \A i \in Slots : slot[i].fd # f
      /\ \A s \in Threads : thr[s].fd = f => thr[s].pc \notin Busy
      /\ refs[f] = 0
  <2>1. f # NoFd /\ refs[f] \in Nat /\ FileOK(f)
    BY DevicesAssumption DEF Inv, TypeOK
  <2> QED BY <1>1, <2>1 DEF Inv, SlotOK, ThreadOK, OnVideo, FileOK
<1>6. ThreadOK(t)'
  BY <1>1, <1>2, <1>5 DEF ThreadOK, OnVideo, Alone, Placed, DupExact, CountExact,
                          Busy, InSlot, Owning, Inv, TypeOK
<1>7. FileOK(f)'
  BY <1>1, <1>2, <1>5 DEF FileOK, Busy, Owning, Inv, TypeOK
<1>8. OneSlotPerFd' 
  BY <1>1, SlotsKept
<1>9. OneGrower'
  BY <1>1, <1>2, GrowersKept
<1> QED BY <1>1, <1>3, <1>4, <1>5, <1>6, <1>7, <1>8, <1>9, Here

\* A descriptor that the application gives to libv4l2 is nobody else's.
LEMMA FdOpenStep ==
  ASSUME Inv, "twice" \notin Mishaps, NEW t \in Threads, NEW f \in Fds, FdOpen(t, f)
  PROVE  Inv'
<1>1. /\ file[f] = "plain" /\ file' = [file EXCEPT ![f] = "video"]
      /\ refs' = [refs EXCEPT ![f] = 0] /\ slot' = slot /\ used' = used
      /\ thr[t].pc = "idle" /\ Become(t, "probe", f, NoSlot, 1)
  BY DEF FdOpen, Begins, At
<1>2. /\ thr'[t].pc = "probe" /\ thr'[t].fd = f /\ thr'[t].val = 1
      /\ \A s \in Threads \ {t} : thr'[s] = thr[s]
  BY <1>1, Became DEF Inv
<1>3. TypeOK'
  <2>1. file' \in [Fds -> {"none", "video", "plain"}]
    BY <1>1 DEF Inv, TypeOK
  <2>2. thr' \in [Threads -> [pc : PCs, fd : Fds \cup {NoFd},
                             idx : Slots \cup {NoSlot}, val : 0..MaxRefs]]
    BY <1>1, DevicesAssumption DEF Inv, TypeOK, Become, PCs
  <2> QED BY <1>1, <2>1, <2>2 DEF Inv, TypeOK
<1>4. Local(t, f)
  BY <1>1, <1>2 DEF Local, Busy, Owning, Inv, TypeOK
<1>5. /\ \A i \in Slots : slot[i].fd # f
      /\ \A s \in Threads : thr[s].fd = f => thr[s].pc \notin Busy
      /\ refs'[f] = 0
  <2>1. f # NoFd /\ refs'[f] = 0
    BY <1>1, DevicesAssumption DEF Inv, TypeOK
  <2>2. \A i \in Slots : slot[i].fd # f
    BY <1>1, <2>1 DEF Inv, SlotOK
  <2>3. \A s \in Threads : thr[s].fd = f => thr[s].pc \notin Busy
    BY <1>1 DEF Inv, ThreadOK, OnVideo
  <2> QED BY <2>1, <2>2, <2>3
<1>6. ThreadOK(t)'
  BY <1>1, <1>2, <1>5 DEF ThreadOK, OnVideo, Alone, Placed, DupExact, CountExact,
                          Busy, InSlot, Owning, Inv, TypeOK
<1>7. FileOK(f)'
  BY <1>1, <1>2, <1>5 DEF FileOK, Busy, Owning, Inv, TypeOK
<1>8. OneSlotPerFd' 
  BY <1>1, SlotsKept
<1>9. OneGrower'
  BY <1>1, <1>2, GrowersKept
<1> QED BY <1>1, <1>3, <1>4, <1>5, <1>6, <1>7, <1>8, <1>9, Here

\* Both ways to fail leave the descriptor as it was before the call.
LEMMA OpenGivesUp ==
  ASSUME Inv, NEW t \in Threads, ProbeFails(t) \/ TableFull(t)
  PROVE  Inv'
<1>0. PICK f : f = thr[t].fd
  OBVIOUS
<1>1. /\ thr[t].pc = "probe" /\ Return(t)
      /\ refs' = [refs EXCEPT ![f] = thr[t].val]
      /\ file' = [file EXCEPT ![f] =
                    IF thr[t].val = 0 THEN "none"
                    ELSE IF \E i \in Slots : slot[i].fd = f THEN "video" ELSE "plain"]
      /\ slot' = slot /\ used' = used
  BY <1>0 DEF ProbeFails, TableFull, GiveUp, At
<1>2. /\ thr'[t].pc = "idle" /\ thr'[t].fd = NoFd
      /\ \A s \in Threads \ {t} : thr'[s] = thr[s]
  BY <1>1, Returned DEF Inv
<1>3. /\ f \in Fds /\ refs[f] = 0 /\ \A i \in Slots : slot[i].fd # f
      /\ \A s \in Threads \ {t} : thr[s].fd = f => thr[s].pc \notin Busy
      /\ thr[t].val \in {0, 1}
  BY <1>0, <1>1 DEF Inv, ThreadOK, OnVideo, Alone, Placed, Busy, Owning
<1>10. /\ refs'[f] = thr[t].val /\ refs' \in [Fds -> Nat]
       /\ file'[f] = IF thr[t].val = 0 THEN "none" ELSE "plain"
  BY <1>1, <1>3 DEF Inv, TypeOK
<1>4. TypeOK'
  <2>1. file' \in [Fds -> {"none", "video", "plain"}]
    BY <1>1, <1>3 DEF Inv, TypeOK
  <2>2. thr' \in [Threads -> [pc : PCs, fd : Fds \cup {NoFd},
                             idx : Slots \cup {NoSlot}, val : 0..MaxRefs]]
    BY <1>1, DevicesAssumption DEF Inv, TypeOK, Return, Idle, PCs
  <2> QED BY <1>1, <1>10, <2>1, <2>2 DEF Inv, TypeOK
<1>5. Local(t, f)
  BY <1>0, <1>1, <1>2 DEF Local, Busy, Owning, Inv, TypeOK
<1>6. ThreadOK(t)'
  BY <1>2 DEF ThreadOK, OnVideo, Alone, Placed, DupExact, CountExact, Busy, InSlot, Owning
<1>7. FileOK(f)'
  BY <1>3, <1>10 DEF FileOK
<1>8. OneSlotPerFd'
  BY <1>1, SlotsKept
<1>9. OneGrower'
  BY <1>2, GrowersKept
<1> QED BY <1>1, <1>3, <1>4, <1>5, <1>6, <1>7, <1>8, <1>9, Here

\* v4l2_fd_open() takes a slot, fills it in, and lets it be found.
LEMMA RegisterStep == ASSUME Inv, NEW t \in Threads, Register(t) PROVE Inv'
<1>0. PICK f : f = thr[t].fd
  OBVIOUS
<1>1. PICK i \in Slots :
        /\ thr[t].pc = "probe" /\ slot[i].fd = NoFd
        /\ slot' = [slot EXCEPT ![i].fd = f]
        /\ Become(t, "init", f, i, 0)
        /\ file' = file /\ refs' = refs /\ used' = used
  BY <1>0 DEF Register, At
<1>2. /\ thr'[t].pc = "init" /\ thr'[t].fd = f /\ thr'[t].idx = i
      /\ \A s \in Threads \ {t} : thr'[s] = thr[s]
  BY <1>1, Became DEF Inv
<1>3. /\ f \in Fds /\ f # NoFd /\ refs[f] = 0 /\ file[f] = "video"
      /\ \A j \in Slots : slot[j].fd # f
      /\ \A s \in Threads \ {t} : thr[s].fd = f => thr[s].pc \notin Busy
  BY <1>0, <1>1, DevicesAssumption
     DEF Inv, ThreadOK, OnVideo, Alone, Placed, Busy, Owning
<1>4. /\ slot'[i].fd = f /\ slot'[i].live = slot[i].live
      /\ \A j \in Slots \ {i} : slot'[j] = slot[j]
  BY <1>1 DEF Inv, TypeOK
<1>5. TypeOK'
  <2>1. slot' \in [Slots -> [fd : Fds \cup {NoFd}, count : 0..MaxRefs, live : BOOLEAN,
                            lock : SUBSET Threads]]
    <3>1. [slot[i] EXCEPT !.fd = f] \in [fd : Fds \cup {NoFd}, count : 0..MaxRefs,
                                         live : BOOLEAN, lock : SUBSET Threads]
      <4>1. slot[i] \in [fd : Fds \cup {NoFd}, count : 0..MaxRefs, live : BOOLEAN,
                         lock : SUBSET Threads]
        BY DEF Inv, TypeOK
      <4>2. f \in Fds
        BY <1>3
      <4> QED BY <4>1, <4>2
    <3>2. slot' = [slot EXCEPT ![i] = [slot[i] EXCEPT !.fd = f]]
      BY <1>1
    <3> QED BY <3>1, <3>2 DEF Inv, TypeOK
  <2>2. thr' \in [Threads -> [pc : PCs, fd : Fds \cup {NoFd},
                             idx : Slots \cup {NoSlot}, val : 0..MaxRefs]]
    BY <1>1, <1>3, DevicesAssumption DEF Inv, TypeOK, Become, PCs
  <2> QED BY <1>1, <2>1, <2>2 DEF Inv, TypeOK
<1>6. Local(t, f)
  BY <1>0, <1>1, <1>2, <1>4 DEF Local, Busy, Owning, Inv, TypeOK
<1>7. ~slot[i].live
  BY <1>1 DEF Inv, SlotOK
<1>8. ThreadOK(t)'
  BY <1>1, <1>2, <1>3, <1>4, <1>7 DEF ThreadOK, OnVideo, Alone, Placed, DupExact, CountExact,
                                Busy, InSlot, Owning
<1>9. FileOK(f)'
  BY <1>1, <1>2, <1>3 DEF FileOK, Busy, Owning
<1>10. SlotOK(i)'
  BY <1>1, <1>2, <1>3, <1>4 DEF SlotOK, Owned, Owning
<1>11. OneSlotPerFd'
  BY <1>3, <1>4 DEF Inv, OneSlotPerFd, Slots
<1>12. OneGrower'
  BY <1>1, <1>2, GrowersKept
<1> QED BY <1>3, <1>4, <1>5, <1>6, <1>8, <1>9, <1>10, <1>11, <1>12, Here

LEMMA InitSlotStep == ASSUME Inv, NEW t \in Threads, InitSlot(t) PROVE Inv'
<1>0. PICK f, i : f = thr[t].fd /\ i = thr[t].idx
  OBVIOUS
<1>1. /\ thr[t].pc = "init" /\ Goto(t, "used")
      /\ slot' = [slot EXCEPT ![i] = [fd |-> f, count |-> 1, live |-> TRUE, lock |-> {}]]
      /\ file' = file /\ refs' = refs /\ used' = used
  BY <1>0 DEF InitSlot, At
<1>2. /\ thr'[t].pc = "used" /\ thr'[t].fd = f /\ thr'[t].idx = i
      /\ \A s \in Threads \ {t} : thr'[s] = thr[s]
  BY <1>0, <1>1, Went DEF Inv
<1>3. /\ f \in Fds /\ f # NoFd /\ refs[f] = 0 /\ file[f] = "video"
      /\ i \in Slots /\ slot[i].fd = f
      /\ \A s \in Threads \ {t} : thr[s].fd = f => thr[s].pc \notin Busy
  BY <1>0, <1>1, DevicesAssumption
     DEF Inv, ThreadOK, OnVideo, Alone, Placed, Busy, Owning, InSlot
<1>4. /\ slot'[i].fd = f /\ slot'[i].live /\ slot'[i].count = 1
      /\ \A j \in Slots \ {i} : slot'[j] = slot[j]
  BY <1>1, <1>3 DEF Inv, TypeOK
<1>5. TypeOK'
  <2>1. slot' \in [Slots -> [fd : Fds \cup {NoFd}, count : 0..MaxRefs, live : BOOLEAN,
                            lock : SUBSET Threads]]
    BY <1>1, <1>3, DevicesAssumption DEF Inv, TypeOK
  <2>2. thr' \in [Threads -> [pc : PCs, fd : Fds \cup {NoFd},
                             idx : Slots \cup {NoSlot}, val : 0..MaxRefs]]
    BY <1>1 DEF Inv, TypeOK, Goto, PCs
  <2> QED BY <1>1, <2>1, <2>2 DEF Inv, TypeOK
<1>6. Local(t, f)
  BY <1>0, <1>1, <1>2, <1>3, <1>4 DEF Local, Busy, Owning, Inv, TypeOK
<1>7. ThreadOK(t)'
  BY <1>1, <1>2, <1>3, <1>4 DEF ThreadOK, OnVideo, Alone, Placed, DupExact, CountExact,
                                Busy, InSlot, Owning
<1>8. FileOK(f)'
  BY <1>1, <1>2, <1>3 DEF FileOK, Busy, Owning
<1>9. SlotOK(i)'
  BY <1>1, <1>2, <1>3, <1>4 DEF SlotOK, Owned, Owning
<1>10. OneSlotPerFd'
  BY <1>3, <1>4, SlotsKept
<1>11. OneGrower'
  BY <1>1, <1>2, GrowersKept
<1>12. \A j \in Slots : slot[j].fd = f => j = i
  BY <1>3 DEF Inv, OneSlotPerFd
<1> QED BY <1>3, <1>4, <1>5, <1>6, <1>7, <1>8, <1>9, <1>10, <1>11, <1>12, Here

\* v4l2_open() returns: the slot is below devices_used and has its reference.
LEMMA OpenedStep ==
  ASSUME Inv, NEW t \in Threads, Opened(t),
         \/ thr[t].pc = "used" /\ thr[t].idx < used /\ used' = used
         \/ thr[t].pc = "grow" /\ used' = thr[t].idx + 1
  PROVE  Inv'
<1>0. PICK f, i : f = thr[t].fd /\ i = thr[t].idx
  OBVIOUS
<1>1. /\ thr[t].pc \in {"used", "grow"} /\ Return(t)
      /\ refs' = [refs EXCEPT ![f] = 1]
      /\ slot' = slot /\ file' = file
  BY <1>0 DEF Opened
<1>2. /\ thr'[t].pc = "idle" /\ thr'[t].fd = NoFd
      /\ \A s \in Threads \ {t} : thr'[s] = thr[s]
  BY <1>0, <1>1, Returned DEF Inv
<1>3. /\ f \in Fds /\ f # NoFd /\ refs[f] = 0 /\ file[f] = "video"
      /\ i \in Slots /\ slot[i].fd = f /\ slot[i].live /\ slot[i].count = 1
      /\ \A s \in Threads \ {t} : thr[s].fd = f => thr[s].pc \notin Busy
  BY <1>0, <1>1, DevicesAssumption
     DEF Inv, ThreadOK, OnVideo, Alone, Placed, Busy, Owning, InSlot
<1>4. i < used' /\ used' \in 0 .. MaxDevices /\ (used' = used \/ used' > used)
  BY <1>0, <1>3, DevicesAssumption DEF Inv, TypeOK, Slots, ThreadOK, Placed
<1>5. TypeOK'
  <2>1. refs' \in [Fds -> Nat]
    BY <1>1, <1>3 DEF Inv, TypeOK
  <2>2. thr' \in [Threads -> [pc : PCs, fd : Fds \cup {NoFd},
                             idx : Slots \cup {NoSlot}, val : 0..MaxRefs]]
    BY <1>1, DevicesAssumption DEF Inv, TypeOK, Return, Idle, PCs
  <2> QED BY <1>1, <1>4, <2>1, <2>2 DEF Inv, TypeOK
<1>6. Local(t, f)
  <2>1. used' > used => \A s \in Threads \ {t} : thr[s].pc # "grow"
    BY <1>4 DEF Inv, OneGrower, Growing, At
  <2> QED BY <1>0, <1>1, <1>2, <1>3, <1>4, <2>1 DEF Local, Busy, Owning, Inv, TypeOK
<1>7. ThreadOK(t)'
  BY <1>2 DEF ThreadOK, OnVideo, Alone, Placed, DupExact, CountExact, Busy, InSlot, Owning
<1>8. FileOK(f)' /\ refs'[f] = 1
  BY <1>1, <1>2, <1>3 DEF FileOK, Busy, Owning, Inv, TypeOK
<1>9. SlotOK(i)'
  <2>1. Closing(f)' = {}
    BY <1>1, <1>2, <1>3 DEF Closing, Busy
  <2>2. Closing(slot[i].fd)' = Closing(f)'
    BY <1>1, <1>3
  <2> QED BY <1>1, <1>3, <1>4, <1>8, <2>1, <2>2, FS_EmptySet DEF SlotOK, Settled
<1>10. OneSlotPerFd'
  BY <1>1, SlotsKept
<1>11. OneGrower'
  BY <1>1, <1>2, GrowersKept
<1>12. \A j \in Slots : slot[j].fd = f => j = i
  BY <1>3 DEF Inv, OneSlotPerFd
<1> QED BY <1>1, <1>3, <1>5, <1>6, <1>7, <1>8, <1>9, <1>10, <1>11, <1>12, Here

LEMMA ReadUsedStep ==
  ASSUME Inv, "growth" \notin Mishaps, NEW t \in Threads, ReadUsed(t)
  PROVE  Inv'
<1>1. CASE thr[t].idx < used /\ Opened(t) /\ used' = used /\ thr[t].pc = "used"
  BY <1>1, OpenedStep
<1>2. CASE /\ thr[t].pc = "used" /\ thr[t].idx >= used /\ Growing = {} /\ Goto(t, "grow")
           /\ UNCHANGED <<file, refs, slot, used>>
  <2>0. PICK f : f = thr[t].fd
    OBVIOUS
  <2>1. /\ thr'[t].pc = "grow" /\ thr'[t].fd = f /\ thr'[t].idx = thr[t].idx
        /\ \A s \in Threads \ {t} : thr'[s] = thr[s]
    BY <1>2, <2>0, Went DEF Inv
  <2>2. f \in Fds
    BY <1>2, <2>0 DEF Inv, ThreadOK, OnVideo, Busy, Owning
  <2>3. TypeOK'
    BY <1>2 DEF Inv, TypeOK, Goto, PCs
  <2>4. Local(t, f)
    BY <1>2, <2>0, <2>1 DEF Local, Busy, Owning
  <2>5. \A s \in Threads : s = t \/ (thr[s].fd = f /\ thr[s].pc \in Busy) => ThreadOK(s)'
    BY <1>2, <2>0, <2>1 DEF Inv, ThreadOK, OnVideo, Alone, Placed, DupExact, CountExact,
                            Busy, InSlot, Owning
  <2>6. FileOK(f)'
    BY <1>2, <2>0, <2>1, <2>2 DEF Inv, FileOK, Busy, Owning
  <2>7. \A i \in Slots : slot[i].fd = f \/ slot'[i] # slot[i] => SlotOK(i)'
    BY <1>2, <2>0, <2>1, <2>2 DEF Inv, SlotOK, Owned, Owning
  <2>8. OneSlotPerFd' /\ OneGrower'
    BY <1>2, <2>1, SlotsKept DEF OneGrower, Growing, At
  <2> QED BY <2>2, <2>3, <2>4, <2>5, <2>6, <2>7, <2>8, Here
<1>3. thr[t].idx \in Int /\ used \in Int
  BY DevicesAssumption DEF Inv, TypeOK, Slots, NoSlot
<1> QED BY <1>1, <1>2, <1>3 DEF ReadUsed, At, Opened

LEMMA GrowStep == ASSUME Inv, NEW t \in Threads, Grow(t) PROVE Inv'
  BY OpenedStep DEF Grow, At, Opened

-----------------------------------------------------------------------------
(* Descriptors of others, and calls that use one.                           *)

LEMMA OpenPlainStep ==
  ASSUME Inv, NEW t \in Threads, NEW f \in Fds, OpenPlain(t, f)
  PROVE  Inv'
<1>1. /\ file[f] = "none" /\ file' = [file EXCEPT ![f] = "plain"]
      /\ refs' = [refs EXCEPT ![f] = 1]
      /\ slot' = slot /\ used' = used /\ thr' = thr /\ thr[t].pc = "idle"
  BY DEF OpenPlain, Begins, At
<1>2. /\ f # NoFd /\ \A i \in Slots : slot[i].fd # f
      /\ \A s \in Threads : thr[s].fd = f => thr[s].pc \notin Busy
  BY <1>1, DevicesAssumption DEF Inv, SlotOK, ThreadOK, OnVideo
<1>3. TypeOK'
  BY <1>1 DEF Inv, TypeOK
<1>4. Local(t, f)
  BY <1>1 DEF Local, Busy, Owning, Inv, TypeOK
<1>5. ThreadOK(t)'
  BY <1>1 DEF ThreadOK, OnVideo, Alone, Placed, DupExact, CountExact, Busy, InSlot, Owning
<1>6. FileOK(f)'
  BY <1>1 DEF FileOK, Inv, TypeOK
<1>7. OneSlotPerFd' /\ OneGrower'
  BY <1>1, SlotsKept, GrowersKept
<1> QED BY <1>1, <1>2, <1>3, <1>4, <1>5, <1>6, <1>7, Here

\* What libv4l2 does not manage is no video device.
LEMMA UnmanagedPlain ==
  ASSUME Inv, NEW f \in Fds, refs[f] > 0, GetIndex(f) = NoSlot
  PROVE  file[f] = "plain" /\ refs[f] = 1
<1>1. FileOK(f) /\ file[f] \in {"none", "video", "plain"}
  BY DEF Inv, TypeOK
<1>2. CASE file[f] = "video"
  <2>1. PICK i \in Slots : slot[i].fd = f
    BY <1>1, <1>2 DEF FileOK
  <2>2. ~Owned(f)
    BY DEF Inv, Owned, ThreadOK, Alone
  <2>3. i < used /\ f # NoFd
    BY <2>1, <2>2, DevicesAssumption DEF Inv, SlotOK, Settled
  <2>4. \A j \in Matches(f) : j = i
    BY <2>1, <2>3, DevicesAssumption DEF Inv, TypeOK, Matches, OneSlotPerFd, Slots
  <2>5. i \in Matches(f) /\ i \in Int
    BY <2>1, <2>3, DevicesAssumption DEF Inv, TypeOK, Matches, Slots
  <2>6. \A j \in Matches(f) : i <= j
    BY <2>4, <2>5
  <2>7. Min(Matches(f)) \in Matches(f)
    BY <2>5, <2>6 DEF Min
  <2> QED BY <2>4, <2>5, <2>7, DevicesAssumption DEF GetIndex, NoSlot, Slots
<1> QED BY <1>1, <1>2 DEF FileOK

\* A slot that is found is the descriptor's.
LEMMA FoundSlot ==
  ASSUME Inv, NEW f \in Fds, GetIndex(f) # NoSlot
  PROVE  GetIndex(f) \in Slots /\ slot[GetIndex(f)].fd = f /\ GetIndex(f) < used
<1>1. PICK i : i \in Matches(f)
  BY DEF GetIndex
<1>2. /\ used \in 0 .. MaxDevices /\ MaxDevices \in Nat /\ f # NoFd
      /\ Matches(f) \subseteq Slots
  BY DevicesAssumption DEF Inv, TypeOK, Matches, Slots
<1>3. \A j \in Matches(f) : j = i
  BY <1>1, <1>2 DEF Inv, Matches, OneSlotPerFd
<1>4. i \in Slots /\ slot[i].fd = f /\ i < used /\ i \in Int
  BY <1>1, <1>2 DEF Matches, Slots
<1>5. \A j \in Matches(f) : i <= j
  BY <1>3, <1>4
<1>6. Min(Matches(f)) = i
  BY <1>1, <1>3, <1>5 DEF Min
<1> QED BY <1>1, <1>4, <1>6 DEF GetIndex

LEMMA UseStep ==
  ASSUME Inv, NEW t \in Threads, NEW f \in Fds, Use(t, f)
  PROVE  Inv'
<1>1. /\ thr[t].pc = "idle" /\ Become(t, "use", f, GetIndex(f), 0)
      /\ file' = file /\ refs' = refs /\ slot' = slot /\ used' = used
  BY DEF Use, Begins, At
<1>2. /\ thr'[t].pc = "use" /\ thr'[t].fd = f
      /\ \A s \in Threads \ {t} : thr'[s] = thr[s]
  BY <1>1, Became DEF Inv
<1>3. TypeOK'
  <2>1. GetIndex(f) \in Slots \cup {NoSlot}
    BY FoundSlot
  <2> QED BY <1>1, <2>1, DevicesAssumption DEF Inv, TypeOK, Become, PCs
<1>4. Local(t, f)
  BY <1>1, <1>2 DEF Local, Busy, Owning
<1>5. \A s \in Threads : s = t \/ (thr[s].fd = f /\ thr[s].pc \in Busy) => ThreadOK(s)'
  BY <1>1, <1>2 DEF Inv, ThreadOK, OnVideo, Alone, Placed, DupExact, CountExact,
                    Busy, InSlot, Owning
<1>6. FileOK(f)'
  BY <1>1, <1>2 DEF Inv, FileOK, Busy, Owning
<1>7. \A i \in Slots : slot[i].fd = f \/ slot'[i] # slot[i] => SlotOK(i)'
  <2>1. Closing(f)' = Closing(f) /\ Owned(f)' = Owned(f)
    BY <1>1, <1>2 DEF Closing, Owned, Owning
  <2> SUFFICES ASSUME NEW i \in Slots, slot[i].fd = f PROVE SlotOK(i)'
    BY <1>1
  <2>2. /\ Closing(slot[i].fd) = Closing(f) /\ Closing(slot[i].fd)' = Closing(f)'
        /\ Owned(slot[i].fd) = Owned(f) /\ Owned(slot[i].fd)' = Owned(f)'
    BY <1>1
  <2> QED BY <1>1, <2>1, <2>2 DEF Inv, SlotOK, Settled
<1>8. OneSlotPerFd' /\ OneGrower'
  BY <1>1, <1>2, SlotsKept, GrowersKept
<1> QED BY <1>3, <1>4, <1>5, <1>6, <1>7, <1>8, Here

LEMMA UseReturnsStep ==
  ASSUME Inv, NEW t \in Threads, UseReturns(t)
  PROVE  Inv'
<1>1. /\ thr[t].pc = "use" /\ Return(t)
      /\ file' = file /\ refs' = refs /\ slot' = slot /\ used' = used
  BY DEF UseReturns, At
<1>2. /\ thr'[t].pc = "idle" /\ thr'[t].fd = NoFd
      /\ \A s \in Threads \ {t} : thr'[s] = thr[s]
  BY <1>1, Returned DEF Inv
<1>3. TypeOK'
  BY <1>1, DevicesAssumption DEF Inv, TypeOK, Return, Idle, PCs
<1>4. \A s \in Threads : ThreadOK(s)'
  BY <1>1, <1>2 DEF Inv, ThreadOK, OnVideo, Alone, Placed, DupExact, CountExact,
                    Busy, InSlot, Owning
<1>5. \A fd \in Fds : FileOK(fd)'
  BY <1>1, <1>2 DEF Inv, FileOK, Busy, Owning
<1>6. \A i \in Slots : SlotOK(i)'
  <2> TAKE i \in Slots
  <2>0. PICK f : f = slot[i].fd
    OBVIOUS
  <2>1. Closing(f)' = Closing(f) /\ (Owned(f) => Owned(f)')
    <3>1. Closing(f)' = Closing(f)
      BY <1>1, <1>2, ClosingUnchanged
    <3>2. Owned(f) => Owned(f)'
      BY <1>1, <1>2 DEF Owned, Owning
    <3> QED BY <3>1, <3>2
  <2>2. /\ Closing(slot[i].fd) = Closing(f) /\ Closing(slot[i].fd)' = Closing(f)'
        /\ Owned(slot[i].fd) = Owned(f) /\ Owned(slot[i].fd)' = Owned(f)'
    BY <1>1, <2>0
  <2> QED BY <1>1, <2>0, <2>1, <2>2 DEF Inv, SlotOK, Settled
<1>7. OneSlotPerFd' /\ OneGrower'
  BY <1>1, <1>2, SlotsKept, GrowersKept
<1> QED BY <1>3, <1>4, <1>5, <1>6, <1>7 DEF Inv

LEMMA DupPlainStep ==
  ASSUME Inv, NEW t \in Threads, NEW g \in Fds, NEW f \in Fds, DupPlain(t, g, f)
  PROVE  Inv'
<1>1. /\ file[f] = "none" /\ file' = [file EXCEPT ![f] = "plain"]
      /\ refs' = [refs EXCEPT ![f] = 1]
      /\ slot' = slot /\ used' = used /\ thr' = thr /\ thr[t].pc = "idle"
  BY UnmanagedPlain DEF DupPlain, Begins, At
<1>2. /\ f # NoFd /\ \A i \in Slots : slot[i].fd # f
      /\ \A s \in Threads : thr[s].fd = f => thr[s].pc \notin Busy
  BY <1>1, DevicesAssumption DEF Inv, SlotOK, ThreadOK, OnVideo
<1>3. TypeOK'
  BY <1>1 DEF Inv, TypeOK
<1>4. Local(t, f)
  BY <1>1 DEF Local, Busy, Owning, Inv, TypeOK
<1>5. ThreadOK(t)'
  BY <1>1 DEF ThreadOK, OnVideo, Alone, Placed, DupExact, CountExact, Busy, InSlot, Owning
<1>6. FileOK(f)'
  BY <1>1 DEF FileOK, Inv, TypeOK
<1>7. OneSlotPerFd' /\ OneGrower'
  BY <1>1, SlotsKept, GrowersKept
<1> QED BY <1>1, <1>2, <1>3, <1>4, <1>5, <1>6, <1>7, Here

LEMMA DupReadStep ==
  ASSUME Inv, "count" \notin Mishaps, NEW t \in Threads, NEW f \in Fds, DupRead(t, f)
  PROVE  Inv'
<1>0. PICK i : i = GetIndex(f)
  OBVIOUS
<1>1. /\ thr[t].pc = "idle" /\ Become(t, "dup", f, i, slot[i].count)
      /\ refs[f] > 0 /\ i # NoSlot /\ slot[i].count < MaxRefs
      /\ \A s \in Threads : thr[s].fd = f => thr[s].pc \notin {"dup", "counting"}
      /\ file' = file /\ refs' = refs /\ slot' = slot /\ used' = used
  BY <1>0 DEF DupRead, Begins, At, Dupping, Counting
<1>2. i \in Slots /\ slot[i].fd = f /\ f # NoFd
  BY <1>0, <1>1, FoundSlot, DevicesAssumption
<1>3. /\ thr'[t].pc = "dup" /\ thr'[t].fd = f /\ thr'[t].idx = i
      /\ thr'[t].val = slot[i].count
      /\ \A s \in Threads \ {t} : thr'[s] = thr[s]
  BY <1>1, Became DEF Inv
<1>4. \A s \in Threads : thr[s].fd = f /\ thr[s].pc \in Busy => thr[s].pc = "close"
  <2>1. \A s \in Threads : thr[s].fd = f => thr[s].pc \notin Owning
    BY <1>1 DEF Inv, ThreadOK, Alone
  <2> QED BY <1>1, <2>1 DEF Busy
<1>5. TypeOK'
  <2>1. slot[i].count \in 0 .. MaxRefs
    BY <1>2 DEF Inv, TypeOK
  <2> QED BY <1>1, <1>2, <2>1 DEF Inv, TypeOK, Become, PCs
<1>6. Local(t, f)
  BY <1>1, <1>3 DEF Local, Busy, Owning
<1>7. file[f] = "video"
  BY <1>2 DEF Inv, SlotOK
<1>8. ThreadOK(t)'
  BY <1>1, <1>2, <1>3, <1>4, <1>7 DEF ThreadOK, OnVideo, Alone, Placed, DupExact, CountExact,
                                Busy, InSlot, Owning
<1>12. ASSUME NEW s \in Threads \ {t}, thr[s].fd = f, thr[s].pc \in Busy
       PROVE  ThreadOK(s)'
  <2>1. thr[s].pc = "close" /\ ThreadOK(s) /\ thr'[s] = thr[s]
    BY <1>3, <1>4, <1>12 DEF Inv
  <2> QED BY <1>1, <1>3, <2>1
          DEF ThreadOK, OnVideo, Alone, Placed, DupExact, CountExact, Owning, InSlot, Busy
<1>9. FileOK(f)'
  BY <1>1, <1>3 DEF Inv, FileOK, Busy, Owning
<1>10. \A j \in Slots : slot[j].fd = f => SlotOK(j)'
  <2>1. Closing(f)' = Closing(f) /\ ~Owned(f)
    BY <1>1, <1>3, <1>4 DEF Closing, Owned, Busy, Owning
  <2> SUFFICES ASSUME NEW j \in Slots, slot[j].fd = f PROVE SlotOK(j)'
    OBVIOUS
  <2>2. /\ Closing(slot[j].fd) = Closing(f) /\ Closing(slot[j].fd)' = Closing(f)'
    BY <1>1
  <2> QED BY <1>1, <2>1, <2>2 DEF Inv, SlotOK, Settled
<1>11. OneSlotPerFd' /\ OneGrower'
  BY <1>1, <1>3, SlotsKept, GrowersKept
<1> QED BY <1>1, <1>5, <1>6, <1>8, <1>12, <1>9, <1>10, <1>11, Here

LEMMA DupWriteStep ==
  ASSUME Inv, NEW t \in Threads, DupWrite(t)
  PROVE  Inv'
<1>0. PICK f, i, v : f = thr[t].fd /\ i = thr[t].idx /\ v = thr[t].val
  OBVIOUS
<1>1. /\ thr[t].pc = "dup" /\ Return(t)
      /\ slot' = [slot EXCEPT ![i].count = v + 1]
      /\ refs' = [refs EXCEPT ![f] = @ + 1]
      /\ file' = file /\ used' = used
  BY <1>0 DEF DupWrite, At
<1>2. /\ thr'[t].pc = "idle" /\ thr'[t].fd = NoFd
      /\ \A s \in Threads \ {t} : thr'[s] = thr[s]
  BY <1>1, Returned DEF Inv
<1>3. /\ f \in Fds /\ f # NoFd /\ file[f] = "video"
      /\ i \in Slots /\ slot[i].fd = f /\ v = slot[i].count
      /\ refs[f] > 0 /\ v < MaxRefs
  BY <1>0, <1>1, DevicesAssumption
     DEF Inv, ThreadOK, OnVideo, DupExact, Placed, Busy, Owning, InSlot
<1>4. \A s \in Threads \ {t} : thr[s].fd = f /\ thr[s].pc \in Busy => thr[s].pc = "close"
  <2>1. \A s \in Threads : thr[s].fd = f => thr[s].pc \notin Owning
    BY <1>3, DevicesAssumption DEF Inv, ThreadOK, Alone
  <2>2. DupExact(t)
    BY DEF Inv, ThreadOK
  <2> QED BY <1>0, <1>1, <2>1, <2>2 DEF DupExact, Busy
<1>5. ~Owned(f) /\ Closing(f)' = Closing(f)
  <2>1. ~Owned(f)
    BY <1>0, <1>1, <1>4 DEF Owned, Busy, Owning
  <2>2. Closing(f)' = Closing(f)
    BY <1>0, <1>1, <1>2, <1>3, ClosingUnchanged
  <2> QED BY <2>1, <2>2
<1>6. /\ slot[i].live /\ i < used /\ v \in 1 .. MaxRefs - 1
      /\ v = refs[f] + Cardinality(Closing(f))
  <2>1. Owned(slot[i].fd) = Owned(f) /\ Closing(slot[i].fd) = Closing(f)
    BY <1>3
  <2>2. Settled(i)
    BY <1>3, <1>5, <2>1 DEF Inv, SlotOK
  <2>3. v \in 0 .. MaxRefs
    BY <1>3 DEF Inv, TypeOK
  <2> QED BY <1>3, <2>1, <2>2, <2>3, DevicesAssumption DEF Settled
<1>7. /\ slot'[i].fd = f /\ slot'[i].live /\ slot'[i].count = v + 1
      /\ \A j \in Slots \ {i} : slot'[j] = slot[j]
  BY <1>1, <1>3, <1>6 DEF Inv, TypeOK
<1>8. TypeOK'
  <2>1. slot' \in [Slots -> [fd : Fds \cup {NoFd}, count : 0..MaxRefs, live : BOOLEAN,
                            lock : SUBSET Threads]]
    <3>1. [slot[i] EXCEPT !.count = v + 1] \in
             [fd : Fds \cup {NoFd}, count : 0..MaxRefs, live : BOOLEAN, lock : SUBSET Threads]
      BY <1>3, <1>6, DevicesAssumption DEF Inv, TypeOK
    <3>2. slot' = [slot EXCEPT ![i] = [slot[i] EXCEPT !.count = v + 1]]
      BY <1>1
    <3> QED BY <3>1, <3>2 DEF Inv, TypeOK
  <2>2. thr' \in [Threads -> [pc : PCs, fd : Fds \cup {NoFd},
                             idx : Slots \cup {NoSlot}, val : 0..MaxRefs]]
    BY <1>1, DevicesAssumption DEF Inv, TypeOK, Return, Idle, PCs
  <2>3. refs' \in [Fds -> Nat]
    BY <1>1, <1>3 DEF Inv, TypeOK
  <2> QED BY <1>1, <2>1, <2>2, <2>3 DEF Inv, TypeOK
<1>9. Local(t, f)
  BY <1>0, <1>1, <1>2, <1>3, <1>7 DEF Local, Busy, Owning, Inv, TypeOK
<1>10. ThreadOK(t)'
  BY <1>2 DEF ThreadOK, OnVideo, Alone, Placed, DupExact, CountExact, Busy, InSlot, Owning
<1>16. ASSUME NEW s \in Threads \ {t}, thr[s].fd = f, thr[s].pc \in Busy
       PROVE  ThreadOK(s)'
  <2>1. thr[s].pc = "close" /\ ThreadOK(s) /\ thr'[s] = thr[s]
    BY <1>2, <1>4, <1>16 DEF Inv
  <2>2. thr[s].idx = i
    BY <1>3, <1>16, <2>1 DEF ThreadOK, Placed, InSlot, Busy, Inv, OneSlotPerFd
  <2> QED BY <1>1, <1>3, <1>7, <1>16, <2>1, <2>2
          DEF ThreadOK, OnVideo, Alone, Placed, DupExact, CountExact, Owning, InSlot, Busy
<1>11. refs'[f] = refs[f] + 1 /\ refs[f] \in Nat
  BY <1>1, <1>3 DEF Inv, TypeOK
<1>12. FileOK(f)'
  BY <1>1, <1>2, <1>3, <1>7, <1>11 DEF FileOK, Busy, Owning
<1>13. SlotOK(i)'
  <2>1. Closing(slot[i].fd)' = Closing(f)'
    BY <1>7
  <2>2. Cardinality(Closing(slot[i].fd))' = Cardinality(Closing(f))
    BY <1>5, <2>1
  <2>3. slot'[i].count > 0 /\ slot'[i].count = refs'[f] + Cardinality(Closing(f))
    BY <1>6, <1>7, <1>11, ClosingFinite
  <2>4. Settled(i)'
    BY <1>1, <1>6, <1>7, <2>2, <2>3 DEF Settled
  <2> QED BY <1>1, <1>3, <1>7, <2>4 DEF SlotOK
<1>14. OneSlotPerFd' /\ OneGrower'
  BY <1>1, <1>2, <1>3, <1>7, SlotsKept, GrowersKept
<1>15. \A j \in Slots : slot[j].fd = f => j = i
  BY <1>3 DEF Inv, OneSlotPerFd
<1> QED BY <1>3, <1>7, <1>16, <1>8, <1>9, <1>10, <1>12, <1>13, <1>14, <1>15, Here

-----------------------------------------------------------------------------
(* v4l2_close().                                                            *)

\* A descriptor that libv4l2 does not manage goes straight to the kernel.
LEMMA ClosePlainStep ==
  ASSUME Inv, NEW t \in Threads, NEW f \in Fds, Close(t, f), GetIndex(f) = NoSlot
  PROVE  Inv'
<1>1. /\ refs[f] > 0 /\ refs' = [refs EXCEPT ![f] = @ - 1]
      /\ file' = [file EXCEPT ![f] = "none"]
      /\ slot' = slot /\ used' = used /\ thr' = thr /\ thr[t].pc = "idle"
  <2>1. Cardinality(Calling(f)) \in Nat
    <3>1. Calling(f) \in SUBSET Threads
      BY DEF Calling
    <3> QED BY <3>1, FS_Subset, FS_CardinalityType, DevicesAssumption
  <2>2. refs[f] \in Nat
    BY DEF Inv, TypeOK
  <2> QED BY <2>1, <2>2 DEF Close, Begins, At, CanClose
<1>2. file[f] = "plain" /\ refs[f] = 1 /\ f # NoFd
  BY <1>1, UnmanagedPlain, DevicesAssumption
<1>3. /\ \A i \in Slots : slot[i].fd # f
      /\ \A s \in Threads : thr[s].fd = f => thr[s].pc \notin Busy
  BY <1>2 DEF Inv, SlotOK, ThreadOK, OnVideo
<1>4. refs'[f] = 0 /\ file'[f] = "none" /\ refs' \in [Fds -> Nat]
  BY <1>1, <1>2 DEF Inv, TypeOK
<1>5. TypeOK'
  BY <1>1, <1>4 DEF Inv, TypeOK
<1>6. Local(t, f)
  BY <1>1 DEF Local, Busy, Owning, Inv, TypeOK
<1>7. ThreadOK(t)'
  BY <1>1 DEF ThreadOK, OnVideo, Alone, Placed, DupExact, CountExact, Busy, InSlot, Owning
<1>8. FileOK(f)'
  BY <1>4 DEF FileOK
<1>9. OneSlotPerFd' /\ OneGrower'
  BY <1>1, SlotsKept, GrowersKept
<1> QED BY <1>1, <1>3, <1>5, <1>6, <1>7, <1>8, <1>9, Here

\* A reference is given up; the close is to be counted.
LEMMA CloseBegins ==
  ASSUME Inv, NEW t \in Threads, NEW f \in Fds, Close(t, f), GetIndex(f) # NoSlot
  PROVE  Inv'
<1>0. PICK i : i = GetIndex(f)
  OBVIOUS
<1>1. /\ refs[f] > 0 /\ refs' = [refs EXCEPT ![f] = @ - 1]
      /\ Become(t, "close", f, i, 0) /\ thr[t].pc = "idle"
      /\ refs[f] > Cardinality(Calling(f))
      /\ slot' = slot /\ used' = used /\ file' = file
  <2>1. Cardinality(Calling(f)) \in Nat
    <3>1. Calling(f) \in SUBSET Threads
      BY DEF Calling
    <3> QED BY <3>1, FS_Subset, FS_CardinalityType, DevicesAssumption
  <2>2. refs[f] \in Nat
    BY DEF Inv, TypeOK
  <2> QED BY <1>0, <2>1, <2>2 DEF Close, Begins, At, CanClose
<1>2. i \in Slots /\ slot[i].fd = f /\ f # NoFd
  BY <1>0, FoundSlot, DevicesAssumption
<1>3. /\ thr'[t].pc = "close" /\ thr'[t].fd = f /\ thr'[t].idx = i
      /\ \A s \in Threads \ {t} : thr'[s] = thr[s]
  BY <1>1, Became DEF Inv
<1>4. \A s \in Threads : thr[s].fd = f => thr[s].pc \notin Owning
  BY <1>1 DEF Inv, ThreadOK, Alone
<1>15. (\E s \in Threads : thr[s].fd = f /\ thr[s].pc = "dup") => refs[f] > 1
  <2> SUFFICES ASSUME NEW s \in Threads, thr[s].fd = f, thr[s].pc = "dup"
               PROVE  refs[f] > 1
    OBVIOUS
  <2>1. s \in Calling(f) /\ IsFiniteSet(Calling(f))
    <3>1. Calling(f) \in SUBSET Threads
      BY DEF Calling
    <3> QED BY <3>1, FS_Subset, DevicesAssumption DEF Calling
  <2>2. Cardinality(Calling(f)) \in Nat /\ Cardinality(Calling(f)) # 0
    BY <2>1, FS_EmptySet, FS_CardinalityType
  <2>3. refs[f] \in Nat
    BY DEF Inv, TypeOK
  <2> QED BY <1>1, <2>2, <2>3
<1>5. refs'[f] = refs[f] - 1 /\ refs[f] \in Nat /\ refs' \in [Fds -> Nat]
  BY <1>1 DEF Inv, TypeOK
<1>6. TypeOK'
  BY <1>1, <1>2, <1>5, DevicesAssumption DEF Inv, TypeOK, Become, PCs
<1>7. Local(t, f)
  BY <1>1, <1>3 DEF Local, Busy, Owning, Inv, TypeOK
<1>8. file[f] = "video"
  BY <1>2 DEF Inv, SlotOK
<1>9. ThreadOK(t)'
  BY <1>1, <1>2, <1>3, <1>8 DEF ThreadOK, OnVideo, Alone, Placed, DupExact, CountExact,
                                Busy, InSlot, Owning
<1>10. ASSUME NEW s \in Threads \ {t}, thr[s].fd = f, thr[s].pc \in Busy
       PROVE  ThreadOK(s)'
  <2>1. thr[s].pc \in {"dup", "close", "counting"} /\ ThreadOK(s) /\ thr'[s] = thr[s]
    BY <1>3, <1>4, <1>10 DEF Busy, Inv
  <2>2. thr[s].pc = "dup" => refs'[f] > 0
    BY <1>5, <1>10, <1>15
  <2> QED BY <2>2, <1>3, <1>10, <1>1, <2>1 DEF ThreadOK, OnVideo, Alone, Placed, DupExact, CountExact, Owning, InSlot, Busy
<1>11. FileOK(f)'
  BY <1>1, <1>2, <1>3, <1>8 DEF FileOK, Busy
<1>12. \A j \in Slots : slot[j].fd = f => j = i
  BY <1>2 DEF Inv, OneSlotPerFd
<1>13. SlotOK(i)'
  <2>1. Closing(f)' = Closing(f) \cup {t} /\ t \notin Closing(f)
    BY <1>1, <1>3 DEF Closing
  <2>2. Cardinality(Closing(f))' = Cardinality(Closing(f)) + 1
    BY <2>1, ClosingFinite, FS_AddElement
  <2>3. /\ Closing(slot[i].fd) = Closing(f) /\ Closing(slot[i].fd)' = Closing(f)'
        /\ Owned(slot[i].fd) = Owned(f)
    BY <1>1, <1>2
  <2>4. ~Owned(f)
    BY <1>4 DEF Owned
  <2>5. Settled(i)
    BY <1>2, <2>3, <2>4 DEF Inv, SlotOK
  <2>6. Cardinality(Closing(f)) \in Nat
    BY ClosingFinite
  <2>7. Settled(i)'
    BY <1>1, <1>2, <1>5, <2>2, <2>3, <2>5, <2>6 DEF Settled
  <2> QED BY <1>1, <1>2, <1>8, <2>7 DEF SlotOK
<1>14. OneSlotPerFd' /\ OneGrower'
  BY <1>1, <1>3, SlotsKept, GrowersKept
<1> QED BY <1>1, <1>6, <1>7, <1>9, <1>10, <1>11, <1>12, <1>13, <1>14, Here

LEMMA CloseLockStep ==
  ASSUME Inv, "count" \notin Mishaps, NEW t \in Threads, CloseLock(t)
  PROVE  Inv'
<1>0. PICK f, i : f = thr[t].fd /\ i = thr[t].idx
  OBVIOUS
<1>1. /\ thr[t].pc = "close" /\ slot[i].lock = {}
      /\ \A s \in Threads : thr[s].fd = f => thr[s].pc # "dup"
      /\ slot' = [slot EXCEPT ![i].lock = {t}]
      /\ Become(t, "counting", f, i, slot[i].count)
      /\ file' = file /\ refs' = refs /\ used' = used
  BY <1>0 DEF CloseLock, At, Dupping
<1>2. /\ thr'[t].pc = "counting" /\ thr'[t].fd = f /\ thr'[t].idx = i
      /\ thr'[t].val = slot[i].count
      /\ \A s \in Threads \ {t} : thr'[s] = thr[s]
  BY <1>1, Became DEF Inv
<1>3. /\ f \in Fds /\ f # NoFd /\ file[f] = "video"
      /\ i \in Slots /\ slot[i].fd = f
  BY <1>0, <1>1, DevicesAssumption DEF Inv, ThreadOK, OnVideo, Placed, Busy, InSlot, Owning
<1>4. /\ slot'[i].fd = f /\ slot'[i].live = slot[i].live /\ slot'[i].count = slot[i].count
      /\ slot'[i].lock = {t}
      /\ \A j \in Slots \ {i} : slot'[j] = slot[j]
  BY <1>1, <1>3 DEF Inv, TypeOK
<1>5. \A j \in Slots : slot[j].fd = f => j = i
  BY <1>3 DEF Inv, OneSlotPerFd
<1>6. \A s \in Threads \ {t} : thr[s].fd = f /\ thr[s].pc \in Busy => thr[s].pc = "close"
  <2> SUFFICES ASSUME NEW s \in Threads \ {t}, thr[s].fd = f, thr[s].pc \in Busy
               PROVE  thr[s].pc = "close"
    OBVIOUS
  <2>1. thr[s].pc \notin Owning \cup {"dup"}
    BY <1>0, <1>1 DEF Inv, ThreadOK, Alone, Busy
  <2>2. thr[s].pc # "counting"
    BY <1>0, <1>1, <1>5 DEF Inv, ThreadOK, Placed, CountExact, InSlot, Busy
  <2> QED BY <2>1, <2>2 DEF Busy
<1>7. TypeOK'
  <2>1. slot' \in [Slots -> [fd : Fds \cup {NoFd}, count : 0..MaxRefs, live : BOOLEAN,
                            lock : SUBSET Threads]]
    <3>1. [slot[i] EXCEPT !.lock = {t}] \in
             [fd : Fds \cup {NoFd}, count : 0..MaxRefs, live : BOOLEAN, lock : SUBSET Threads]
      BY <1>3 DEF Inv, TypeOK
    <3>2. slot' = [slot EXCEPT ![i] = [slot[i] EXCEPT !.lock = {t}]]
      BY <1>1
    <3> QED BY <3>1, <3>2 DEF Inv, TypeOK
  <2>2. slot[i].count \in 0 .. MaxRefs
    BY <1>3 DEF Inv, TypeOK
  <2>3. thr' \in [Threads -> [pc : PCs, fd : Fds \cup {NoFd},
                             idx : Slots \cup {NoSlot}, val : 0..MaxRefs]]
    BY <1>1, <1>3, <2>2 DEF Inv, TypeOK, Become, PCs
  <2> QED BY <1>1, <2>1, <2>3 DEF Inv, TypeOK
<1>8. Local(t, f)
  BY <1>0, <1>1, <1>2, <1>3, <1>4 DEF Local, Busy, Owning
<1>9. ThreadOK(t)'
  BY <1>1, <1>2, <1>3, <1>4 DEF ThreadOK, OnVideo, Alone, Placed, DupExact, CountExact,
                                Busy, InSlot, Owning
<1>10. ASSUME NEW s \in Threads \ {t}, thr[s].fd = f, thr[s].pc \in Busy
       PROVE  ThreadOK(s)'
  <2>1. thr[s].pc = "close" /\ ThreadOK(s) /\ thr'[s] = thr[s]
    BY <1>2, <1>6, <1>10 DEF Inv
  <2>2. thr[s].idx = i
    BY <1>5, <1>10, <2>1 DEF ThreadOK, Placed, InSlot, Busy
  <2> QED BY <1>1, <1>4, <1>10, <2>1, <2>2, <1>3
          DEF ThreadOK, OnVideo, Alone, Placed, DupExact, CountExact, Owning, InSlot, Busy
<1>11. FileOK(f)'
  BY <1>1, <1>2, <1>3 DEF FileOK, Busy
<1>12. SlotOK(i)'
  <2>1. Closing(f)' = Closing(f) /\ (Owned(f) => Owned(f)')
    <3>1. Closing(f)' = Closing(f)
      BY <1>0, <1>1, <1>2, ClosingUnchanged
    <3>2. Owned(f) => Owned(f)'
      BY <1>0, <1>1, <1>2 DEF Owned, Owning
    <3> QED BY <3>1, <3>2
  <2>2. /\ Closing(slot[i].fd) = Closing(f) /\ Closing(slot[i].fd)' = Closing(f)'
        /\ Owned(slot[i].fd) = Owned(f) /\ Owned(slot[i].fd)' = Owned(f)'
    BY <1>3, <1>4
  <2> QED BY <1>1, <1>3, <1>4, <2>1, <2>2 DEF Inv, SlotOK, Settled
<1>13. OneSlotPerFd' /\ OneGrower'
  BY <1>1, <1>2, <1>3, <1>4, SlotsKept, GrowersKept
<1> QED BY <1>3, <1>4, <1>5, <1>7, <1>8, <1>9, <1>10, <1>11, <1>12, <1>13, Here

\* open_count is decremented under the lock; whoever makes it 0 has the
\* descriptor to itself.
LEMMA CloseCountedStep == ASSUME Inv, NEW t \in Threads, CloseCounted(t) PROVE Inv'
<1>0. PICK f, i, v : f = thr[t].fd /\ i = thr[t].idx /\ v = thr[t].val
  OBVIOUS
<1>1. /\ thr[t].pc = "counting"
      /\ slot' = [slot EXCEPT ![i].count = v - 1, ![i].lock = {}]
      /\ IF v - 1 # 0 THEN Return(t) ELSE Goto(t, "free")
      /\ file' = file /\ refs' = refs /\ used' = used
  BY <1>0 DEF CloseCounted, At
<1>2. \A s \in Threads \ {t} : thr'[s] = thr[s]
  BY <1>1, Returned, Went DEF Inv
<1>3. /\ f \in Fds /\ f # NoFd /\ file[f] = "video"
      /\ i \in Slots /\ slot[i].fd = f /\ v = slot[i].count /\ slot[i].lock = {t}
  BY <1>0, <1>1, DevicesAssumption
     DEF Inv, ThreadOK, OnVideo, Placed, CountExact, Busy, InSlot, Owning
<1>4. \A j \in Slots : slot[j].fd = f => j = i
  BY <1>3 DEF Inv, OneSlotPerFd
<1>5. \A s \in Threads \ {t} : thr[s].fd = f /\ thr[s].pc \in Busy => thr[s].pc = "close"
  <2> SUFFICES ASSUME NEW s \in Threads \ {t}, thr[s].fd = f, thr[s].pc \in Busy
               PROVE  thr[s].pc = "close"
    OBVIOUS
  <2>1. thr[s].pc \notin Owning \cup {"dup"}
    BY <1>0, <1>1 DEF Inv, ThreadOK, Alone, DupExact, Busy
  <2>2. thr[s].pc # "counting"
    BY <1>3, <1>4 DEF Inv, ThreadOK, Placed, CountExact, InSlot, Busy
  <2> QED BY <2>1, <2>2 DEF Busy
<1>6. t \in Closing(f) /\ Cardinality(Closing(f)) \in Nat /\ refs[f] \in Nat
  BY <1>0, <1>1, <1>3, ClosingFinite DEF Closing, Inv, TypeOK
<1>7. /\ slot[i].live /\ i < used /\ v > 0 /\ v \in 0 .. MaxRefs
      /\ v = refs[f] + Cardinality(Closing(f))
  <2>1. ~Owned(f)
    BY <1>0, <1>1, <1>5 DEF Owned, Owning, Busy
  <2>2. Owned(slot[i].fd) = Owned(f) /\ Closing(slot[i].fd) = Closing(f)
    BY <1>3
  <2>3. Settled(i)
    BY <1>3, <2>1, <2>2 DEF Inv, SlotOK
  <2>4. v \in 0 .. MaxRefs
    BY <1>3 DEF Inv, TypeOK
  <2> QED BY <1>3, <2>2, <2>3, <2>4 DEF Settled
<1>8. v \in Int /\ v >= 1 /\ v - 1 \in 0 .. MaxRefs
  BY <1>7, DevicesAssumption
<1>9. /\ slot'[i].fd = f /\ slot'[i].live /\ slot'[i].count = v - 1
      /\ \A j \in Slots \ {i} : slot'[j] = slot[j]
      /\ slot' \in [Slots -> [fd : Fds \cup {NoFd}, count : 0..MaxRefs, live : BOOLEAN,
                              lock : SUBSET Threads]]
  <2> DEFINE r == [slot[i] EXCEPT !.count = v - 1, !.lock = {}]
  <2>1. slot' = [slot EXCEPT ![i] = r]
    BY <1>1
  <2>2. /\ r \in [fd : Fds \cup {NoFd}, count : 0..MaxRefs, live : BOOLEAN, lock : SUBSET Threads]
        /\ r.fd = f /\ r.live = slot[i].live /\ r.count = v - 1
    <3>1. slot[i] \in [fd : Fds \cup {NoFd}, count : 0..MaxRefs, live : BOOLEAN,
                      lock : SUBSET Threads]
      BY <1>3 DEF Inv, TypeOK
    <3> QED BY <3>1, <1>3, <1>8, DevicesAssumption
  <2> HIDE DEF r
  <2>3. slot \in [Slots -> [fd : Fds \cup {NoFd}, count : 0..MaxRefs, live : BOOLEAN,
                            lock : SUBSET Threads]]
    BY DEF Inv, TypeOK
  <2>4. slot'[i] = r /\ \A j \in Slots \ {i} : slot'[j] = slot[j]
    BY <1>3, <2>1, <2>3
  <2>5. slot' \in [Slots -> [fd : Fds \cup {NoFd}, count : 0..MaxRefs, live : BOOLEAN,
                            lock : SUBSET Threads]]
    BY <1>3, <2>1, <2>2, <2>3
  <2> QED BY <1>3, <1>7, <2>2, <2>4, <2>5
<1>10. TypeOK'
  <2>1. thr' \in [Threads -> [pc : PCs, fd : Fds \cup {NoFd},
                             idx : Slots \cup {NoSlot}, val : 0..MaxRefs]]
    <3>1. CASE Return(t)
      BY <3>1, DevicesAssumption DEF Inv, TypeOK, Return, Idle, PCs
    <3>2. CASE Goto(t, "free")
      <4>1. thr \in [Threads -> [pc : PCs, fd : Fds \cup {NoFd},
                                  idx : Slots \cup {NoSlot}, val : 0..MaxRefs]]
        BY DEF Inv, TypeOK
      <4> QED BY <3>2, <4>1 DEF Goto, PCs
    <3> QED BY <1>1, <3>1, <3>2
  <2> QED BY <1>1, <1>9, <2>1 DEF Inv, TypeOK
<1>11. /\ thr'[t].pc \in {"idle", "free"} /\ (thr'[t].pc = "free" => thr'[t].fd = f)
       /\ (v - 1 # 0 => thr'[t].pc = "idle")
       /\ (v - 1 = 0 => thr'[t].pc = "free" /\ thr'[t].fd = f /\ thr'[t].idx = i)
  <2>1. CASE v - 1 # 0
    BY <1>1, <2>1, Returned DEF Inv
  <2>2. CASE v - 1 = 0
    BY <1>0, <1>1, <2>2, Went DEF Inv
  <2> QED BY <2>1, <2>2
<1>12. Local(t, f)
  BY <1>0, <1>1, <1>2, <1>3, <1>9, <1>11 DEF Local, Busy, Owning
<1>13. ASSUME NEW s \in Threads \ {t}, thr[s].fd = f, thr[s].pc \in Busy
       PROVE  ThreadOK(s)'
  <2>1. thr[s].pc = "close" /\ ThreadOK(s) /\ thr'[s] = thr[s]
    BY <1>2, <1>5, <1>13 DEF Inv
  <2>2. thr[s].idx = i
    BY <1>4, <1>13, <2>1 DEF ThreadOK, Placed, InSlot, Busy
  <2> QED BY <1>1, <1>3, <1>9, <1>13, <2>1, <2>2
          DEF ThreadOK, OnVideo, Alone, Placed, DupExact, CountExact, Owning, InSlot, Busy
<1>14. Closing(f)' = Closing(f) \ {t}
  BY <1>0, <1>1, <1>2, <1>11 DEF Closing
<1>15. Cardinality(Closing(f))' = Cardinality(Closing(f)) - 1
  BY <1>6, <1>14, ClosingFinite, FS_RemoveElement
<1>16. OneSlotPerFd' /\ OneGrower'
  <2>1. \A j \in Slots : slot'[j].fd = slot[j].fd
    BY <1>3, <1>9
  <2> QED BY <1>2, <1>11, <2>1, SlotsKept, GrowersKept
<1>17. ASSUME v - 1 # 0 PROVE ThreadOK(t)' /\ FileOK(f)' /\ SlotOK(i)'
  <2>1. thr'[t].pc = "idle"
    BY <1>11, <1>17
  <2>2. ThreadOK(t)'
    BY <2>1 DEF ThreadOK, OnVideo, Alone, Placed, DupExact, CountExact, Busy, InSlot, Owning
  <2>3. refs[f] > 0 \/ \E s \in Threads \ {t} : thr[s].fd = f /\ thr[s].pc \in Busy
    <3> SUFFICES ASSUME refs[f] = 0
                 PROVE  \E s \in Threads \ {t} : thr[s].fd = f /\ thr[s].pc \in Busy
      BY <1>6
    <3>0. Cardinality(Closing(f) \ {t}) = Cardinality(Closing(f)) - 1
      BY <1>6, ClosingFinite, FS_RemoveElement
    <3>1. Cardinality(Closing(f) \ {t}) # 0
      BY <1>6, <1>7, <1>8, <1>17, <3>0
    <3>2. Closing(f) \ {t} # {}
      BY <3>1, FS_EmptySet
    <3> QED BY <3>2 DEF Closing, Busy
  <2>4. FileOK(f)'
    BY <1>1, <1>2, <1>3, <1>9, <2>3 DEF FileOK
  <2>5. Closing(slot[i].fd)' = Closing(f)'
    BY <1>9
  <2>6. Settled(i)'
    BY <1>1, <1>6, <1>7, <1>8, <1>9, <1>15, <1>17, <2>5 DEF Settled
  <2>7. SlotOK(i)'
    BY <1>1, <1>3, <1>9, <2>6 DEF SlotOK
  <2> QED BY <2>2, <2>4, <2>7
<1>18. ASSUME v - 1 = 0 PROVE ThreadOK(t)' /\ FileOK(f)' /\ SlotOK(i)'
  <2>1. refs[f] = 0 /\ Cardinality(Closing(f) \ {t}) = 0
    <3>1. Cardinality(Closing(f) \ {t}) = Cardinality(Closing(f)) - 1
      BY <1>6, ClosingFinite, FS_RemoveElement
    <3>2. Cardinality(Closing(f) \ {t}) \in Nat
      BY ClosingFinite, FS_RemoveElement, FS_CardinalityType
    <3> QED BY <1>6, <1>7, <1>8, <1>18, <3>1, <3>2
  <2>2. Closing(f) \ {t} = {}
    BY <2>1, ClosingFinite, FS_RemoveElement, FS_EmptySet
  <2>3. \A s \in Threads \ {t} : thr[s].fd = f => thr[s].pc \notin Busy
    BY <1>5, <2>2 DEF Closing
  <2>4. thr'[t].pc = "free" /\ thr'[t].fd = f /\ thr'[t].idx = i
    BY <1>11, <1>18
  <2>5. ThreadOK(t)'
    BY <1>1, <1>2, <1>3, <1>9, <1>18, <2>1, <2>3, <2>4
       DEF ThreadOK, OnVideo, Alone, Placed, DupExact, CountExact, Busy, InSlot, Owning
  <2>6. FileOK(f)'
    BY <1>1, <1>3, <2>1, <2>4 DEF FileOK, Busy, Owning
  <2>7. SlotOK(i)'
    BY <1>1, <1>3, <1>9, <2>4 DEF SlotOK, Owned, Owning
  <2> QED BY <2>5, <2>6, <2>7
<1> QED BY <1>3, <1>4, <1>9, <1>10, <1>12, <1>13, <1>16, <1>17, <1>18, Here

\* The last close frees the resources, then the slot, then the descriptor.
LEMMA FreeResourcesStep == ASSUME Inv, NEW t \in Threads, FreeResources(t) PROVE Inv'
<1>0. PICK f, i : f = thr[t].fd /\ i = thr[t].idx
  OBVIOUS
<1>1. /\ thr[t].pc = "free" /\ Goto(t, "unregister")
      /\ slot' = [slot EXCEPT ![i].live = FALSE]
      /\ file' = file /\ refs' = refs /\ used' = used
  BY <1>0 DEF FreeResources, At
<1>2. /\ thr'[t].pc = "unregister" /\ thr'[t].fd = f /\ thr'[t].idx = i
      /\ \A s \in Threads \ {t} : thr'[s] = thr[s]
  BY <1>0, <1>1, Went DEF Inv
<1>3. /\ f \in Fds /\ f # NoFd /\ refs[f] = 0 /\ file[f] = "video"
      /\ i \in Slots /\ slot[i].fd = f
      /\ \A s \in Threads \ {t} : thr[s].fd = f => thr[s].pc \notin Busy
  BY <1>0, <1>1, DevicesAssumption
     DEF Inv, ThreadOK, OnVideo, Alone, Placed, Busy, Owning, InSlot
<1>4. /\ slot'[i].fd = f /\ ~slot'[i].live
      /\ \A j \in Slots \ {i} : slot'[j] = slot[j]
      /\ slot' \in [Slots -> [fd : Fds \cup {NoFd}, count : 0..MaxRefs, live : BOOLEAN,
                              lock : SUBSET Threads]]
  <2> DEFINE r == [slot[i] EXCEPT !.live = FALSE]
  <2>1. slot' = [slot EXCEPT ![i] = r]
    BY <1>1
  <2>2. /\ r \in [fd : Fds \cup {NoFd}, count : 0..MaxRefs, live : BOOLEAN, lock : SUBSET Threads]
        /\ r.fd = f /\ ~r.live
    <3>1. slot[i] \in [fd : Fds \cup {NoFd}, count : 0..MaxRefs, live : BOOLEAN,
                      lock : SUBSET Threads]
      BY <1>3 DEF Inv, TypeOK
    <3> QED BY <3>1, <1>3, DevicesAssumption
  <2> HIDE DEF r
  <2>3. slot \in [Slots -> [fd : Fds \cup {NoFd}, count : 0..MaxRefs, live : BOOLEAN,
                            lock : SUBSET Threads]]
    BY DEF Inv, TypeOK
  <2>4. slot'[i] = r /\ \A j \in Slots \ {i} : slot'[j] = slot[j]
    BY <1>3, <2>1, <2>3
  <2>5. slot' \in [Slots -> [fd : Fds \cup {NoFd}, count : 0..MaxRefs, live : BOOLEAN,
                            lock : SUBSET Threads]]
    BY <1>3, <2>1, <2>2, <2>3
  <2> QED BY <1>3, <2>2, <2>4, <2>5
<1>5. TypeOK'
  <2>1. thr' \in [Threads -> [pc : PCs, fd : Fds \cup {NoFd},
                             idx : Slots \cup {NoSlot}, val : 0..MaxRefs]]
    <3>1. thr \in [Threads -> [pc : PCs, fd : Fds \cup {NoFd},
                               idx : Slots \cup {NoSlot}, val : 0..MaxRefs]]
      BY DEF Inv, TypeOK
    <3> QED BY <1>1, <3>1 DEF Goto, PCs
  <2> QED BY <1>1, <1>4, <2>1 DEF Inv, TypeOK
<1>6. Local(t, f)
  BY <1>0, <1>1, <1>2, <1>3, <1>4 DEF Local, Busy, Owning
<1>7. ThreadOK(t)'
  BY <1>1, <1>2, <1>3, <1>4 DEF ThreadOK, OnVideo, Alone, Placed, DupExact, CountExact,
                                Busy, InSlot, Owning
<1>8. FileOK(f)'
  BY <1>1, <1>2, <1>3 DEF FileOK, Busy, Owning
<1>9. SlotOK(i)'
  BY <1>1, <1>2, <1>3, <1>4 DEF SlotOK, Owned, Owning
<1>10. OneSlotPerFd'
  BY <1>3, <1>4, SlotsKept
<1>11. OneGrower'
  BY <1>2, GrowersKept
<1>12. \A j \in Slots : slot[j].fd = f => j = i
  BY <1>3 DEF Inv, OneSlotPerFd
<1> QED BY <1>3, <1>4, <1>5, <1>6, <1>7, <1>8, <1>9, <1>10, <1>11, <1>12, Here

LEMMA UnregisterStep == ASSUME Inv, NEW t \in Threads, Unregister(t) PROVE Inv'
<1>0. PICK f, i : f = thr[t].fd /\ i = thr[t].idx
  OBVIOUS
<1>1. /\ thr[t].pc = "unregister" /\ Goto(t, "sysclose")
      /\ slot' = [slot EXCEPT ![i].fd = NoFd]
      /\ file' = file /\ refs' = refs /\ used' = used
  BY <1>0 DEF Unregister, At
<1>2. /\ thr'[t].pc = "sysclose" /\ thr'[t].fd = f
      /\ \A s \in Threads \ {t} : thr'[s] = thr[s]
  BY <1>0, <1>1, Went DEF Inv
<1>3. /\ f \in Fds /\ f # NoFd /\ refs[f] = 0 /\ file[f] = "video"
      /\ i \in Slots /\ slot[i].fd = f /\ ~slot[i].live
      /\ \A s \in Threads \ {t} : thr[s].fd = f => thr[s].pc \notin Busy
  BY <1>0, <1>1, DevicesAssumption
     DEF Inv, ThreadOK, OnVideo, Alone, Placed, Busy, Owning, InSlot
<1>4. /\ slot'[i].fd = NoFd /\ ~slot'[i].live
      /\ \A j \in Slots \ {i} : slot'[j] = slot[j]
      /\ slot' \in [Slots -> [fd : Fds \cup {NoFd}, count : 0..MaxRefs, live : BOOLEAN,
                              lock : SUBSET Threads]]
  <2> DEFINE r == [slot[i] EXCEPT !.fd = NoFd]
  <2>1. slot' = [slot EXCEPT ![i] = r]
    BY <1>1
  <2>2. /\ r \in [fd : Fds \cup {NoFd}, count : 0..MaxRefs, live : BOOLEAN, lock : SUBSET Threads]
        /\ r.fd = NoFd /\ r.live = slot[i].live
    <3>1. slot[i] \in [fd : Fds \cup {NoFd}, count : 0..MaxRefs, live : BOOLEAN,
                      lock : SUBSET Threads]
      BY <1>3 DEF Inv, TypeOK
    <3> QED BY <3>1, <1>3, DevicesAssumption
  <2> HIDE DEF r
  <2>3. slot \in [Slots -> [fd : Fds \cup {NoFd}, count : 0..MaxRefs, live : BOOLEAN,
                            lock : SUBSET Threads]]
    BY DEF Inv, TypeOK
  <2>4. slot'[i] = r /\ \A j \in Slots \ {i} : slot'[j] = slot[j]
    BY <1>3, <2>1, <2>3
  <2>5. slot' \in [Slots -> [fd : Fds \cup {NoFd}, count : 0..MaxRefs, live : BOOLEAN,
                            lock : SUBSET Threads]]
    BY <1>3, <2>1, <2>2, <2>3
  <2> QED BY <1>3, <2>2, <2>4, <2>5
<1>5. TypeOK'
  <2>1. thr' \in [Threads -> [pc : PCs, fd : Fds \cup {NoFd},
                             idx : Slots \cup {NoSlot}, val : 0..MaxRefs]]
    BY <1>1 DEF Inv, TypeOK, Goto, PCs
  <2> QED BY <1>1, <1>4, <2>1 DEF Inv, TypeOK
<1>6. Local(t, f)
  BY <1>0, <1>1, <1>2, <1>3, <1>4 DEF Local, Busy, Owning
<1>7. \A j \in Slots : slot[j].fd = f => j = i
  BY <1>3 DEF Inv, OneSlotPerFd
<1>8. \A j \in Slots : slot'[j].fd # f
  BY <1>3, <1>4, <1>7
<1>9. ThreadOK(t)'
  BY <1>1, <1>2, <1>3, <1>8 DEF ThreadOK, OnVideo, Alone, Placed, DupExact, CountExact,
                                Busy, InSlot, Owning
<1>10. FileOK(f)'
  BY <1>1, <1>2, <1>3 DEF FileOK, Busy, Owning
<1>11. SlotOK(i)'
  BY <1>4 DEF SlotOK
<1>12. OneSlotPerFd'
  BY <1>4 DEF Inv, OneSlotPerFd, Slots
<1>13. OneGrower'
  BY <1>2, GrowersKept
<1> QED BY <1>3, <1>4, <1>5, <1>6, <1>7, <1>9, <1>10, <1>11, <1>12, <1>13, Here

LEMMA SysCloseStep ==
  ASSUME Inv, "eintr" \notin Mishaps, NEW t \in Threads, SysClose(t)
  PROVE  Inv'
<1>0. PICK f : f = thr[t].fd
  OBVIOUS
<1>1. /\ thr[t].pc = "sysclose" /\ Return(t)
      /\ file' = [file EXCEPT ![f] = "none"]
      /\ refs' = refs /\ slot' = slot /\ used' = used
  BY <1>0 DEF SysClose, At
<1>2. /\ thr'[t].pc = "idle" /\ thr'[t].fd = NoFd
      /\ \A s \in Threads \ {t} : thr'[s] = thr[s]
  BY <1>1, Returned DEF Inv
<1>3. /\ f \in Fds /\ refs[f] = 0 /\ \A i \in Slots : slot[i].fd # f
      /\ \A s \in Threads \ {t} : thr[s].fd = f => thr[s].pc \notin Busy
  BY <1>0, <1>1 DEF Inv, ThreadOK, OnVideo, Alone, Placed, Busy, Owning
<1>4. TypeOK'
  <2>1. file' \in [Fds -> {"none", "video", "plain"}]
    BY <1>1 DEF Inv, TypeOK
  <2>2. thr' \in [Threads -> [pc : PCs, fd : Fds \cup {NoFd},
                             idx : Slots \cup {NoSlot}, val : 0..MaxRefs]]
    BY <1>1, DevicesAssumption DEF Inv, TypeOK, Return, Idle, PCs
  <2> QED BY <1>1, <2>1, <2>2 DEF Inv, TypeOK
<1>5. Local(t, f)
  BY <1>0, <1>1, <1>2 DEF Local, Busy, Owning, Inv, TypeOK
<1>6. ThreadOK(t)'
  BY <1>2 DEF ThreadOK, OnVideo, Alone, Placed, DupExact, CountExact, Busy, InSlot, Owning
<1>7. FileOK(f)'
  BY <1>1, <1>3 DEF FileOK, Inv, TypeOK
<1>8. OneSlotPerFd' /\ OneGrower'
  BY <1>1, <1>2, SlotsKept, GrowersKept
<1> QED BY <1>1, <1>3, <1>4, <1>5, <1>6, <1>7, <1>8, Here

-----------------------------------------------------------------------------
(* The specification.                                                       *)

LEMMA InitInv == Init => Inv
<1> SUFFICES ASSUME Init PROVE Inv
  OBVIOUS
<1>1. TypeOK
  BY DevicesAssumption DEF Init, TypeOK, FreeSlot, Idle, PCs
<1>2. \A t \in Threads : thr[t].pc = "idle"
  BY DEF Init, Idle
<1>3. \A i \in Slots : slot[i].fd = NoFd /\ ~slot[i].live
  BY DEF Init, FreeSlot
<1>4. \A t \in Threads : ThreadOK(t)
  BY <1>2 DEF ThreadOK, OnVideo, Alone, Placed, DupExact, CountExact, Busy, InSlot, Owning
<1>5. \A fd \in Fds : FileOK(fd)
  BY DEF Init, FileOK
<1>6. \A i \in Slots : SlotOK(i)
  BY <1>3 DEF SlotOK
<1>7. OneSlotPerFd /\ OneGrower
  BY <1>2, <1>3 DEF OneSlotPerFd, OneGrower, Growing, At
<1> QED BY <1>1, <1>4, <1>5, <1>6, <1>7 DEF Inv

LEMMA NextInv == ASSUME Mishaps = {} PROVE Inv /\ [Next]_vars => Inv'
<1> SUFFICES ASSUME Inv, [Next]_vars PROVE Inv'
  OBVIOUS
<1>1. CASE UNCHANGED vars
  <2>1. file' = file /\ refs' = refs /\ slot' = slot /\ used' = used /\ thr' = thr
    BY <1>1 DEF vars
  <2>2. TypeOK' /\ OneSlotPerFd' /\ OneGrower'
    BY <2>1 DEF Inv, TypeOK, OneSlotPerFd, OneGrower, Growing, At
  <2>3. \A t \in Threads : ThreadOK(t)'
    BY <2>1 DEF Inv, ThreadOK, OnVideo, Alone, Placed, DupExact, CountExact
  <2>4. \A fd \in Fds : FileOK(fd)'
    BY <2>1 DEF Inv, FileOK
  <2>5. \A i \in Slots : SlotOK(i)'
    BY <2>1 DEF Inv, SlotOK, Owned, Settled, Closing
  <2> QED BY <2>2, <2>3, <2>4, <2>5 DEF Inv
<1>2. ASSUME NEW t \in Threads, OpenSteps(t) PROVE Inv'
  BY <1>2, OpenFileStep, FdOpenStep, OpenPlainStep, OpenGivesUp, RegisterStep, InitSlotStep,
     ReadUsedStep, GrowStep DEF OpenSteps
<1>3. ASSUME NEW t \in Threads, UseSteps(t) PROVE Inv'
  BY <1>3, UseStep, DupReadStep, DupPlainStep, UseReturnsStep, DupWriteStep DEF UseSteps
<1>4. ASSUME NEW t \in Threads, CloseSteps(t) PROVE Inv'
  BY <1>4, ClosePlainStep, CloseBegins, CloseLockStep, CloseCountedStep,
     FreeResourcesStep, UnregisterStep, SysCloseStep DEF CloseSteps
<1> QED BY <1>1, <1>2, <1>3, <1>4 DEF Next

\* Unless one of the four mishaps happens, the table stays sound.
THEOREM InvHolds == ASSUME Mishaps = {} PROVE Spec => []Inv
  BY InitInv, NextInv, PTL DEF Spec

\* A descriptor never has two slots.
THEOREM OneSlot == ASSUME Mishaps = {} PROVE Spec => []OneSlotPerFd
<1>1. Inv => OneSlotPerFd
  BY DEF Inv
<1> QED BY <1>1, InvHolds, PTL

\* No slot ever holds a descriptor that is somebody else's by now.
THEOREM ForeignSafe == ASSUME Mishaps = {} PROVE Spec => []ForeignUntouched
<1>1. Inv => ForeignUntouched
  BY DEF Inv, SlotOK, ForeignUntouched
<1> QED BY <1>1, InvHolds, PTL

\* What the application has open, every lookup finds.
THEOREM HeldFound == ASSUME Mishaps = {} PROVE Spec => []HeldIsFound
<1>1. Inv => HeldIsFound
  BY UnmanagedPlain DEF HeldIsFound
<1> QED BY <1>1, InvHolds, PTL

\* What the application has open, libv4l2 leaves open.
THEOREM HeldOpen == ASSUME Mishaps = {} PROVE Spec => []HeldStaysOpen
<1>1. Inv => HeldStaysOpen
  BY DEF Inv, FileOK, HeldStaysOpen
<1> QED BY <1>1, InvHolds, PTL

\* open_count is exact, and the resources go with the last reference.
THEOREM CountCorrect == ASSUME Mishaps = {} PROVE Spec => []CountIsHeld
<1>1. ASSUME Inv PROVE CountIsHeld
  <2> SUFFICES ASSUME NEW i \in Slots, slot[i].live, \A t \in Opening : thr[t].idx # i
               PROVE  slot[i].count = refs[slot[i].fd] + Cardinality(Closing(slot[i].fd))
    BY DEF CountIsHeld
  <2>1. SlotOK(i) /\ slot[i].fd # NoFd
    BY <1>1 DEF Inv, SlotOK
  <2>2. CASE Owned(slot[i].fd)
    <3>1. PICK t \in Threads : thr[t].fd = slot[i].fd /\ thr[t].pc \in Owning
      BY <2>2 DEF Owned
    <3>2. ThreadOK(t)
      BY <1>1 DEF Inv
    <3>3. thr[t].pc \notin {"probe", "sysclose"} /\ thr[t].idx \in Slots
      BY <3>1, <3>2 DEF ThreadOK, Placed, Owning, InSlot, Busy
    <3>4. thr[t].idx = i
      BY <1>1, <2>1, <3>1, <3>2, <3>3 DEF ThreadOK, Placed, Inv, OneSlotPerFd, InSlot, Busy
    <3>5. thr[t].pc = "free"
      BY <3>1, <3>2, <3>3, <3>4 DEF Owning, Opening, ThreadOK, Placed
    <3>6. slot[i].count = 0 /\ refs[slot[i].fd] = 0
      BY <3>1, <3>2, <3>4, <3>5 DEF ThreadOK, Placed, Alone
    <3>7. Closing(slot[i].fd) = {}
      BY <3>1, <3>2, <3>5 DEF ThreadOK, Alone, Closing, Busy
    <3>8. Cardinality(Closing(slot[i].fd)) = 0
      BY <3>7, FS_EmptySet
    <3> QED BY <3>6, <3>8
  <2>3. CASE Settled(i)
    BY <2>3 DEF Settled
  <2> QED BY <2>1, <2>2, <2>3 DEF SlotOK
<1> QED BY <1>1, InvHolds, PTL

\* Two closes never free the same slot.
THEOREM FreedOnce == ASSUME Mishaps = {} PROVE Spec => []OneFreer
<1>1. Inv => OneFreer
  BY DEF Inv, ThreadOK, Placed, Alone, OneFreer, Owning, InSlot, Busy
<1> QED BY <1>1, InvHolds, PTL

\* When the application has given up everything, so has the library.
THEOREM ClosedAll == ASSUME Mishaps = {} PROVE Spec => []NothingLeft
<1>1. ASSUME Inv PROVE NothingLeft
  <2> SUFFICES ASSUME \A t \in Threads : thr[t].pc = "idle", \A fd \in Fds : refs[fd] = 0
               PROVE  /\ \A i \in Slots : slot[i].fd = NoFd /\ ~slot[i].live
                      /\ \A fd \in Fds : file[fd] = "none"
    BY DEF NothingLeft, At
  <2>1. \A fd \in Fds : file[fd] = "none"
    BY <1>1 DEF Inv, FileOK, Busy, Owning
  <2>2. \A i \in Slots : slot[i].fd # NoFd => slot[i].fd \in Fds /\ file[slot[i].fd] = "video"
    BY <1>1 DEF Inv, TypeOK, SlotOK
  <2> QED BY <1>1, <2>1, <2>2 DEF Inv, SlotOK
<1> QED BY <1>1, InvHolds, PTL
=============================================================================
