----------------------------- MODULE V4l2Devices -----------------------------
(***************************************************************************)
(* The table of open devices of libv4l2 (lib/libv4l2/libv4l2.c): which file *)
(* descriptors of the process libv4l2 manages, and in which slot of        *)
(* devices[].                                                              *)
(*                                                                         *)
(* v4l2_open(), v4l2_dup() and v4l2_close() run on any thread.  Only the    *)
(* search for a free slot (v4l2_open_mutex) and the decrement of open_count *)
(* (stream_lock) are protected; every lookup, the growth of devices_used    *)
(* and the increment of open_count are not, and are cut into the reads and  *)
(* writes they consist of.  Descriptors that libv4l2 does not manage go     *)
(* straight to the kernel, which reuses their numbers.                     *)
(*                                                                         *)
(* Mishaps is the set of events that spoil the table, of which an instance  *)
(* says which ones may happen: two opens both between reading devices_used  *)
(* and writing it ("growth"); a dup between reading and writing open_count  *)
(* while another dup or close does the same ("count"); v4l2_fd_open() of a  *)
(* descriptor that is managed already ("twice"); a close() that says EINTR  *)
(* having closed the descriptor ("eintr").                                  *)
(***************************************************************************)
EXTENDS Integers, FiniteSets, FiniteSetsExt

CONSTANTS
  Threads,     \* the application's threads
  Fds,         \* the process's descriptors
  NoFd,        \* fd = -1
  MaxDevices,  \* V4L2_MAX_DEVICES
  Calls,       \* the calls each thread makes
  Mishaps,     \* what may happen to the table
  MaxRefs      \* bound: open_count

AllCalls == {"open", "plain", "use", "dup", "close"}

ASSUME DevicesAssumption ==
  /\ IsFiniteSet(Threads)
  /\ MaxDevices \in Nat \ {0}
  /\ NoFd \notin Fds
  /\ Calls \in [Threads -> SUBSET AllCalls]
  /\ Mishaps \subseteq {"growth", "count", "twice", "eintr"}
  /\ MaxRefs \in Nat \ {0}

VARIABLES
  file,  \* the kernel's descriptor table: what each descriptor refers to
  refs,  \* history: references the application holds to each descriptor
  slot,  \* devices[]
  used,  \* devices_used
  thr    \* what each thread is doing in the library

vars == <<file, refs, slot, used, thr>>

Slots == 0..(MaxDevices - 1)
NoSlot == MaxDevices                     \* the lookup found nothing

\* fd and open_count; live while the slot's resources (plugin, converter,
\* read buffer) are allocated; lock is the thread inside stream_lock.
FreeSlot == [fd |-> NoFd, count |-> 0, live |-> FALSE, lock |-> {}]

Idle == [pc |-> "idle", fd |-> NoFd, idx |-> NoSlot, val |-> 0]

Become(t, pc, fd, idx, val) ==
  thr' = [thr EXCEPT ![t] = [pc |-> pc, fd |-> fd, idx |-> idx, val |-> val]]
Goto(t, pc) == thr' = [thr EXCEPT ![t].pc = pc]
Return(t) == thr' = [thr EXCEPT ![t] = Idle]

At(t, pc) == thr[t].pc = pc
Begins(t, call) == At(t, "idle") /\ call \in Calls[t]

Opening == {t \in Threads : thr[t].pc \in {"probe", "init", "used", "grow"}}
Growing == {t \in Threads : At(t, "grow")}
Dupping(fd) == {t \in Threads : thr[t].fd = fd /\ At(t, "dup")}
Counting(fd) == {t \in Threads : thr[t].fd = fd /\ At(t, "counting")}
Calling(fd) == {t \in Threads : thr[t].fd = fd /\ thr[t].pc \in {"use", "dup"}}
Closing(fd) == {t \in Threads : thr[t].fd = fd /\ thr[t].pc \in {"close", "counting"}}

\* v4l2_get_index(): the first slot below devices_used with that descriptor.
Matches(fd) == {i \in 0..(used - 1) : slot[i].fd = fd}
GetIndex(fd) == IF Matches(fd) = {} THEN NoSlot ELSE Min(Matches(fd))

-----------------------------------------------------------------------------
(* v4l2_open() and v4l2_fd_open().                                          *)

\* The kernel opens the device node; nobody else knows the descriptor yet.
OpenFile(t, fd) ==
  /\ Begins(t, "open")
  /\ file[fd] = "none"
  /\ file' = [file EXCEPT ![fd] = "video"]
  /\ Become(t, "probe", fd, NoSlot, 0)
  /\ UNCHANGED <<refs, slot, used>>

\* v4l2_fd_open() of a descriptor the application has; it is in the library's
\* hands until the call returns, for the application makes no other call with it
\* (README.lib-multi-threading).
FdOpen(t, fd) ==
  /\ Begins(t, "open")
  /\ refs[fd] = 1 /\ Calling(fd) = {} /\ Closing(fd) = {}
  /\ file[fd] = "plain" \/ "twice" \in Mishaps
  /\ file' = [file EXCEPT ![fd] = "video"]
  /\ refs' = [refs EXCEPT ![fd] = 0]
  /\ Become(t, "probe", fd, NoSlot, 1)
  /\ UNCHANGED <<slot, used>>

\* v4l2_open() closes the file again; v4l2_fd_open() leaves it open.
GiveUp(t) ==
  LET fd == thr[t].fd
      left == IF thr[t].val = 0 THEN "none"
              ELSE IF \E i \in Slots : slot[i].fd = fd THEN "video" ELSE "plain"
  IN /\ file' = [file EXCEPT ![fd] = left]
     /\ refs' = [refs EXCEPT ![fd] = thr[t].val]
     /\ Return(t)
     /\ UNCHANGED <<slot, used>>

\* The device is not to libv4l2's liking.
ProbeFails(t) == At(t, "probe") /\ GiveUp(t)

\* Under v4l2_open_mutex: take the first free slot.
Register(t) ==
  \E i \in Slots :
    /\ At(t, "probe")
    /\ slot[i].fd = NoFd /\ \A j \in Slots : slot[j].fd = NoFd => i <= j
    /\ slot' = [slot EXCEPT ![i].fd = thr[t].fd]
    /\ Become(t, "init", thr[t].fd, i, 0)
    /\ UNCHANGED <<file, refs, used>>

\* More than V4L2_MAX_DEVICES devices: EBUSY.
TableFull(t) == At(t, "probe") /\ (\A i \in Slots : slot[i].fd # NoFd) /\ GiveUp(t)

\* Fill the slot in; the mutex is initialised anew.
InitSlot(t) ==
  /\ At(t, "init")
  /\ slot' = [slot EXCEPT ![thr[t].idx] =
                [fd |-> thr[t].fd, count |-> 1, live |-> TRUE, lock |-> {}]]
  /\ Goto(t, "used")
  /\ UNCHANGED <<file, refs, used>>

\* The open returns: the application holds the first reference.
Opened(t) ==
  /\ refs' = [refs EXCEPT ![thr[t].fd] = 1]
  /\ Return(t)
  /\ UNCHANGED <<file, slot>>

\* "if (index >= devices_used)" ...
ReadUsed(t) ==
  /\ At(t, "used")
  /\ IF thr[t].idx >= used
     THEN /\ Growing = {} \/ "growth" \in Mishaps
          /\ Goto(t, "grow")
          /\ UNCHANGED <<file, refs, slot, used>>
     ELSE Opened(t) /\ UNCHANGED used

\* ... "devices_used = index + 1".  Mutant: the slot itself is left out.
GrowShort(t) ==
  /\ At(t, "grow")
  /\ used' = thr[t].idx
  /\ Opened(t)
Grow(t) ==
  /\ At(t, "grow")
  /\ used' = thr[t].idx + 1
  /\ Opened(t)

-----------------------------------------------------------------------------
(* Descriptors that libv4l2 was not told of, and calls that use one.        *)

OpenPlain(t, fd) ==
  /\ Begins(t, "plain")
  /\ file[fd] = "none"
  /\ file' = [file EXCEPT ![fd] = "plain"]
  /\ refs' = [refs EXCEPT ![fd] = 1]
  /\ UNCHANGED <<slot, used, thr>>

\* v4l2_ioctl(), v4l2_read() and so on, on a descriptor the application holds.
\* The slot that is found is used until the call returns.
Use(t, fd) ==
  /\ Begins(t, "use")
  /\ refs[fd] > 0
  /\ Become(t, "use", fd, GetIndex(fd), 0)
  /\ UNCHANGED <<file, refs, slot, used>>

UseReturns(t) ==
  /\ At(t, "use")
  /\ Return(t)
  /\ UNCHANGED <<file, refs, slot, used>>

-----------------------------------------------------------------------------
(* v4l2_dup().                                                              *)

\* "open_count++" reads ...
DupRead(t, fd) ==
  LET i == GetIndex(fd)
  IN /\ Begins(t, "dup")
     /\ refs[fd] > 0
     /\ i # NoSlot /\ slot[i].count < MaxRefs
     /\ Dupping(fd) \cup Counting(fd) = {} \/ "count" \in Mishaps
     /\ Become(t, "dup", fd, i, slot[i].count)
     /\ UNCHANGED <<file, refs, slot, used>>

\* ... and writes, without the lock.  Mutant: the count stays as it is.
DupWriteForgets(t) ==
  /\ At(t, "dup")
  /\ refs' = [refs EXCEPT ![thr[t].fd] = @ + 1]
  /\ Return(t)
  /\ UNCHANGED <<file, slot, used>>
DupWrite(t) ==
  /\ At(t, "dup")
  /\ slot' = [slot EXCEPT ![thr[t].idx].count = thr[t].val + 1]
  /\ refs' = [refs EXCEPT ![thr[t].fd] = @ + 1]
  /\ Return(t)
  /\ UNCHANGED <<file, used>>

\* A descriptor libv4l2 does not know is duplicated by the kernel.
DupPlain(t, fd, new) ==
  /\ Begins(t, "dup")
  /\ refs[fd] > 0
  /\ GetIndex(fd) = NoSlot
  /\ file[new] = "none"
  /\ file' = [file EXCEPT ![new] = file[fd]]
  /\ refs' = [refs EXCEPT ![new] = 1]
  /\ UNCHANGED <<slot, used, thr>>

-----------------------------------------------------------------------------
(* v4l2_close().                                                            *)

\* The application gives up a reference that no call of its own still uses
\* (README.lib-multi-threading: "all v4lx_ calls must be completed before
\* calling v4lx_close").
CanClose(fd) == refs[fd] > Cardinality(Calling(fd))

Close(t, fd) ==
  LET i == GetIndex(fd)
  IN /\ Begins(t, "close")
     /\ CanClose(fd)
     /\ refs' = [refs EXCEPT ![fd] = @ - 1]
     /\ IF i = NoSlot
        THEN file' = [file EXCEPT ![fd] = "none"] /\ UNCHANGED thr
        ELSE Become(t, "close", fd, i, 0) /\ UNCHANGED file
     /\ UNCHANGED <<slot, used>>

\* Mutant: open_count is read before the lock is taken.
CloseLockUnlocked(t) ==
  /\ At(t, "close")
  /\ Become(t, "counting", thr[t].fd, thr[t].idx, slot[thr[t].idx].count)
  /\ UNCHANGED <<file, refs, slot, used>>
CloseLock(t) ==
  /\ At(t, "close")
  /\ slot[thr[t].idx].lock = {}
  /\ Dupping(thr[t].fd) = {} \/ "count" \in Mishaps
  /\ slot' = [slot EXCEPT ![thr[t].idx].lock = {t}]
  /\ Become(t, "counting", thr[t].fd, thr[t].idx, slot[thr[t].idx].count)
  /\ UNCHANGED <<file, refs, used>>

\* Whoever makes open_count 0 goes on.  Mutant: whoever finds it 0 or 1.
CloseCountedTwice(t) ==
  /\ At(t, "counting")
  /\ slot' = [slot EXCEPT ![thr[t].idx].count = thr[t].val - 1,
                          ![thr[t].idx].lock = {}]
  /\ IF thr[t].val - 1 > 1 THEN Return(t) ELSE Goto(t, "free")
  /\ UNCHANGED <<file, refs, used>>
CloseCounted(t) ==
  /\ At(t, "counting")
  /\ slot' = [slot EXCEPT ![thr[t].idx].count = thr[t].val - 1,
                          ![thr[t].idx].lock = {}]
  /\ IF thr[t].val - 1 # 0 THEN Return(t) ELSE Goto(t, "free")
  /\ UNCHANGED <<file, refs, used>>

\* Plugin, mappings, converter and read buffer go.
FreeResources(t) ==
  /\ At(t, "free")
  /\ slot' = [slot EXCEPT ![thr[t].idx].live = FALSE]
  /\ Goto(t, "unregister")
  /\ UNCHANGED <<file, refs, used>>

\* The slot is given back before the descriptor.  Mutant: the other way round.
UnregisterLate(t) ==
  /\ At(t, "unregister")
  /\ file' = [file EXCEPT ![thr[t].fd] = "none"]
  /\ Goto(t, "sysclose")
  /\ UNCHANGED <<refs, slot, used>>
Unregister(t) ==
  /\ At(t, "unregister")
  /\ slot' = [slot EXCEPT ![thr[t].idx].fd = NoFd]
  /\ Goto(t, "sysclose")
  /\ UNCHANGED <<file, refs, used>>

\* Repeated while it says EINTR: the second time whoever has the number by then
\* loses the file, or there is none (EBADF).
SysClose(t) ==
  /\ At(t, "sysclose")
  /\ file' = [file EXCEPT ![thr[t].fd] = "none"]
  /\ \/ Return(t)
     \/ "eintr" \in Mishaps /\ file[thr[t].fd] # "none" /\ UNCHANGED thr
  /\ UNCHANGED <<refs, slot, used>>

-----------------------------------------------------------------------------

Init ==
  /\ file = [fd \in Fds |-> "none"]
  /\ refs = [fd \in Fds |-> 0]
  /\ slot = [i \in Slots |-> FreeSlot]
  /\ used = 0
  /\ thr = [t \in Threads |-> Idle]

OpenSteps(t) ==
  \/ \E fd \in Fds : OpenFile(t, fd) \/ FdOpen(t, fd) \/ OpenPlain(t, fd)
  \/ ProbeFails(t) \/ Register(t) \/ TableFull(t) \/ InitSlot(t)
  \/ ReadUsed(t) \/ Grow(t)

UseSteps(t) ==
  \/ \E fd \in Fds : Use(t, fd) \/ DupRead(t, fd)
  \/ \E fd, new \in Fds : DupPlain(t, fd, new)
  \/ UseReturns(t) \/ DupWrite(t)

CloseSteps(t) ==
  \/ \E fd \in Fds : Close(t, fd)
  \/ CloseLock(t) \/ CloseCounted(t) \/ FreeResources(t) \/ Unregister(t)
  \/ SysClose(t)

Next == \E t \in Threads : OpenSteps(t) \/ UseSteps(t) \/ CloseSteps(t)

Spec == Init /\ [][Next]_vars

-----------------------------------------------------------------------------
(* Properties.                                                              *)

PCs == {"idle", "probe", "init", "used", "grow", "use", "dup", "close",
        "counting", "free", "unregister", "sysclose"}

TypeOK ==
  /\ file \in [Fds -> {"none", "video", "plain"}]
  /\ refs \in [Fds -> Nat]
  /\ slot \in [Slots -> [fd : Fds \cup {NoFd}, count : 0..MaxRefs, live : BOOLEAN,
                         lock : SUBSET Threads]]
  /\ used \in 0..MaxDevices
  /\ thr \in [Threads -> [pc : PCs, fd : Fds \cup {NoFd},
                          idx : Slots \cup {NoSlot}, val : 0..MaxRefs]]

\* A descriptor is managed by one slot at most: a second one would shadow the
\* first, whose resources and whose open_count would be out of reach.
OneSlotPerFd ==
  \A i, j \in Slots : slot[i].fd = slot[j].fd /\ slot[i].fd # NoFd => i = j

\* libv4l2 keeps out of the way of every other file of the process, also when
\* the kernel gives it the number of a device that was just closed.
ForeignUntouched ==
  \A i \in Slots : slot[i].fd # NoFd => file[slot[i].fd] = "video"

\* A descriptor that v4l2_open() has returned, and that was not closed, is
\* found by every lookup.
HeldIsFound ==
  \A fd \in Fds : refs[fd] > 0 /\ file[fd] = "video" => GetIndex(fd) # NoSlot

\* The application's descriptors stay open until it closes them.
HeldStaysOpen == \A fd \in Fds : refs[fd] > 0 => file[fd] # "none"

\* open_count is what the application holds, together with the closes that
\* have not counted yet: the resources are freed with the last reference.
CountIsHeld ==
  \A i \in Slots :
    slot[i].live /\ (\A t \in Opening : thr[t].idx # i) =>
      slot[i].count = refs[slot[i].fd] + Cardinality(Closing(slot[i].fd))

\* The resources of a slot are freed by one thread only.
OneFreer ==
  \A s, t \in Threads :
    /\ thr[s].pc \in {"free", "unregister"} /\ thr[t].pc \in {"free", "unregister"}
    /\ thr[s].idx = thr[t].idx
    => s = t

\* When everything is closed nothing is left: no slot, no descriptor.
NothingLeft ==
  (\A t \in Threads : At(t, "idle")) /\ (\A fd \in Fds : refs[fd] = 0) =>
    /\ \A i \in Slots : slot[i].fd = NoFd /\ ~slot[i].live
    /\ \A fd \in Fds : file[fd] = "none"
=============================================================================
