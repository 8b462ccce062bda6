----------------------------- MODULE V4lControl -----------------------------
(***************************************************************************)
(* The software controls of libv4lconvert and the filters that follow them *)
(* (lib/libv4lconvert/control/libv4lcontrol.c and                          *)
(* lib/libv4lconvert/processing/libv4lprocessing.c).                       *)
(*                                                                         *)
(* Controls that a camera lacks are kept in memory that all processes of a *)
(* user share, without a lock.  Each process notices changes by comparing  *)
(* with a copy, before every frame, and then computes its tables anew.     *)
(* The driver and the applications are external.                           *)
(***************************************************************************)
EXTENDS Integers, SequencesExt

CONSTANTS
  Procs,       \* processes that have the device open
  Viewers,     \* those that convert frames
  Devices,     \* what a device may be: its controls, disabled ones, wishes, formats
  Requests,    \* values, by control, that an application may set together
  UpdateRate,  \* V4L2PROCESSING_UPDATE_RATE: ten in libv4lprocessing-priv.h
  MaxEvents    \* bound on requests, and on processes that leave or get no shared
               \* memory

ASSUME RateAssumption == UpdateRate \in Nat /\ UpdateRate >= 2
ASSUME ProcsAssumption == Viewers \subseteq Procs /\ "shm" \notin Procs
ASSUME BoundAssumption == MaxEvents \in Nat

VARIABLES
  device,
  exists,          \* the shared memory is there
  where,           \* by process: "none", "init" for its creator while it fills
                   \* it in, "shm", or "own" for malloc()ed memory
  filled,          \* writes the creator has done
  values,          \* shm_values by memory: the shared one, or a process's own
  call,            \* the S_EXT_CTRLS that is under way, or NoCall
  format,          \* what a process wants its frames in: "rgb", or "native" for one
                   \* that v4lconvert_supported_dst_format() does not know
  frame,           \* what the converting thread does
  old_values, controls_changed, do_process, lookup_table_update_counter,
  todo,            \* filters whose tables are still to be computed
  table,           \* by filter, the value in the lookup tables, or 0 for none
  used,            \* what was applied to the last frame
  last, early,     \* history: by memory, what was last set of each control, and
                   \* which of that while the memory was being filled in
  events           \* how often something was set or went wrong

store == <<exists, where, filled, values>>
history == <<last, early>>
frames == <<frame, old_values, controls_changed, do_process,
            lookup_table_update_counter, todo, table, used>>
vars == <<device, store, call, format, frames, history, events>>

-----------------------------------------------------------------------------
(* The controls.  Their numbers are the order of the V4L2_CID_ values.     *)

AWB == 12  GAMMA == 16  EXPOSURE == 17  AUTOGAIN == 18  GAIN == 19
HFLIP == 20  VFLIP == 21  TARGET == 90

\* fake_controls[]
AutoEnable == {AWB, HFLIP, VFLIP, GAMMA}
Fakes == AutoEnable \cup {AUTOGAIN, TARGET}
Minimum(c) == IF c = GAMMA THEN 500 ELSE 0
Maximum(c) == CASE c = GAMMA -> 3000 [] c = TARGET -> 255 [] OTHER -> 1

\* default_value; the device may be known to want white balance, or a gamma.
FakeDefault(c) == CASE c = GAMMA -> 1000 [] c = AUTOGAIN -> 1 [] c = TARGET -> 100 [] OTHER -> 0
Default(c) ==
  CASE c = AWB /\ device.wantsWb -> 1
    [] c = GAMMA /\ device.gamma # 0 -> device.gamma
    [] OTHER -> FakeDefault(c)

Enabled(c) == c \in device.hw \ device.disabled

\* The controls that libv4l provides: those the driver lacks or has disabled, of a
\* device whose frames are converted anyway, and autogain.
controls ==
  {c \in AutoEnable : device.converts /\ ~Enabled(c)}
  \cup (IF device.wantsAutogain /\ ~Enabled(AUTOGAIN) /\ Enabled(EXPOSURE) /\ Enabled(GAIN)
        THEN {AUTOGAIN, TARGET} ELSE {})

\* V4LCONTROL_SUPPORTS_NEXT_CTRL: the driver answered such a request.
SupportsNext == device.next /\ device.hw # {}

Memory(p) == IF where[p] = "own" THEN p ELSE "shm"
Open(p) == where[p] \in {"shm", "own"}
Get(p, c) == IF c \in controls THEN values[Memory(p)][c] ELSE 0

-----------------------------------------------------------------------------
(* v4lcontrol_create() and v4lcontrol_destroy() *)

Zeros == [c \in Fakes |-> 0]
Defaults == [c \in Fakes |-> Default(c)]
NoTable == [f \in {AWB, AUTOGAIN, GAMMA} |-> 0]
NoCall == <<>>
Unset == -1
NothingSet == [c \in Fakes |-> Unset]

\* calloc() in v4lcontrol_create() and v4lprocessing_create()
FreshData(p) ==
  /\ frame' = [frame EXCEPT ![p] = "idle"]
  /\ old_values' = [old_values EXCEPT ![p] = Zeros]
  /\ controls_changed' = [controls_changed EXCEPT ![p] = FALSE]
  /\ do_process' = [do_process EXCEPT ![p] = FALSE]
  /\ lookup_table_update_counter' = [lookup_table_update_counter EXCEPT ![p] = 0]
  /\ todo' = [todo EXCEPT ![p] = {}]
  /\ table' = [table EXCEPT ![p] = NoTable]
  /\ used' = [used EXCEPT ![p] = NoTable]

\* Mutant: whoever opens the memory fills it in.
FillsAlways == TRUE

\* shm_open(O_EXCL) decides who fills the memory in.
Fills == ~exists

\* v4lcontrol_create(): the shared memory is mapped at once, by others too, and is zero
\* until its creator has filled it in.
Create(p) ==
  /\ where[p] = "none"
  /\ \/ \* no control to keep
        /\ controls = {}
        /\ where' = [where EXCEPT ![p] = "own"]
        /\ UNCHANGED <<exists, values, last, events>>
     \/ /\ controls # {}
        /\ exists' = TRUE
        /\ where' = [where EXCEPT ![p] = IF Fills THEN "init" ELSE "shm"]
        /\ UNCHANGED <<values, last, events>>
     \/ \* no shared memory: malloc(), which is not shared
        /\ controls # {} /\ events < MaxEvents /\ events' = events + 1
        /\ where' = [where EXCEPT ![p] = "own"]
        /\ values' = [values EXCEPT ![p] = Defaults]
        /\ last' = [last EXCEPT ![p] = NothingSet]
        /\ UNCHANGED exists
  /\ FreshData(p)
  /\ filled' = [filled EXCEPT ![p] = 0]
  /\ format' = [format EXCEPT ![p] = "rgb"]
  /\ UNCHANGED <<device, call, early>>

\* The creator's writes, none of them under a lock: memset(), the default of each
\* of fake_controls[], and what the device is known to want
InOrder == <<AWB, HFLIP, VFLIP, GAMMA, AUTOGAIN, TARGET>>
LastWrite == 9
Write(n) ==
  CASE n = 1 -> Zeros
    [] n \in 2 .. 7 -> [c \in {InOrder[n - 1]} |-> FakeDefault(c)]
    [] n = 8 -> [c \in (IF device.wantsWb THEN {AWB} ELSE {}) |-> 1]
    [] OTHER -> [c \in (IF device.gamma # 0 THEN {GAMMA} ELSE {}) |-> device.gamma]

Over(old, new) == [c \in Fakes |-> IF c \in DOMAIN new THEN new[c] ELSE old[c]]

Fill(p) ==
  /\ where[p] = "init"
  /\ values' = [values EXCEPT !["shm"] = Over(@, Write(filled[p] + 1))]
  /\ filled' = [filled EXCEPT ![p] = @ + 1]
  /\ where' = IF filled[p] + 1 = LastWrite THEN [where EXCEPT ![p] = "shm"] ELSE where
  /\ UNCHANGED <<device, exists, call, format, frames, history, events>>

\* The process closes the device, or dies; the shared memory stays.
Leave(p) ==
  /\ where[p] # "none" /\ events < MaxEvents
  /\ events' = events + 1
  /\ where' = [where EXCEPT ![p] = "none"]
  /\ call' = [call EXCEPT ![p] = NoCall]
  /\ FreshData(p)
  /\ UNCHANGED <<device, exists, filled, values, format, history>>

-----------------------------------------------------------------------------
(* Requests, from any thread of a process.  QUERYCTRL of one control,      *)
(* G_CTRL, G_EXT_CTRLS and TRY_EXT_CTRLS change nothing.                   *)

InRange(c, v) == v \in Minimum(c) .. Maximum(c)
Ours(r) == DOMAIN r \cap controls

\* v4lcontrol_validate_ext_ctrls()
Valid(r) == \A c \in Ours(r) : InRange(c, r[c])

Filling == \E p \in Procs : where[p] = "init"

\* Control c gets value v in the memory of process p.
Assign(p, c, v) ==
  /\ values' = [values EXCEPT ![Memory(p)][c] = v]
  /\ last' = [last EXCEPT ![Memory(p)][c] = v]
  /\ early' = IF Memory(p) # "shm" THEN early ELSE IF Filling THEN early \cup {c} ELSE early \ {c}

\* v4lcontrol_vidioc_s_ctrl() of one of our controls; out of range is EINVAL
SetCtrl(p) ==
  \E r \in Requests :
    /\ Open(p) /\ events < MaxEvents
    /\ \E c \in Ours(r) : DOMAIN r = {c} /\ InRange(c, r[c]) /\ Assign(p, c, r[c])
    /\ events' = events + 1
    /\ UNCHANGED <<device, exists, where, filled, call, format, frames>>

\* v4lcontrol_vidioc_s_ext_ctrls(): all of our controls are checked, then the
\* driver is asked about the others, and then ours are stored, one by one.  One
\* control alone is as good as S_CTRL.
SetExtCtrls(p) ==
  \E r \in Requests :
    /\ Open(p) /\ events < MaxEvents /\ call[p] = NoCall
    /\ Cardinality(DOMAIN r) > 1
    /\ Valid(r)
    /\ call' = [call EXCEPT ![p] = [step |-> "ask", left |-> Ours(r), ctrls |-> r]]
    /\ events' = events + 1
    /\ UNCHANGED <<device, store, format, frames, history>>

SetExtAnswer(p) ==
  /\ call[p] # NoCall /\ call[p].step = "ask"
  /\ \/ call' = [call EXCEPT ![p] = NoCall]
     \/ call[p].left # {} /\ call' = [call EXCEPT ![p].step = "store"]
  /\ UNCHANGED <<device, store, format, frames, history, events>>

SetExtStored(p) ==
  /\ call[p] # NoCall /\ call[p].step = "store"
  /\ \E c \in call[p].left :
       /\ Assign(p, c, call[p].ctrls[c])
       /\ call' = [call EXCEPT ![p] = IF call[p].left = {c} THEN NoCall
                                     ELSE [call[p] EXCEPT !.left = @ \ {c}]]
  /\ UNCHANGED <<device, exists, where, filled, format, frames, events>>

\* v4l2_ioctl(VIDIOC_S_FMT): the application wants other frames.
SetFormat(p) ==
  /\ Open(p) /\ frame[p] = "idle" /\ events < MaxEvents
  /\ \E f \in {"rgb", "native"} : format' = [format EXCEPT ![p] = f]
  /\ events' = events + 1
  /\ UNCHANGED <<device, store, call, frames, history>>

-----------------------------------------------------------------------------
(* QUERYCTRL with V4L2_CTRL_FLAG_NEXT_CTRL *)

Least(S) == CHOOSE c \in S : \A d \in S : c <= d

\* Mutant: one of ours must come before the driver's.
FakeNextBelow(id, upto) == {c \in controls : id < c /\ c < upto}

\* Those of ours that follow `id' and do not follow the driver's answer
FakeNext(id, upto) == {c \in controls : id < c /\ c <= upto}

\* V4L2_CTRL_ID_MASK, for a driver that has no more
NoMore == 1000
ASSUME DevicesAssumption ==
  \A d \in Devices : d.hw \subseteq 1 .. NoMore - 1 /\ d.gamma \in {0} \cup 500 .. 3000

\* What v4lcontrol_vidioc_queryctrl() returns after `id': 0 at the end
NextCtrl(id) ==
  LET hw == {c \in device.hw : c > id}
      upto == IF hw = {} THEN NoMore ELSE Least(hw)
      ours == FakeNext(id, upto)
  IN  IF ours # {} THEN [id |-> Least(ours), fake |-> TRUE]
      ELSE IF hw # {} THEN [id |-> upto, fake |-> FALSE]
      ELSE [id |-> 0, fake |-> FALSE]

\* The answers from `id' on, each call with the id that came last
ListFrom[id \in 0 .. NoMore] ==
  LET n == NextCtrl(id) IN IF n.id = 0 THEN <<>> ELSE <<n>> \o ListFrom[n.id]

-----------------------------------------------------------------------------
(* v4lconvert_convert() of a frame *)

Filters == {AWB, AUTOGAIN, GAMMA}

\* The active() of the three filters
Neutral(f) == IF f = GAMMA THEN 1000 ELSE 0
Active(p, f) == Get(p, f) \notin {0, Neutral(f)}

\* v4lprocessing_pre_processing()
StartFrame(p) ==
  /\ p \in Viewers /\ Open(p) /\ frame[p] = "idle"
  /\ do_process' = [do_process EXCEPT ![p] = \E f \in Filters : Active(p, f)]
  /\ frame' = [frame EXCEPT ![p] = IF controls = {} THEN "convert" ELSE "compare"]
  /\ UNCHANGED <<device, store, call, format, old_values, controls_changed,
                 lookup_table_update_counter, todo, table, used, history, events>>

\* The memcmp() of v4lcontrol_controls_changed() ...
Compare(p) ==
  /\ frame[p] = "compare"
  /\ controls_changed' = [controls_changed EXCEPT ![p] = @ \/ values[Memory(p)] # old_values[p]]
  /\ frame' = [frame EXCEPT ![p] = "copy"]
  /\ UNCHANGED <<device, store, call, format, old_values, do_process,
                 lookup_table_update_counter, todo, table, used, history, events>>

\* ... and its memcpy(): a change in between is never reported.
Copy(p) ==
  /\ frame[p] = "copy"
  /\ old_values' = [old_values EXCEPT ![p] = values[Memory(p)]]
  /\ frame' = [frame EXCEPT ![p] = "convert"]
  /\ UNCHANGED <<device, store, call, format, controls_changed, do_process,
                 lookup_table_update_counter, todo, table, used, history, events>>

\* An early return: for a native format, or with nothing to do, the frame is
\* copied as it is.
CopyFrame(p) ==
  /\ frame[p] = "convert" /\ (format[p] = "native" \/ ~do_process[p])
  /\ frame' = [frame EXCEPT ![p] = "idle"]
  /\ used' = [used EXCEPT ![p] = NoTable]
  /\ UNCHANGED <<device, store, call, format, old_values, controls_changed, do_process,
                 lookup_table_update_counter, todo, table, history, events>>

\* A conversion that fails before the frame is processed
ConvertFails(p) ==
  /\ frame[p] = "convert" /\ format[p] # "native"
  /\ frame' = [frame EXCEPT ![p] = "idle"]
  /\ UNCHANGED <<device, store, call, format, old_values, controls_changed, do_process,
                 lookup_table_update_counter, todo, table, used, history, events>>

\* The filters return at once for a format they do not know; v4lconvert_convert()
\* calls them again when the frame is in one they know.
ToRgb(p) ==
  /\ frame[p] = "convert" /\ format[p] # "native" /\ ~device.filters
  /\ frame' = [frame EXCEPT ![p] = "rgb"]
  /\ UNCHANGED <<device, store, call, format, old_values, controls_changed, do_process,
                 lookup_table_update_counter, todo, table, used, history, events>>

\* Mutant: the count starts again before it reaches the rate.
NextCountWraps(n) == (n + 1) % UpdateRate

NextCount(n) == n + 1

UpdateDue(p) == controls_changed[p] \/ lookup_table_update_counter[p] = UpdateRate

\* v4lprocessing_processing()
Process(p) ==
  /\ frame[p] = "rgb" \/ (frame[p] = "convert" /\ format[p] # "native" /\ device.filters)
  /\ IF ~do_process[p]
       THEN /\ frame' = [frame EXCEPT ![p] = "idle"]
            /\ used' = [used EXCEPT ![p] = NoTable]
            /\ UNCHANGED <<controls_changed, do_process, lookup_table_update_counter, todo, table>>
     ELSE IF UpdateDue(p)
       THEN /\ controls_changed' = [controls_changed EXCEPT ![p] = FALSE]
            /\ lookup_table_update_counter' = [lookup_table_update_counter EXCEPT ![p] = 0]
            /\ todo' = [todo EXCEPT ![p] = Filters]
            /\ table' = [table EXCEPT ![p] = NoTable]
            /\ frame' = [frame EXCEPT ![p] = "update"]
            /\ UNCHANGED <<do_process, used>>
       ELSE /\ lookup_table_update_counter' = [lookup_table_update_counter EXCEPT ![p] = NextCount(@)]
            /\ used' = [used EXCEPT ![p] = table[p]]
            /\ frame' = [frame EXCEPT ![p] = "idle"]
            /\ do_process' = [do_process EXCEPT ![p] = FALSE]
            /\ UNCHANGED <<controls_changed, todo, table>>
  /\ UNCHANGED <<device, store, call, format, old_values, history, events>>

\* A filter that is not settled asks for an earlier update: white balance for
\* the next frame, unless another asked already; autogain for a later one.
Asked(f, counter) ==
  CASE f = AWB /\ counter = 0 -> {0, UpdateRate}
    [] f = AUTOGAIN -> {counter, UpdateRate - 2}
    [] OTHER -> {counter}

\* v4lprocessing_update_lookup_tables(), one filter after the other
UpdateFilter(p) ==
  /\ frame[p] = "update" /\ todo[p] # {}
  /\ LET f == CHOOSE g \in todo[p] :
                g = (IF AWB \in todo[p] THEN AWB ELSE IF AUTOGAIN \in todo[p] THEN AUTOGAIN ELSE GAMMA)
     IN  /\ todo' = [todo EXCEPT ![p] = @ \ {f}]
         /\ table' = [table EXCEPT ![p][f] = IF Active(p, f) THEN Get(p, f) ELSE 0]
         /\ \E n \in (IF Active(p, f) THEN Asked(f, lookup_table_update_counter[p])
                      ELSE {lookup_table_update_counter[p]}) :
              lookup_table_update_counter' = [lookup_table_update_counter EXCEPT ![p] = n]
  /\ UNCHANGED <<device, store, call, format, frame, old_values, controls_changed,
                 do_process, used, history, events>>

\* The lookup tables are applied to the frame.
Apply(p) ==
  /\ frame[p] = "update" /\ todo[p] = {}
  /\ used' = [used EXCEPT ![p] = table[p]]
  /\ frame' = [frame EXCEPT ![p] = "idle"]
  /\ do_process' = [do_process EXCEPT ![p] = FALSE]
  /\ UNCHANGED <<device, store, call, format, old_values, controls_changed,
                 lookup_table_update_counter, todo, table, history, events>>

-----------------------------------------------------------------------------
Init ==
  /\ device \in Devices
  /\ exists = FALSE
  /\ where = [p \in Procs |-> "none"]
  /\ filled = [p \in Procs |-> 0]
  /\ values = [m \in Procs \cup {"shm"} |-> Zeros]
  /\ last = [m \in Procs \cup {"shm"} |-> NothingSet] /\ early = {}
  /\ format = [p \in Procs |-> "rgb"]
  /\ call = [p \in Procs |-> NoCall]
  /\ frame = [p \in Procs |-> "idle"]
  /\ old_values = [p \in Procs |-> Zeros]
  /\ controls_changed = [p \in Procs |-> FALSE]
  /\ do_process = [p \in Procs |-> FALSE]
  /\ lookup_table_update_counter = [p \in Procs |-> 0]
  /\ todo = [p \in Procs |-> {}]
  /\ table = [p \in Procs |-> NoTable]
  /\ used = [p \in Procs |-> NoTable]
  /\ events = 0

ConvertStep(p) ==
  StartFrame(p) \/ Compare(p) \/ Copy(p) \/ UpdateFilter(p) \/ Apply(p)

Converted(p) == CopyFrame(p) \/ ToRgb(p) \/ Process(p)

Next ==
  \E p \in Procs :
    \/ Create(p) \/ Fill(p) \/ Leave(p)
    \/ SetCtrl(p) \/ SetExtCtrls(p) \/ SetExtAnswer(p) \/ SetExtStored(p) \/ SetFormat(p)
    \/ ConvertStep(p) \/ ConvertFails(p) \/ Converted(p)

\* Viewers go on converting frames, and not every conversion fails; a driver
\* answers, and a process that fills in the memory or stores values goes on.
Fairness ==
  /\ \A p \in Viewers : WF_vars(ConvertStep(p)) /\ SF_vars(Converted(p))
  /\ \A p \in Procs : WF_vars(Fill(p) \/ SetExtAnswer(p) \/ SetExtStored(p))

Spec == Init /\ [][Next]_vars /\ Fairness

-----------------------------------------------------------------------------
TypeOK ==
  /\ device \in Devices /\ exists \in BOOLEAN
  /\ where \in [Procs -> {"none", "init", "shm", "own"}]
  /\ filled \in [Procs -> 0 .. LastWrite]
  /\ values \in [Procs \cup {"shm"} -> [Fakes -> Int]]
  /\ last \in [Procs \cup {"shm"} -> [Fakes -> Int]] /\ early \subseteq Fakes
  /\ format \in [Procs -> {"rgb", "native"}]
  /\ frame \in [Procs -> {"idle", "compare", "copy", "convert", "rgb", "update"}]
  /\ lookup_table_update_counter \in [Procs -> 0 .. UpdateRate]
  /\ old_values \in [Procs -> [Fakes -> Int]]
  /\ controls_changed \in [Procs -> BOOLEAN] /\ do_process \in [Procs -> BOOLEAN]
  /\ todo \in [Procs -> SUBSET Filters]
  /\ table \in [Procs -> [Filters -> Int]] /\ used \in [Procs -> [Filters -> Int]]
  /\ events \in 0 .. MaxEvents

(* An application that lists the controls gets every control once, in the  *)
(* order of the ids, though the driver and v4lcontrol_vidioc_queryctrl()   *)
(* each know a part; ours take the place of those the driver has disabled. *)
EnumerationWhole ==
  SupportsNext =>
    LET list == ListFrom[0]
    IN  /\ Range(list) = {[id |-> c, fake |-> c \in controls] : c \in device.hw \cup controls}
        /\ \A i \in 2 .. Len(list) : list[i - 1].id < list[i].id

(* A value that was set once the memory is filled in stays until the next  *)
(* one is set, whichever processes open the device, close it or die: they  *)
(* find the shared memory and leave it as it is (libv4lcontrol.c:721-772). *)
KeptOnceFilled ==
  \A m \in DOMAIN last : \A c \in Fakes :
    last[m][c] # Unset /\ ~(m = "shm" /\ c \in early) => values[m][c] = last[m][c]

(* "These controls are stored application wide (until reboot)"             *)
(* (README.libv4l:34): whatever is set stays until the next one is set.    *)
(* What is set before Fill is through may not, as README.md tells: no run  *)
(* has this one.                                                           *)
SetKept == \A m \in DOMAIN last : \A c \in Fakes : last[m][c] \in {Unset, values[m][c]}

\* What was set last of a control, or where that may have been overwritten what
\* its memory holds
Wish(p, c) ==
  LET m == Memory(p)
  IN  IF last[m][c] = Unset \/ (m = "shm" /\ c \in early) THEN Get(p, c) ELSE last[m][c]

\* What the frames of a process should look like
Wanted(p) == [f \in Filters |-> IF Wish(p, f) \in {0, Neutral(f)} THEN 0 ELSE Wish(p, f)]

(* Whatever is set once the memory is filled in, by any process and at any *)
(* moment, comes to be applied to the frames of every process that does    *)
(* not want them as the camera has them, also when the change falls        *)
(* between the memcmp() and the memcpy() of v4lcontrol_controls_changed()  *)
(* and is never reported: tables are computed anew after UpdateRate frames *)
(* as well.                                                                *)
ChangeShows ==
  <>[](\A p \in Viewers : Open(p) /\ format[p] # "native" => used[p] = Wanted(p))
=============================================================================
