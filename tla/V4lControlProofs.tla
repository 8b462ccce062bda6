-------------------------- MODULE V4lControlProofs --------------------------
(***************************************************************************)
(* Proofs about the software controls: for any processes, devices and       *)
(* requests, what the shared memory holds stays within the controls' ranges *)
(* and what was set stays there, and the list of controls is whole.         *)
(***************************************************************************)
EXTENDS V4lControl, WellFoundedInduction, SequenceTheorems, TLAPS

-----------------------------------------------------------------------------
(* The inductive invariant.                                                 *)

Sane(c, v) == v = 0 \/ InRange(c, v)
Memories == Procs \cup {"shm"}

\* A request that is under way has been checked, and its process has memory.
Checked ==
  \A p \in Procs : call[p] # NoCall =>
    /\ call[p] = [step |-> call[p].step, left |-> call[p].left, ctrls |-> call[p].ctrls]
    /\ call[p].left \subseteq Ours(call[p].ctrls) /\ Valid(call[p].ctrls)
    /\ Open(p)

\* Memory is zero until its creator filled it in; then each value is in its range.
ValuesSane ==
  /\ values \in [Memories -> [Fakes -> Int]]
  /\ \A m \in Memories, c \in Fakes : Sane(c, values[m][c])

CallsTyped == DOMAIN call = Procs /\ DOMAIN where = Procs

\* The shared memory is filled in once, and what is set later is kept.
Late(c) == last["shm"][c] # Unset /\ c \notin early
Kept ==
  /\ \A p \in Procs : where[p] \in {"init", "shm"} => exists
  /\ \A c \in Fakes : Late(c) => exists /\ ~Filling
  /\ KeptOnceFilled

IInv == ValuesSane /\ Checked /\ CallsTyped /\ device \in Devices

-----------------------------------------------------------------------------

LEMMA GammaInRange ==
  \A v : v \in 500 .. 3000 => v \in Int /\ InRange(GAMMA, v) /\ GAMMA \in Fakes
<1>1. Minimum(GAMMA) = 500 /\ GAMMA \in Fakes
  BY DEF Minimum, Fakes, AutoEnable
<1>2. Maximum(GAMMA) = 3000
  BY DEF Maximum, GAMMA, TARGET
<1>. QED
  BY <1>1, <1>2 DEF InRange

LEMMA DefaultsInRange ==
  ASSUME device \in Devices
  PROVE  /\ Defaults \in [Fakes -> Int] /\ Zeros \in [Fakes -> Int]
         /\ \A c \in Fakes : Sane(c, Defaults[c]) /\ Sane(c, Zeros[c])
<1>1. ASSUME NEW c \in Fakes
      PROVE  Default(c) \in Int /\ InRange(c, Default(c))
  <2>1. FakeDefault(c) \in Int /\ InRange(c, FakeDefault(c))
    BY DEF Fakes, AutoEnable, AWB, GAMMA, AUTOGAIN, HFLIP, VFLIP, TARGET, FakeDefault, InRange,
       Minimum, Maximum
  <2>2. CASE c = AWB /\ device.wantsWb
    <3>1. Default(c) = 1 /\ Minimum(c) = 0 /\ Maximum(c) = 1
      BY <2>2 DEF Default, Minimum, Maximum, AWB, GAMMA, TARGET
    <3>. QED
      BY <3>1 DEF InRange
  <2>3. CASE c = GAMMA /\ device.gamma # 0
    <3>1. c # AWB
      BY <2>3 DEF AWB, GAMMA
    <3>2. Default(c) = device.gamma
      BY <2>3, <3>1 DEF Default
    <3>3. device.gamma \in 500 .. 3000
      BY <2>3, DevicesAssumption
    <3>4. device.gamma \in Int /\ InRange(GAMMA, device.gamma)
      BY <3>3, GammaInRange
    <3>. QED
      BY <2>3, <3>2, <3>4, Zenon
  <2>4. CASE ~(c = AWB /\ device.wantsWb) /\ ~(c = GAMMA /\ device.gamma # 0)
    BY <2>1, <2>4 DEF Default
  <2>. QED
    BY <2>2, <2>3, <2>4
<1>. QED
  BY <1>1 DEF Defaults, Zeros, Sane

\* So is what the creator writes, one thing at a time.
LEMMA WritesSane ==
  ASSUME device \in Devices, NEW n \in Nat, NEW c \in DOMAIN Write(n)
  PROVE  c \in Fakes /\ Write(n)[c] \in Int /\ Sane(c, Write(n)[c])
<1>1. CASE n = 1
  BY <1>1 DEF Write, Zeros, Sane
<1>2. CASE n \in 2 .. 7
  <2>1. Write(n) = [d \in {InOrder[n - 1]} |-> FakeDefault(d)]
    BY <1>2 DEF Write
  <2>2. InOrder[n - 1] \in Fakes
    BY <1>2 DEF InOrder, Fakes, AutoEnable
  <2>3. c = InOrder[n - 1] /\ Write(n)[c] = FakeDefault(c)
    BY <2>1
  <2>4. FakeDefault(c) \in Int /\ InRange(c, FakeDefault(c))
    BY <2>2, <2>3 DEF Fakes, AutoEnable, AWB, GAMMA, AUTOGAIN, HFLIP, VFLIP, TARGET,
       FakeDefault, InRange, Minimum, Maximum
  <2>. QED
    BY <2>2, <2>3, <2>4 DEF Sane
<1>3. CASE n = 8
  BY <1>3 DEF Write, Fakes, AutoEnable, Sane, InRange, Minimum, Maximum, AWB, GAMMA, TARGET
<1>4. CASE n \notin 1 .. 8
  <2>1. Write(n) = [d \in (IF device.gamma # 0 THEN {GAMMA} ELSE {}) |-> device.gamma]
    BY <1>4 DEF Write
  <2>2. c = GAMMA /\ device.gamma # 0 /\ Write(n)[c] = device.gamma
    BY <2>1
  <2>3. device.gamma \in 500 .. 3000
    BY <2>2, DevicesAssumption
  <2>4. device.gamma \in Int /\ InRange(GAMMA, device.gamma) /\ GAMMA \in Fakes
    BY <2>3, GammaInRange
  <2>. QED
    BY <2>2, <2>4, Zenon DEF Sane
<1>. QED
  BY <1>1, <1>2, <1>3, <1>4

LEMMA RangeIsInt ==
  ASSUME NEW c \in Fakes, NEW v, InRange(c, v)
  PROVE  v \in Int /\ Sane(c, v)
BY DEF InRange, Sane, Minimum, Maximum

LEMMA OursAreFakes == \A r : Ours(r) \subseteq Fakes
BY DEF Ours, controls, Fakes, AutoEnable

\* Only these steps change the controls' memory or a request.
LEMMA OthersKeep ==
  ASSUME [Next]_vars,
         ~\E p \in Procs : \/ Create(p) \/ Fill(p) \/ Leave(p) \/ SetCtrl(p)
                           \/ SetExtCtrls(p) \/ SetExtStored(p) \/ SetExtAnswer(p)
  PROVE  UNCHANGED <<device, exists, where, values, call, last, early>>
BY DEF Next, vars, store, history, ConvertStep, StartFrame, Compare, Copy, UpdateFilter, Apply,
       Converted, CopyFrame, ToRgb, ConvertFails, Process, SetFormat

LEMMA DeviceStays ==
  ASSUME [Next]_vars
  PROVE  UNCHANGED device
BY DEF Next, vars, store, ConvertStep, StartFrame, Compare, Copy, UpdateFilter, Apply, Converted,
       CopyFrame, ToRgb, ConvertFails, Process, Create, Fill, Leave, SetCtrl, SetExtCtrls,
       SetExtStored, SetExtAnswer, SetFormat

\* One control is assigned, of those libv4l provides and in its range.
LEMMA Assigns ==
  ASSUME IInv, NEW p \in Procs, SetCtrl(p) \/ SetExtStored(p)
  PROVE  /\ Open(p)
         /\ \E c \in Fakes, v \in Int : Assign(p, c, v) /\ Sane(c, v)
         /\ UNCHANGED <<device, exists, where>>
<1>1. CASE SetCtrl(p)
  <2>1. PICK r \in Requests : \E c \in Ours(r) : InRange(c, r[c]) /\ Assign(p, c, r[c])
    BY <1>1 DEF SetCtrl
  <2>2. Open(p) /\ UNCHANGED <<device, exists, where>>
    BY <1>1 DEF SetCtrl
  <2>. QED
    BY <2>1, <2>2, OursAreFakes, RangeIsInt
<1>2. CASE SetExtStored(p)
  <2>1. PICK c \in call[p].left : Assign(p, c, call[p].ctrls[c])
    BY <1>2 DEF SetExtStored
  <2>2. c \in Ours(call[p].ctrls) /\ Valid(call[p].ctrls) /\ Open(p)
    BY <1>2 DEF IInv, Checked, SetExtStored
  <2>3. InRange(c, call[p].ctrls[c]) /\ c \in Fakes
    BY <2>2, OursAreFakes DEF Valid
  <2>4. UNCHANGED <<device, exists, where>>
    BY <1>2 DEF SetExtStored
  <2>. QED
    BY <2>1, <2>2, <2>3, <2>4, RangeIsInt
<1>. QED
  BY <1>1, <1>2

LEMMA ValuesStep ==
  ASSUME IInv, [Next]_vars, TypeOK
  PROVE  ValuesSane'
<1> USE DEF IInv
<1>1. CASE UNCHANGED values
  BY <1>1 DEF ValuesSane
\* Memory m is given other contents.
<1>2. ASSUME NEW m, NEW f \in [Fakes -> Int], \A c \in Fakes : Sane(c, f[c]),
             values' = [values EXCEPT ![m] = f]
      PROVE  ValuesSane'
  BY <1>2 DEF ValuesSane
<1>3. ASSUME NEW p \in Procs, Create(p)
      PROVE  ValuesSane'
  BY <1>1, <1>2, <1>3, DefaultsInRange DEF Create
<1>4. ASSUME NEW p \in Procs, Fill(p)
      PROVE  ValuesSane'
  <2>. DEFINE n == filled[p] + 1
              f == Over(values["shm"], Write(n))
  <2>1. values' = [values EXCEPT !["shm"] = f]
    BY <1>4 DEF Fill
  <2>2. n \in Nat
    <3>1. filled[p] \in 0 .. LastWrite
      BY DEF TypeOK
    <3>. QED
      BY <3>1 DEF LastWrite
  <2>3. values["shm"] \in [Fakes -> Int] /\ \A c \in Fakes : Sane(c, values["shm"][c])
    BY DEF ValuesSane, Memories
  <2> HIDE DEF n
  <2>4. f \in [Fakes -> Int] /\ \A c \in Fakes : Sane(c, f[c])
    BY <2>2, <2>3, WritesSane DEF Over
  <2> HIDE DEF f
  <2>. QED
    BY <1>2, <2>1, <2>4
<1>5. ASSUME NEW p \in Procs, SetCtrl(p) \/ SetExtStored(p)
      PROVE  ValuesSane'
  <2>1. PICK c \in Fakes, v \in Int : Assign(p, c, v) /\ Sane(c, v)
    BY <1>5, Assigns
  <2>. DEFINE f == [values[Memory(p)] EXCEPT ![c] = v]
  <2>2. Memory(p) \in Memories
    BY DEF Memory, Memories
  <2>3. values[Memory(p)] \in [Fakes -> Int] /\ \A d \in Fakes : Sane(d, values[Memory(p)][d])
    BY <2>2 DEF ValuesSane
  <2>4. f \in [Fakes -> Int] /\ \A d \in Fakes : Sane(d, f[d])
    BY <2>1, <2>3
  <2>5. values' = [values EXCEPT ![Memory(p)] = f]
    BY <2>1 DEF Assign
  <2> HIDE DEF f
  <2>. QED
    BY <1>2, <2>4, <2>5
<1>6. ASSUME NEW p \in Procs, Leave(p) \/ SetExtCtrls(p) \/ SetExtAnswer(p)
      PROVE  UNCHANGED values
  BY <1>6 DEF Leave, SetExtCtrls, SetExtAnswer, store
<1>. QED
  BY <1>1, <1>3, <1>4, <1>5, <1>6, OthersKeep

LEMMA CheckedStep ==
  ASSUME IInv, [Next]_vars
  PROVE  Checked' /\ CallsTyped' /\ (device \in Devices)'
<1> USE DEF IInv, CallsTyped
<1>0. (device \in Devices)'
  BY DeviceStays
<1>1. \A r : (Valid(r)' <=> Valid(r)) /\ Ours(r)' = Ours(r)
  BY DeviceStays DEF Valid, Ours, controls, Enabled, InRange
<1>2. CASE UNCHANGED <<call, where>>
  BY <1>0, <1>1, <1>2 DEF Checked, Open
\* Process p has another request under way, or none.
<1>3. ASSUME NEW p \in Procs, NEW r, call' = [call EXCEPT ![p] = r], UNCHANGED where,
             r = NoCall \/ /\ r = [step |-> r.step, left |-> r.left, ctrls |-> r.ctrls]
                           /\ r.left \subseteq Ours(r.ctrls) /\ Valid(r.ctrls) /\ Open(p)
      PROVE  Checked' /\ CallsTyped'
  <2>1. DOMAIN call' = Procs /\ DOMAIN where' = Procs
    BY <1>3
  <2>2. ASSUME NEW q \in Procs, call'[q] # NoCall
        PROVE  /\ call'[q] = [step |-> call'[q].step, left |-> call'[q].left, ctrls |-> call'[q].ctrls]
               /\ call'[q].left \subseteq Ours(call'[q].ctrls) /\ Valid(call'[q].ctrls)
               /\ Open(q)
    <3>1. CASE q = p
      BY <1>3, <2>2, <3>1
    <3>2. CASE q # p
      BY <1>3, <2>2, <3>2 DEF Checked
    <3>. QED
      BY <3>1, <3>2
  <2>3. \A q \in Procs : Open(q)' <=> Open(q)
    BY <1>3 DEF Open
  <2>. QED
    BY <1>1, <2>1, <2>2, <2>3 DEF Checked
<1>4. ASSUME NEW p \in Procs, SetExtCtrls(p)
      PROVE  Checked' /\ CallsTyped'
  <2>1. PICK r \in Requests :
          /\ Valid(r) /\ Open(p)
          /\ call' = [call EXCEPT ![p] = [step |-> "ask", left |-> Ours(r), ctrls |-> r]]
    BY <1>4 DEF SetExtCtrls
  <2>2. UNCHANGED where
    BY <1>4 DEF SetExtCtrls, store
  <2>. QED
    BY <1>3, <2>1, <2>2
<1>5. ASSUME NEW p \in Procs, SetExtAnswer(p)
      PROVE  Checked' /\ CallsTyped'
  <2>1. CASE call' = [call EXCEPT ![p] = NoCall]
    BY <1>3, <1>5, <2>1 DEF SetExtAnswer, store
  <2>2. CASE call' = [call EXCEPT ![p].step = "store"]
    <3>. DEFINE r == [step |-> "store", left |-> call[p].left, ctrls |-> call[p].ctrls]
    <3>1. /\ call[p] = [step |-> call[p].step, left |-> call[p].left, ctrls |-> call[p].ctrls]
          /\ call[p].left \subseteq Ours(call[p].ctrls) /\ Valid(call[p].ctrls) /\ Open(p)
      BY <1>5 DEF SetExtAnswer, Checked
    <3>2. call' = [call EXCEPT ![p] = r]
      <4>. DEFINE a == call[p].step
                  l == call[p].left
                  k == call[p].ctrls
      <4>3. call[p] = [step |-> a, left |-> l, ctrls |-> k]
        BY <3>1
      <4>4. r = [step |-> "store", left |-> l, ctrls |-> k]
        OBVIOUS
      <4> HIDE DEF a, l, k, r
      <4>1. [call[p] EXCEPT !.step = "store"] = r
        BY <4>3, <4>4
      <4>2. call' = [call EXCEPT ![p] = [call[p] EXCEPT !.step = "store"]]
        BY <2>2
      <4>. QED
        BY <4>1, <4>2
    <3>3. UNCHANGED where
      BY <1>5 DEF SetExtAnswer, store
    <3>. QED
      BY <1>3, <3>1, <3>2, <3>3
  <2>. QED
    BY <1>5, <2>1, <2>2 DEF SetExtAnswer
<1>6. ASSUME NEW p \in Procs, SetExtStored(p)
      PROVE  Checked' /\ CallsTyped'
  <2>1. PICK c \in call[p].left :
          call' = [call EXCEPT ![p] = IF call[p].left = {c} THEN NoCall
                                     ELSE [call[p] EXCEPT !.left = @ \ {c}]]
    BY <1>6 DEF SetExtStored
  <2>. DEFINE r == [step |-> call[p].step, left |-> call[p].left \ {c}, ctrls |-> call[p].ctrls]
  <2>2. /\ call[p] = [step |-> call[p].step, left |-> call[p].left, ctrls |-> call[p].ctrls]
        /\ call[p].left \subseteq Ours(call[p].ctrls) /\ Valid(call[p].ctrls) /\ Open(p)
    BY <1>6 DEF SetExtStored, Checked
  <2>3. [call[p] EXCEPT !.left = @ \ {c}] = r
    BY <2>2
  <2>4. UNCHANGED where
    BY <1>6 DEF SetExtStored
  <2>. QED
    BY <1>3, <2>1, <2>2, <2>3, <2>4
<1>7. ASSUME NEW p \in Procs, Create(p) \/ Fill(p) \/ Leave(p)
      PROVE  Checked' /\ CallsTyped'
  <2>1. DOMAIN call' = Procs /\ DOMAIN where' = Procs
    BY <1>7 DEF Create, Fill, Leave
  <2>2. ASSUME NEW q \in Procs, q # p
        PROVE  call'[q] = call[q] /\ Open(q)' = Open(q)
    BY <1>7, <2>2 DEF Create, Fill, Leave, Open
  <2>3. call'[p] = NoCall
    BY <1>7 DEF Create, Fill, Leave, Checked, Open
  <2>. QED
    BY <1>1, <2>1, <2>2, <2>3 DEF Checked
<1>8. ASSUME NEW p \in Procs, SetCtrl(p)
      PROVE  UNCHANGED <<call, where>>
  BY <1>8 DEF SetCtrl
<1>. QED
  BY <1>0, <1>2, <1>4, <1>5, <1>6, <1>7, <1>8, OthersKeep

-----------------------------------------------------------------------------
(* Types.                                                                   *)

Places == {"none", "init", "shm", "own"}
Stages == {"idle", "compare", "copy", "convert", "rgb", "update"}

\* Whoever still fills the memory in has a write to do.
Pending == \A p \in Procs : where[p] = "init" => filled[p] < LastWrite

LEMMA StoreTyped ==
  ASSUME TypeOK, Pending, [Next]_vars
  PROVE  /\ device' \in Devices /\ exists' \in BOOLEAN /\ where' \in [Procs -> Places]
         /\ filled' \in [Procs -> 0 .. LastWrite] /\ Pending'
<1>1. /\ device \in Devices /\ exists \in BOOLEAN /\ where \in [Procs -> Places]
      /\ filled \in [Procs -> 0 .. LastWrite]
  BY DEF TypeOK, Places
<1>2. UNCHANGED exists \/ exists' = TRUE
  BY DEF Next, vars, store, history, ConvertStep, StartFrame, Compare, Copy, UpdateFilter, Apply, Converted,
         CopyFrame, ToRgb, ConvertFails, Process, Create, Fill, Leave, SetCtrl, SetExtCtrls,
         SetExtAnswer, SetExtStored, SetFormat
<1>3. UNCHANGED <<where, filled>> \/ \E p \in Procs : Create(p) \/ Fill(p) \/ Leave(p)
  BY DEF Next, vars, store, history, ConvertStep, StartFrame, Compare, Copy, UpdateFilter, Apply, Converted,
         CopyFrame, ToRgb, ConvertFails, Process, Create, Fill, Leave, SetCtrl, SetExtCtrls,
         SetExtAnswer, SetExtStored, SetFormat
<1>4. exists' \in BOOLEAN
  BY <1>1, <1>2
\* Process p gets another place and count.
<1>5. ASSUME NEW p \in Procs, NEW w \in Places, NEW n \in 0 .. LastWrite,
             where' = [where EXCEPT ![p] = w], filled' = [filled EXCEPT ![p] = n],
             w = "init" => n < LastWrite
      PROVE  where' \in [Procs -> Places] /\ filled' \in [Procs -> 0 .. LastWrite] /\ Pending'
  BY <1>1, <1>5 DEF Pending
<1>6. ASSUME NEW p \in Procs, Create(p)
      PROVE  where' \in [Procs -> Places] /\ filled' \in [Procs -> 0 .. LastWrite] /\ Pending'
  <2>1. \E w \in Places : where' = [where EXCEPT ![p] = w]
    BY <1>6 DEF Create, Places
  <2>2. filled' = [filled EXCEPT ![p] = 0] /\ 0 \in 0 .. LastWrite /\ 0 < LastWrite
    BY <1>6 DEF Create, LastWrite
  <2>. QED
    BY <1>5, <2>1, <2>2
<1>7. ASSUME NEW p \in Procs, Fill(p)
      PROVE  where' \in [Procs -> Places] /\ filled' \in [Procs -> 0 .. LastWrite] /\ Pending'
  <2>. DEFINE n == filled[p] + 1
  <2>1. filled[p] \in 0 .. LastWrite /\ filled[p] < LastWrite
    BY <1>1, <1>7 DEF Fill, Pending
  <2>2. n \in 0 .. LastWrite /\ (n # LastWrite => n < LastWrite)
    BY <2>1 DEF LastWrite
  <2>3. filled' = [filled EXCEPT ![p] = n]
    BY <1>7 DEF Fill
  <2>4. where[p] = "init" /\ where' = IF n = LastWrite THEN [where EXCEPT ![p] = "shm"] ELSE where
    BY <1>7 DEF Fill
  <2> HIDE DEF n
  <2>5. where = [where EXCEPT ![p] = "init"]
    BY <1>1, <2>4
  <2>6. "shm" \in Places /\ "init" \in Places
    BY DEF Places
  <2>. QED
    BY <1>5, <2>2, <2>3, <2>4, <2>5, <2>6
<1>8. ASSUME NEW p \in Procs, Leave(p)
      PROVE  where' \in [Procs -> Places] /\ filled' \in [Procs -> 0 .. LastWrite] /\ Pending'
  <2>1. where' = [where EXCEPT ![p] = "none"] /\ UNCHANGED filled
    BY <1>8 DEF Leave, store
  <2>. QED
    BY <1>1, <2>1 DEF Pending, Places
<1>9. ASSUME UNCHANGED <<where, filled>>
      PROVE  where' \in [Procs -> Places] /\ filled' \in [Procs -> 0 .. LastWrite] /\ Pending'
  <2>1. where' = where /\ filled' = filled
    BY <1>9
  <2>2. Pending'
    BY <2>1 DEF Pending
  <2>. QED
    BY <1>1, <2>1, <2>2
<1>. QED
  BY <1>1, <1>3, <1>4, <1>6, <1>7, <1>8, <1>9, DeviceStays

\* A process that starts anew has what calloc() gives.
LEMMA FreshTyped ==
  ASSUME TypeOK, NEW p, FreshData(p)
  PROVE  /\ frame' \in [Procs -> Stages]
         /\ lookup_table_update_counter' \in [Procs -> 0 .. UpdateRate]
         /\ old_values' \in [Procs -> [Fakes -> Int]]
         /\ controls_changed' \in [Procs -> BOOLEAN] /\ do_process' \in [Procs -> BOOLEAN]
         /\ todo' \in [Procs -> SUBSET Filters]
         /\ table' \in [Procs -> [Filters -> Int]] /\ used' \in [Procs -> [Filters -> Int]]
<1>1. Zeros \in [Fakes -> Int] /\ NoTable \in [Filters -> Int]
  BY DEF Zeros, NoTable, Filters
<1>2. 0 \in 0 .. UpdateRate
  BY RateAssumption
<1>3. frame' \in [Procs -> Stages] /\ todo' \in [Procs -> SUBSET Filters]
  BY DEF FreshData, TypeOK, Stages
<1>4. controls_changed' \in [Procs -> BOOLEAN] /\ do_process' \in [Procs -> BOOLEAN]
  BY DEF FreshData, TypeOK
<1>5. lookup_table_update_counter' \in [Procs -> 0 .. UpdateRate]
  BY <1>2 DEF FreshData, TypeOK
<1>6. old_values' \in [Procs -> [Fakes -> Int]]
  BY <1>1 DEF FreshData, TypeOK
<1>7. table' \in [Procs -> [Filters -> Int]] /\ used' \in [Procs -> [Filters -> Int]]
  BY <1>1 DEF FreshData, TypeOK
<1>. QED
  BY <1>3, <1>4, <1>5, <1>6, <1>7

\* The value of a control is an integer.
LEMMA GetTyped ==
  ASSUME TypeOK, NEW p \in Procs, NEW f \in Filters
  PROVE  Get(p, f) \in Int
<1>1. Memory(p) \in Procs \cup {"shm"}
  BY DEF Memory
<1>2. f \in Fakes
  BY DEF Filters, Fakes, AutoEnable
<1>. QED
  BY <1>1, <1>2 DEF TypeOK, Get

LEMMA FramesTyped ==
  ASSUME TypeOK, [Next]_vars
  PROVE  /\ frame' \in [Procs -> Stages]
         /\ lookup_table_update_counter' \in [Procs -> 0 .. UpdateRate]
         /\ old_values' \in [Procs -> [Fakes -> Int]]
         /\ controls_changed' \in [Procs -> BOOLEAN] /\ do_process' \in [Procs -> BOOLEAN]
         /\ todo' \in [Procs -> SUBSET Filters]
         /\ table' \in [Procs -> [Filters -> Int]] /\ used' \in [Procs -> [Filters -> Int]]
<1>. DEFINE Frames == /\ frame \in [Procs -> Stages]
                      /\ lookup_table_update_counter \in [Procs -> 0 .. UpdateRate]
                      /\ old_values \in [Procs -> [Fakes -> Int]]
                      /\ controls_changed \in [Procs -> BOOLEAN] /\ do_process \in [Procs -> BOOLEAN]
                      /\ todo \in [Procs -> SUBSET Filters]
                      /\ table \in [Procs -> [Filters -> Int]] /\ used \in [Procs -> [Filters -> Int]]
<1>1. Frames
  BY DEF TypeOK, Stages
<1>2. UNCHANGED frames => Frames'
  BY <1>1 DEF frames
<1>3. ASSUME NEW p \in Procs, Create(p) \/ Leave(p)
      PROVE  Frames'
  BY <1>3, FreshTyped DEF Create, Leave
<1>4. ASSUME NEW p \in Procs, StartFrame(p)
      PROVE  Frames'
  <2>1. frame' \in [Procs -> Stages]
    BY <1>1, <1>4 DEF StartFrame, Stages
  <2>2. do_process' \in [Procs -> BOOLEAN]
    BY <1>1, <1>4 DEF StartFrame
  <2>. QED
    BY <1>1, <1>4, <2>1, <2>2 DEF StartFrame
<1>5. ASSUME NEW p \in Procs, Compare(p)
      PROVE  Frames'
  <2>1. frame' \in [Procs -> Stages]
    BY <1>1, <1>5 DEF Compare, Stages
  <2>2. controls_changed' \in [Procs -> BOOLEAN]
    BY <1>1, <1>5 DEF Compare
  <2>. QED
    BY <1>1, <1>5, <2>1, <2>2 DEF Compare
<1>6. ASSUME NEW p \in Procs, Copy(p)
      PROVE  Frames'
  <2>1. frame' \in [Procs -> Stages]
    BY <1>1, <1>6 DEF Copy, Stages
  <2>2. values[Memory(p)] \in [Fakes -> Int]
    BY DEF TypeOK, Memory
  <2>3. old_values' \in [Procs -> [Fakes -> Int]]
    BY <1>1, <1>6, <2>2 DEF Copy
  <2>. QED
    BY <1>1, <1>6, <2>1, <2>3 DEF Copy
<1>7. ASSUME NEW p \in Procs, ConvertFails(p)
      PROVE  Frames'
  <2>1. frame' \in [Procs -> Stages]
    BY <1>1, <1>7 DEF ConvertFails, Stages
  <2>. QED
    BY <1>1, <1>7, <2>1 DEF ConvertFails
<1>14. ASSUME NEW p \in Procs, CopyFrame(p)
       PROVE  Frames'
  <2>1. frame' \in [Procs -> Stages]
    BY <1>1, <1>14 DEF CopyFrame, Stages
  <2>2. NoTable \in [Filters -> Int]
    BY DEF NoTable, Filters
  <2>3. used' \in [Procs -> [Filters -> Int]]
    BY <1>1, <1>14, <2>2 DEF CopyFrame
  <2>. QED
    BY <1>1, <1>14, <2>1, <2>3 DEF CopyFrame
<1>15. ASSUME NEW p \in Procs, ToRgb(p)
       PROVE  Frames'
  <2>1. frame' \in [Procs -> Stages]
    BY <1>1, <1>15 DEF ToRgb, Stages
  <2>. QED
    BY <1>1, <1>15, <2>1 DEF ToRgb
<1>8. ASSUME NEW p \in Procs, Process(p)
      PROVE  Frames'
  <2>1. frame' \in [Procs -> Stages]
    <3>1. \/ frame' = [frame EXCEPT ![p] = "idle"]
          \/ frame' = [frame EXCEPT ![p] = "update"]
      BY <1>8, Zenon DEF Process
    <3> QED BY <1>1, <3>1 DEF Stages
  <2>2. NoTable \in [Filters -> Int]
    BY DEF NoTable, Filters
  <2>3. used' \in [Procs -> [Filters -> Int]] /\ table' \in [Procs -> [Filters -> Int]]
    <3>1. \/ UNCHANGED used \/ used' = [used EXCEPT ![p] = table[p]]
          \/ used' = [used EXCEPT ![p] = NoTable]
      BY <1>8, Zenon DEF Process
    <3>2. UNCHANGED table \/ table' = [table EXCEPT ![p] = NoTable]
      BY <1>8, Zenon DEF Process
    <3>3. used \in [Procs -> [Filters -> Int]] /\ table \in [Procs -> [Filters -> Int]]
      BY <1>1
    <3>4. table[p] \in [Filters -> Int]
      BY <3>3
    <3>5. table' \in [Procs -> [Filters -> Int]]
      BY <2>2, <3>2, <3>3
    <3>6. used' \in [Procs -> [Filters -> Int]]
      BY <2>2, <3>1, <3>3, <3>4
    <3>. QED
      BY <3>5, <3>6
  <2>4. todo' \in [Procs -> SUBSET Filters]
    <3>1. UNCHANGED todo \/ todo' = [todo EXCEPT ![p] = Filters]
      BY <1>8, Zenon DEF Process
    <3>. QED
      BY <1>1, <3>1
  <2>5. controls_changed' \in [Procs -> BOOLEAN]
    BY <1>1, <1>8 DEF Process
  <2>8. do_process' \in [Procs -> BOOLEAN]
    BY <1>1, <1>8 DEF Process
  <2>6. lookup_table_update_counter' \in [Procs -> 0 .. UpdateRate]
    <3>1. lookup_table_update_counter[p] \in 0 .. UpdateRate
      BY <1>1
    <3>2. lookup_table_update_counter[p] # UpdateRate =>
            NextCount(lookup_table_update_counter[p]) \in 0 .. UpdateRate
      BY <3>1, RateAssumption DEF NextCount
    <3>3. 0 \in 0 .. UpdateRate
      BY RateAssumption
    <3>4. \/ UNCHANGED lookup_table_update_counter
          \/ lookup_table_update_counter' = [lookup_table_update_counter EXCEPT ![p] = 0]
          \/ /\ lookup_table_update_counter[p] # UpdateRate
             /\ lookup_table_update_counter' =
                  [lookup_table_update_counter EXCEPT ![p] = NextCount(lookup_table_update_counter[p])]
      BY <1>8 DEF Process, UpdateDue
    <3>. QED
      BY <1>1, <3>2, <3>3, <3>4
  <2>7. UNCHANGED old_values
    BY <1>8 DEF Process
  <2>. QED
    BY <1>1, <2>1, <2>3, <2>4, <2>5, <2>6, <2>7, <2>8
<1>9. ASSUME NEW p \in Procs, UpdateFilter(p)
      PROVE  Frames'
  <2>1. PICK f \in todo[p] :
          /\ todo' = [todo EXCEPT ![p] = @ \ {f}]
          /\ table' = [table EXCEPT ![p][f] = IF Active(p, f) THEN Get(p, f) ELSE 0]
          /\ \E n \in (IF Active(p, f) THEN Asked(f, lookup_table_update_counter[p])
                      ELSE {lookup_table_update_counter[p]}) :
              lookup_table_update_counter' = [lookup_table_update_counter EXCEPT ![p] = n]
    <3>1. todo[p] # {} /\ todo[p] \subseteq {AWB, AUTOGAIN, GAMMA}
      BY <1>1, <1>9 DEF UpdateFilter, Filters
    <3>2. \E g \in todo[p] :
            g = (IF AWB \in todo[p] THEN AWB ELSE IF AUTOGAIN \in todo[p] THEN AUTOGAIN ELSE GAMMA)
      BY <3>1
    <3>. QED
      BY <1>9, <3>2 DEF UpdateFilter
  <2>2. f \in Filters
    BY <1>1
  <2>3. todo' \in [Procs -> SUBSET Filters]
    BY <1>1, <2>1
  <2>4. table' \in [Procs -> [Filters -> Int]]
    <3>1. Get(p, f) \in Int
      BY <2>2, GetTyped
    <3>. DEFINE t == [table[p] EXCEPT ![f] = IF Active(p, f) THEN Get(p, f) ELSE 0]
    <3>2. t \in [Filters -> Int]
      BY <1>1, <3>1
    <3>3. table' = [table EXCEPT ![p] = t]
      BY <2>1
    <3> HIDE DEF t
    <3>. QED
      BY <1>1, <3>2, <3>3
  <2>5. lookup_table_update_counter' \in [Procs -> 0 .. UpdateRate]
    <3>1. lookup_table_update_counter[p] \in 0 .. UpdateRate
      BY <1>1
    <3>2. Asked(f, lookup_table_update_counter[p]) \subseteq 0 .. UpdateRate
      BY <3>1, RateAssumption DEF Asked
    <3>3. \E n \in 0 .. UpdateRate :
            lookup_table_update_counter' = [lookup_table_update_counter EXCEPT ![p] = n]
      BY <2>1, <3>1, <3>2
    <3>. QED
      BY <1>1, <3>3
  <2>6. UNCHANGED <<frame, old_values, controls_changed, do_process, used>>
    BY <1>9 DEF UpdateFilter
  <2>. QED
    BY <1>1, <2>3, <2>4, <2>5, <2>6
<1>10. ASSUME NEW p \in Procs, Apply(p)
       PROVE  Frames'
  <2>1. frame' \in [Procs -> Stages]
    BY <1>1, <1>10 DEF Apply, Stages
  <2>2. used' \in [Procs -> [Filters -> Int]]
    BY <1>1, <1>10 DEF Apply
  <2>3. do_process' \in [Procs -> BOOLEAN]
    BY <1>1, <1>10 DEF Apply
  <2>. QED
    BY <1>1, <1>10, <2>1, <2>2, <2>3 DEF Apply
<1>11. ASSUME NEW p \in Procs, Fill(p) \/ SetCtrl(p) \/ SetExtCtrls(p) \/ SetExtStored(p)
                               \/ SetExtAnswer(p) \/ SetFormat(p)
       PROVE  UNCHANGED frames
  BY <1>11 DEF Fill, SetCtrl, SetExtCtrls, SetExtStored, SetExtAnswer, SetFormat
<1>12. UNCHANGED vars => UNCHANGED frames
  BY DEF vars
<1> HIDE DEF Frames
<1>13. Frames'
  BY <1>2, <1>3, <1>4, <1>5, <1>6, <1>7, <1>8, <1>9, <1>10, <1>11, <1>12, <1>14, <1>15
     DEF Next, ConvertStep, Converted
<1>. QED
  BY <1>13 DEF Frames

\* What is assigned is an integer, and the format of a process one of two.
LEMMA HistoryTyped ==
  ASSUME TypeOK, IInv, [Next]_vars
  PROVE  /\ last' \in [Procs \cup {"shm"} -> [Fakes -> Int]] /\ early' \subseteq Fakes
         /\ format' \in [Procs -> {"rgb", "native"}]
<1>1. /\ last \in [Procs \cup {"shm"} -> [Fakes -> Int]] /\ early \subseteq Fakes
      /\ format \in [Procs -> {"rgb", "native"}]
  BY DEF TypeOK
<1>2. UNCHANGED format \/ \E p \in Procs, f \in {"rgb", "native"} : format' = [format EXCEPT ![p] = f]
  BY DEF Next, vars, store, history, ConvertStep, StartFrame, Compare, Copy, UpdateFilter, Apply, Converted,
         CopyFrame, ToRgb, ConvertFails, Process, Create, Fill, Leave, SetCtrl, SetExtCtrls,
         SetExtAnswer, SetExtStored, SetFormat
<1>3. format' \in [Procs -> {"rgb", "native"}]
  BY <1>1, <1>2
<1>4. ASSUME NEW p \in Procs, Create(p)
      PROVE  last' \in [Procs \cup {"shm"} -> [Fakes -> Int]] /\ early' \subseteq Fakes
  <2>1. NothingSet \in [Fakes -> Int]
    BY DEF NothingSet, Unset
  <2>2. UNCHANGED last \/ last' = [last EXCEPT ![p] = NothingSet]
    BY <1>4 DEF Create
  <2>3. UNCHANGED early
    BY <1>4 DEF Create
  <2>. QED
    BY <1>1, <2>1, <2>2, <2>3
<1>5. ASSUME NEW p \in Procs, SetCtrl(p) \/ SetExtStored(p)
      PROVE  last' \in [Procs \cup {"shm"} -> [Fakes -> Int]] /\ early' \subseteq Fakes
  <2>1. PICK c \in Fakes, v \in Int : Assign(p, c, v)
    BY <1>5, Assigns
  <2>2. Memory(p) \in Procs \cup {"shm"}
    BY DEF Memory
  <2>. DEFINE f == [last[Memory(p)] EXCEPT ![c] = v]
  <2>3. f \in [Fakes -> Int]
    BY <1>1, <2>2
  <2>4. last' = [last EXCEPT ![Memory(p)] = f]
    BY <2>1 DEF Assign
  <2>5. early' \subseteq Fakes
    BY <1>1, <2>1 DEF Assign
  <2> HIDE DEF f
  <2>. QED
    BY <1>1, <2>3, <2>4, <2>5
<1>6. ASSUME NEW p \in Procs, Fill(p) \/ Leave(p) \/ SetExtCtrls(p) \/ SetExtAnswer(p)
      PROVE  UNCHANGED <<last, early>>
  BY <1>6 DEF Fill, Leave, SetExtCtrls, SetExtAnswer, history
<1>. QED
  BY <1>1, <1>3, <1>4, <1>5, <1>6, OthersKeep

LEMMA CountTyped ==
  ASSUME TypeOK, [Next]_vars
  PROVE  events' \in 0 .. MaxEvents
<1>1. UNCHANGED events \/ (events < MaxEvents /\ events' = events + 1)
  BY DEF Next, vars, ConvertStep, StartFrame, Compare, Copy, UpdateFilter, Apply, Converted,
         CopyFrame, ToRgb, ConvertFails, Process, Create, Fill, Leave, SetCtrl, SetExtCtrls,
         SetExtAnswer, SetExtStored, SetFormat
<1>2. events \in 0 .. MaxEvents
  BY DEF TypeOK
<1>. QED
  BY <1>1, <1>2, BoundAssumption

LEMMA InitTyped ==
  ASSUME Init
  PROVE  TypeOK /\ Pending /\ IInv
<1>1. /\ device \in Devices /\ exists \in BOOLEAN /\ where \in [Procs -> Places]
      /\ frame \in [Procs -> Stages] /\ early \subseteq Fakes
      /\ format \in [Procs -> {"rgb", "native"}]
  BY DEF Init, Places, Stages
<1>11. filled \in [Procs -> 0 .. LastWrite]
  BY DEF Init, LastWrite
<1>2. values \in [Procs \cup {"shm"} -> [Fakes -> Int]] /\ old_values \in [Procs -> [Fakes -> Int]]
  BY DefaultsInRange DEF Init
<1>3. lookup_table_update_counter \in [Procs -> 0 .. UpdateRate]
  BY RateAssumption DEF Init
<1>4. controls_changed \in [Procs -> BOOLEAN] /\ do_process \in [Procs -> BOOLEAN]
      /\ todo \in [Procs -> SUBSET Filters]
  BY DEF Init
<1>5. NoTable \in [Filters -> Int] /\ NothingSet \in [Fakes -> Int]
  BY DEF NoTable, Filters, NothingSet, Unset
<1>6. table \in [Procs -> [Filters -> Int]] /\ used \in [Procs -> [Filters -> Int]]
      /\ last \in [Procs \cup {"shm"} -> [Fakes -> Int]]
  BY <1>5 DEF Init
<1>7. events \in 0 .. MaxEvents
  BY BoundAssumption DEF Init
<1>8. TypeOK
  BY <1>1, <1>2, <1>3, <1>4, <1>6, <1>7, <1>11 DEF TypeOK, Places, Stages
<1>9. Pending
  BY DEF Init, Pending, LastWrite
<1>10. IInv
  BY DefaultsInRange DEF Init, IInv, ValuesSane, Memories, Checked, CallsTyped
<1>. QED
  BY <1>8, <1>9, <1>10

LEMMA TypeStep ==
  ASSUME TypeOK, Pending, IInv, [Next]_vars
  PROVE  TypeOK' /\ Pending' /\ IInv'
<1>1. ValuesSane' /\ Checked' /\ CallsTyped' /\ (device \in Devices)'
  BY ValuesStep, CheckedStep
<1>2. values' \in [Procs \cup {"shm"} -> [Fakes -> Int]]
  BY <1>1 DEF ValuesSane, Memories
<1>. QED
  BY <1>1, <1>2, StoreTyped, FramesTyped, HistoryTyped, CountTyped DEF TypeOK, Places, Stages, IInv

\* Every variable keeps its type: the counter of the lookup tables never passes
\* UpdateRate, and no table holds anything but values.
THEOREM TypeCorrect == Spec => []TypeOK
BY InitTyped, TypeStep, PTL DEF Spec

\* The shared values stay in their ranges, or zero in memory that is still being
\* filled in: v4lcontrol_create(), v4lcontrol_vidioc_s_ctrl() and
\* v4lcontrol_vidioc_s_ext_ctrls() of any processes.
THEOREM ValuesStaySane == Spec => []ValuesSane
<1>1. IInv => ValuesSane
  BY DEF IInv
<1>. QED
  BY <1>1, InitTyped, TypeStep, PTL DEF Spec

-----------------------------------------------------------------------------
(* What is set once the memory is filled in stays.                          *)

\* A process's memory is the shared one, which then is there, or its own.
LEMMA AssignKeeps ==
  ASSUME TypeOK, Kept, NEW p \in Procs, Open(p), NEW c \in Fakes, NEW v \in Int, Assign(p, c, v),
         UNCHANGED <<exists, where>>
  PROVE  Kept'
<1>. DEFINE mine == Memory(p)
<1>1. mine \in Memories /\ (mine = "shm" => where[p] = "shm")
  BY ProcsAssumption DEF Memory, Memories, Open
<1>2. /\ values' = [values EXCEPT ![mine][c] = v] /\ last' = [last EXCEPT ![mine][c] = v]
      /\ early' = IF mine # "shm" THEN early ELSE IF Filling THEN early \cup {c} ELSE early \ {c}
  BY DEF Assign
<1>3. values \in [Memories -> [Fakes -> Int]] /\ last \in [Memories -> [Fakes -> Int]]
  BY DEF TypeOK, Memories
<1> HIDE DEF mine
<1>4. /\ values'[mine][c] = v /\ last'[mine][c] = v /\ DOMAIN last' = Memories
      /\ \A m \in Memories, d \in Fakes : m # mine \/ d # c =>
           values'[m][d] = values[m][d] /\ last'[m][d] = last[m][d]
  BY <1>1, <1>2, <1>3
<1>5. \A d \in Fakes : d # c => (d \in early' <=> d \in early)
  BY <1>2
<1>6. mine # "shm" => early' = early
  BY <1>2
<1>7. KeptOnceFilled'
  <2> SUFFICES ASSUME NEW m \in Memories, NEW d \in Fakes, last'[m][d] # Unset,
                      ~(m = "shm" /\ d \in early')
               PROVE  values'[m][d] = last'[m][d]
    BY <1>4 DEF KeptOnceFilled, Unset
  <2>1. CASE m = mine /\ d = c
    BY <1>4, <2>1
  <2>2. CASE ~(m = mine /\ d = c)
    <3>1. values'[m][d] = values[m][d] /\ last'[m][d] = last[m][d]
      BY <1>4, <2>2
    <3>2. m = "shm" => (d \in early' <=> d \in early)
      BY <1>5, <1>6, <2>2
    <3>3. DOMAIN last = Memories
      BY <1>3
    <3>. QED
      BY <3>1, <3>2, <3>3 DEF Kept, KeptOnceFilled
  <2>. QED
    BY <2>1, <2>2
<1>8. Filling' <=> Filling
  BY DEF Filling
<1>9. ASSUME NEW d \in Fakes, Late(d)'
      PROVE  exists' /\ ~Filling'
  <2>1. CASE d = c /\ mine = "shm"
    <3>1. ~Filling
      BY <1>2, <1>9, <2>1 DEF Late
    <3>2. exists
      BY <1>1, <2>1 DEF Kept
    <3>. QED
      BY <3>1, <3>2, <1>8
  <2>2. CASE ~(d = c /\ mine = "shm")
    <3>1. last'["shm"][d] = last["shm"][d] /\ (d \in early' <=> d \in early)
      BY <1>4, <1>5, <1>6, <2>2 DEF Memories
    <3>2. Late(d)
      BY <1>9, <3>1 DEF Late, Unset
    <3>. QED
      BY <3>2, <1>8 DEF Kept
  <2>. QED
    BY <2>1, <2>2
<1>. QED
  BY <1>7, <1>9 DEF Kept

LEMMA KeptStep ==
  ASSUME TypeOK, IInv, Kept, [Next]_vars
  PROVE  Kept'
<1>0. where \in [Procs -> Places] /\ last \in [Memories -> [Fakes -> Int]]
  BY DEF TypeOK, Places, Memories
<1>1. ASSUME UNCHANGED <<values, last, early>>, exists => exists',
             \A p \in Procs : where'[p] \in {"init", "shm"} => exists',
             Filling' => ~exists \/ Filling
      PROVE  Kept'
  <2>1. \A c \in Fakes : Late(c)' <=> Late(c)
    BY <1>1 DEF Late
  <2>2. KeptOnceFilled'
    BY <1>1 DEF Kept, KeptOnceFilled
  <2>. QED
    BY <1>1, <2>1, <2>2 DEF Kept
<1>2. CASE UNCHANGED <<exists, where, values, last, early>>
  BY <1>1, <1>2 DEF Kept, Filling
<1>3. ASSUME NEW p \in Procs, Create(p)
      PROVE  Kept'
  <2>1. CASE controls = {} /\ where' = [where EXCEPT ![p] = "own"] /\ UNCHANGED <<exists, values, last>>
    <3>1. UNCHANGED early
      BY <1>3 DEF Create
    <3>2. \A q \in Procs : where'[q] = IF q = p THEN "own" ELSE where[q]
      BY <1>0, <2>1
    <3>3. Filling' => Filling
      BY <3>2 DEF Filling
    <3>. QED
      BY <1>1, <2>1, <3>1, <3>2, <3>3 DEF Kept
  <2>2. CASE /\ exists' = TRUE /\ UNCHANGED <<values, last>>
             /\ where' = [where EXCEPT ![p] = IF Fills THEN "init" ELSE "shm"]
    <3>1. UNCHANGED early
      BY <1>3 DEF Create
    <3>2. \A q \in Procs : where'[q] = IF q = p THEN (IF Fills THEN "init" ELSE "shm") ELSE where[q]
      BY <1>0, <2>2
    <3>3. Filling' => ~exists \/ Filling
      BY <3>2 DEF Filling, Fills
    <3>. QED
      BY <1>1, <2>2, <3>1, <3>3
  <2>3. CASE /\ where' = [where EXCEPT ![p] = "own"] /\ values' = [values EXCEPT ![p] = Defaults]
             /\ last' = [last EXCEPT ![p] = NothingSet] /\ UNCHANGED exists
    <3>1. UNCHANGED early
      BY <1>3 DEF Create
    <3>2. \A q \in Procs : where'[q] = IF q = p THEN "own" ELSE where[q]
      BY <1>0, <2>3
    <3>3. Filling' => Filling
      BY <3>2 DEF Filling
    <3>4. DOMAIN last' = Memories /\ \A m \in Memories :
            /\ m # p => last'[m] = last[m] /\ values'[m] = values[m]
            /\ m = p => \A c \in Fakes : last'[m][c] = Unset
      BY <1>0, <2>3 DEF NothingSet, Memories, TypeOK
    <3>5. "shm" \in Memories /\ "shm" # p
      BY ProcsAssumption DEF Memories
    <3>6. \A c \in Fakes : Late(c)' <=> Late(c)
      BY <3>1, <3>4, <3>5 DEF Late, Unset
    <3>7. KeptOnceFilled'
      BY <1>0, <3>1, <3>4 DEF Kept, KeptOnceFilled, Unset
    <3>. QED
      BY <2>3, <3>2, <3>3, <3>6, <3>7 DEF Kept
  <2>. QED
    BY <1>3, <2>1, <2>2, <2>3 DEF Create
<1>4. ASSUME NEW p \in Procs, Fill(p)
      PROVE  Kept'
  \* Nothing was set since the memory is there: what is early may be overwritten.
  <2>1. where[p] = "init" /\ Filling
    BY <1>4 DEF Fill, Filling
  <2>2. exists /\ \A c \in Fakes : ~Late(c)
    BY <2>1 DEF Kept
  <2>3. /\ UNCHANGED <<exists, last, early>>
        /\ values' = [values EXCEPT !["shm"] = Over(@, Write(filled[p] + 1))]
        /\ where' = where \/ where' = [where EXCEPT ![p] = "shm"]
    BY <1>4 DEF Fill, history
  <2>4. \A m \in Memories : m # "shm" => values'[m] = values[m]
    BY <2>3 DEF TypeOK, Memories
  <2>5. \A c \in Fakes : ~Late(c)'
    BY <2>2, <2>3 DEF Late
  <2>6. KeptOnceFilled'
    BY <1>0, <2>2, <2>3, <2>4 DEF Kept, KeptOnceFilled, Late, Unset
  <2>7. \A q \in Procs : where'[q] \in {"init", "shm"} => exists'
    BY <2>2, <2>3
  <2>. QED
    BY <2>5, <2>6, <2>7 DEF Kept
<1>5. ASSUME NEW p \in Procs, Leave(p)
      PROVE  Kept'
  <2>1. UNCHANGED <<exists, values, last, early>> /\ where' = [where EXCEPT ![p] = "none"]
    BY <1>5 DEF Leave, history
  <2>2. \A q \in Procs : where'[q] = IF q = p THEN "none" ELSE where[q]
    BY <1>0, <2>1
  <2>3. Filling' => Filling
    BY <2>2 DEF Filling
  <2>. QED
    BY <1>1, <2>1, <2>2, <2>3 DEF Kept
<1>6. ASSUME NEW p \in Procs, SetCtrl(p) \/ SetExtStored(p)
      PROVE  Kept'
  BY <1>6, Assigns, AssignKeeps
<1>7. ASSUME NEW p \in Procs, SetExtCtrls(p) \/ SetExtAnswer(p)
      PROVE  UNCHANGED <<exists, where, values, last, early>>
  BY <1>7 DEF SetExtCtrls, SetExtAnswer, store, history
<1>. QED
  BY <1>2, <1>3, <1>4, <1>5, <1>6, <1>7, OthersKeep

\* Whatever the processes do: what one of them set of a shared control, once its
\* creator filled the memory in, is what the memory holds until it is set again.
\* Closing, dying and opening again never put a default back.
THEOREM ValuesKept == Spec => []KeptOnceFilled
<1>1. Init => Kept
  BY DEF Init, Kept, Late, Filling, KeptOnceFilled, NothingSet, Memories, Unset
<1>2. Kept => KeptOnceFilled
  BY DEF Kept
<1>. QED
  BY <1>1, <1>2, InitTyped, TypeStep, KeptStep, PTL DEF Spec

-----------------------------------------------------------------------------
(* The list of controls.  It is read from the end: what an application gets *)
(* after one id is given by what it gets after a greater one.               *)

Provided == device.hw \cup controls
After(id) == {c \in Provided : c > id}
Entry(c) == [id |-> c, fake |-> c \in controls]

LEMMA LeastOf ==
  ASSUME NEW S, S \subseteq Nat, S # {}
  PROVE  \E n \in S : \A m \in S : n <= m
<1> DEFINE R == OpToRel(<, Nat)
<1>1. IsWellFoundedOn(R, Nat)
  BY NatLessThanWellFounded
<1>2. \A m, n \in Nat : m < n => <<m, n>> \in R
  BY DEF OpToRel
<1> HIDE DEF R
<1>3. PICK n \in S : \A m \in S : ~(<<m, n>> \in R)
  BY <1>1, WFMin
<1>4. ASSUME NEW m \in S PROVE n <= m
  <2>1. m \in Nat /\ n \in Nat /\ ~(m < n)
    BY <1>2, <1>3
  <2> QED BY <2>1
<1> QED BY <1>4

LEMMA LeastIs ==
  ASSUME NEW S, S \subseteq Nat, S # {}
  PROVE  Least(S) \in S /\ \A c \in S : Least(S) <= c
  BY LeastOf DEF Least

\* Among ids, the greatest: what holds of all later ids is enough to show of one.
LEMMA GreatestId ==
  ASSUME NEW S, S \subseteq 0 .. NoMore, S # {}
  PROVE  \E n \in S : n \in 0 .. NoMore /\ \A m \in 0 .. NoMore : n < m => m \notin S
<1> DEFINE T == {j \in Nat : \E n \in S : n + j = NoMore}
<1>1. PICK s \in S : s \in 0 .. NoMore
  OBVIOUS
<1>2. NoMore - s \in Nat /\ s + (NoMore - s) = NoMore
  BY <1>1 DEF NoMore
<1>3. T # {} /\ T \subseteq Nat
  BY <1>2
<1>4. PICK j \in T : \A i \in T : j <= i
  BY <1>3, LeastOf
<1>5. PICK n \in S : n + j = NoMore
  OBVIOUS
<1>6. n \in 0 .. NoMore /\ j \in Nat
  OBVIOUS
<1>7. ASSUME NEW m \in 0 .. NoMore, n < m, m \in S PROVE FALSE
  <2>1. NoMore - m \in Nat /\ m + (NoMore - m) = NoMore /\ ~(j <= NoMore - m)
    BY <1>5, <1>6, <1>7 DEF NoMore
  <2>2. NoMore - m \in T
    BY <1>7, <2>1
  <2> QED BY <1>4, <2>1, <2>2
<1> QED BY <1>6, <1>7

LEMMA ProvidedIds ==
  ASSUME device \in Devices
  PROVE  /\ device.hw \subseteq 1 .. NoMore - 1 /\ device.hw \subseteq Nat
         /\ controls \subseteq 1 .. NoMore - 1 /\ controls \subseteq Nat
<1>1. controls \subseteq 1 .. NoMore - 1
  BY DEF controls, AutoEnable, AWB, GAMMA, AUTOGAIN, HFLIP, VFLIP, TARGET, NoMore
<1>2. device.hw \subseteq 1 .. NoMore - 1
  BY DevicesAssumption
<1>3. 1 .. NoMore - 1 \subseteq Nat
  BY DEF NoMore
<1> QED BY <1>1, <1>2, <1>3

\* One request: the least of what comes after `id', from whoever provides it.
LEMMA NextCtrlIs ==
  ASSUME device \in Devices, NEW id \in 0 .. NoMore
  PROVE  /\ After(id) = {} => NextCtrl(id).id = 0
         /\ After(id) # {} => /\ Least(After(id)) \in After(id)
                              /\ \A c \in After(id) : Least(After(id)) <= c
                              /\ NextCtrl(id) = Entry(Least(After(id)))
<1> DEFINE hw == {c \in device.hw : c > id}
           upto == IF hw = {} THEN NoMore ELSE Least(hw)
           ours == FakeNext(id, upto)
<1>1. /\ device.hw \subseteq 1 .. NoMore - 1 /\ controls \subseteq 1 .. NoMore - 1
      /\ device.hw \subseteq Nat /\ controls \subseteq Nat
      /\ id \in Nat /\ NoMore \in Nat
  <2>1. id \in Nat /\ NoMore \in Nat
    BY DEF NoMore
  <2> QED BY <2>1, ProvidedIds, Zenon
<1>2. hw \subseteq Nat /\ After(id) \subseteq Nat
  BY <1>1 DEF After, Provided
<1>3. /\ upto \in Nat
      /\ hw = {} => upto = NoMore
      /\ hw # {} => upto \in hw /\ \A c \in hw : upto <= c
  BY <1>1, <1>2, LeastIs
<1>4. /\ NextCtrl(id) = IF ours # {} THEN [id |-> Least(ours), fake |-> TRUE]
                        ELSE IF hw # {} THEN [id |-> upto, fake |-> FALSE]
                        ELSE [id |-> 0, fake |-> FALSE]
  BY DEF NextCtrl
<1>5. ours = {c \in controls : id < c /\ c <= upto}
  BY DEF FakeNext
<1>6. After(id) = hw \cup {c \in controls : c > id}
  BY DEF After, Provided
<1> HIDE DEF hw, upto, ours
<1>7. ASSUME NEW m \in After(id), \A c \in After(id) : m <= c
      PROVE  m = Least(After(id))
  <2>1. Least(After(id)) \in After(id) /\ \A c \in After(id) : Least(After(id)) <= c
    BY <1>2, LeastIs
  <2>2. m <= Least(After(id)) /\ Least(After(id)) <= m
    BY <1>7, <2>1
  <2>3. m \in Nat /\ Least(After(id)) \in Nat
    BY <1>2, <2>1
  <2> QED BY <2>2, <2>3
<1>8. CASE ours # {}
  <2>1. ours \subseteq Nat
    BY <1>1, <1>5
  <2>2. Least(ours) \in ours /\ \A c \in ours : Least(ours) <= c
    BY <1>8, <2>1, LeastIs
  <2> DEFINE m == Least(ours)
  <2>3. m \in controls /\ id < m /\ m <= upto /\ m \in Nat /\ \A c \in ours : m <= c
    BY <2>1, <2>2, <1>5
  <2> HIDE DEF m
  <2>4. m \in After(id)
    BY <2>3, <1>6, <1>1
  <2>5. ASSUME NEW c \in After(id) PROVE m <= c
    <3>1. c \in Nat
      BY <1>2
    <3>2. CASE c \in hw
      BY <3>1, <3>2, <2>3, <1>3
    <3>3. CASE c \in controls /\ c <= upto
      <4>1. c \in ours
        BY <3>1, <3>3, <1>5, <1>1, <2>5 DEF After
      <4> QED BY <4>1, <2>3
    <3>4. CASE ~(c <= upto)
      BY <3>1, <3>4, <2>3, <1>3
    <3> QED BY <3>2, <3>3, <3>4, <1>6
  <2>6. m = Least(After(id))
    BY <2>4, <2>5, <1>7
  <2>7. NextCtrl(id) = [id |-> m, fake |-> TRUE]
    BY <1>4, <1>8 DEF m
  <2> QED BY <2>3, <2>4, <2>5, <2>6, <2>7 DEF Entry
<1>9. CASE ours = {} /\ hw # {}
  <2>1. upto \in hw /\ upto \in After(id) /\ upto > id
    BY <1>9, <1>3, <1>6, <1>1 DEF hw
  <2>2. ASSUME NEW c \in controls, c > id PROVE c > upto
    <3>1. c \in Nat
      BY <1>1
    <3>2. ~(c <= upto)
      BY <1>9, <1>5, <2>2, <3>1, <1>1
    <3> QED BY <3>1, <3>2, <1>3
  <2>3. upto \notin controls
    BY <2>1, <2>2, <1>3
  <2>4. ASSUME NEW c \in After(id) PROVE upto <= c
    <3>1. c \in Nat
      BY <1>2
    <3> QED BY <3>1, <2>2, <1>3, <1>6, <1>9
  <2>5. upto = Least(After(id))
    BY <2>1, <2>4, <1>7
  <2>6. NextCtrl(id) = [id |-> upto, fake |-> FALSE]
    BY <1>4, <1>9
  <2>7. Entry(upto) = [id |-> upto, fake |-> FALSE]
    <3>1. (upto \in controls) = FALSE
      BY <2>3
    <3> QED BY <3>1 DEF Entry
  <2> QED BY <2>1, <2>4, <2>5, <2>6, <2>7
<1>10. CASE ours = {} /\ hw = {}
  <2>1. \A c \in controls : ~(c > id)
    <3> SUFFICES ASSUME NEW c \in controls, c > id PROVE FALSE
      OBVIOUS
    <3>1. c \in Nat /\ c <= NoMore
      BY <1>1
    <3> QED BY <3>1, <1>3, <1>5, <1>10, <1>1
  <2>2. After(id) = {}
    BY <2>1, <1>6, <1>10
  <2> QED BY <2>2, <1>4, <1>10
<1> QED BY <1>8, <1>9, <1>10

\* What the equation of ListFrom says of a list function, from k on.
ListBody(f, id) ==
  LET n == NextCtrl(id) IN IF n.id = 0 THEN <<>> ELSE <<n>> \o f[n.id]
Lists(f, k) == f = [id \in k .. NoMore |-> ListBody(f, id)]

\* An answer is the end or an id that is greater.
LEMMA NextCtrlGrows ==
  ASSUME device \in Devices, NEW id \in 0 .. NoMore
  PROVE  \/ NextCtrl(id).id = 0
         \/ NextCtrl(id).id \in Nat /\ id < NextCtrl(id).id /\ NextCtrl(id).id < NoMore
<1>1. CASE After(id) = {}
  BY <1>1, NextCtrlIs
<1>2. CASE After(id) # {}
  <2> DEFINE m == Least(After(id))
  <2>1. m \in After(id) /\ NextCtrl(id) = Entry(m)
    BY <1>2, NextCtrlIs
  <2> HIDE DEF m
  <2>2. m \in 1 .. NoMore - 1 /\ m > id
    BY <2>1, ProvidedIds DEF After, Provided
  <2>3. NextCtrl(id).id = m
    BY <2>1 DEF Entry
  <2> QED BY <2>2, <2>3 DEF NoMore
<1> QED BY <1>1, <1>2

\* The recursion is well founded: such a function exists from every id on.
LEMMA ListsExist ==
  ASSUME device \in Devices
  PROVE  \A k \in 0 .. NoMore : \E f : Lists(f, k)
<1> DEFINE Without == {k \in 0 .. NoMore : ~\E f : Lists(f, k)}
<1>1. SUFFICES ASSUME Without # {} PROVE FALSE
  OBVIOUS
<1>2. PICK k \in Without : k \in 0 .. NoMore /\ \A m \in 0 .. NoMore : k < m => m \notin Without
  BY <1>1, GreatestId
<1>3. k \in Nat /\ k <= NoMore /\ NoMore \in Nat
  BY DEF NoMore
<1>4. PICK g : \A id \in (k + 1) .. NoMore : DOMAIN g = (k + 1) .. NoMore /\ g[id] = ListBody(g, id)
  <2>1. CASE k = NoMore
    BY <2>1, <1>3
  <2>2. CASE k # NoMore
    <3>1. k + 1 \in 0 .. NoMore /\ k < k + 1
      BY <2>2, <1>3
    <3>2. \E f : Lists(f, k + 1)
      BY <3>1, <1>2
    <3> QED BY <3>2 DEF Lists
  <2> QED BY <2>1, <2>2
<1> HIDE DEF Without
<1> DEFINE f == [id \in k .. NoMore |-> ListBody(g, id)]
<1>5. ASSUME NEW id \in k .. NoMore PROVE f[id] = ListBody(f, id)
  <2>1. id \in 0 .. NoMore /\ id \in Nat
    BY <1>3
  <2> DEFINE n == NextCtrl(id).id
  <2>2. CASE n = 0
    BY <2>2 DEF ListBody
  <2>3. CASE n # 0
    <3>1. n \in Nat /\ id < n /\ n < NoMore
      BY <2>1, <2>3, NextCtrlGrows
    <3> HIDE DEF n
    <3>2. n \in (k + 1) .. NoMore /\ n \in k .. NoMore
      BY <3>1, <2>1, <1>3
    <3>3. f[n] = ListBody(g, n)
      BY <3>2
    <3>4. g[n] = f[n]
      BY <3>2, <3>3, <1>4
    <3> HIDE DEF f
    <3>5. ListBody(g, id) = ListBody(f, id)
      BY <2>3, <3>4 DEF ListBody, n
    <3> QED BY <3>5 DEF f
  <2> QED BY <2>2, <2>3
<1>6. f = [id \in k .. NoMore |-> f[id]]
  OBVIOUS
<1> HIDE DEF f
<1>7. Lists(f, k)
  <2>1. [id \in k .. NoMore |-> f[id]] = [id \in k .. NoMore |-> ListBody(f, id)]
    BY <1>5
  <2> QED BY <1>6, <2>1 DEF Lists
<1> QED BY <1>2, <1>7 DEF Without

LEMMA ListFromIs ==
  ASSUME device \in Devices
  PROVE  \A id \in 0 .. NoMore : ListFrom[id] = ListBody(ListFrom, id)
<1>1. ListFrom = CHOOSE f : Lists(f, 0)
  BY DEF ListFrom, ListBody, Lists
<1>2. \E f : Lists(f, 0)
  <2>1. 0 \in 0 .. NoMore
    BY DEF NoMore
  <2> QED BY <2>1, ListsExist
<1>3. Lists(ListFrom, 0)
  BY <1>1, <1>2
<1>4. ListFrom = [id \in 0 .. NoMore |-> ListBody(ListFrom, id)]
  BY <1>3 DEF Lists
<1> DEFINE L == ListFrom
<1> HIDE DEF L
<1>5. L = [id \in 0 .. NoMore |-> ListBody(L, id)]
  BY <1>4 DEF L
<1>6. \A id \in 0 .. NoMore : L[id] = ListBody(L, id)
  BY <1>5
<1> QED BY <1>6 DEF L

\* The list after `id': the controls after it, each once, by their ids.
ListIs(id) ==
  LET list == ListFrom[id]
      entries == {Entry(c) : c \in After(id)}
  IN  /\ list \in Seq(entries)
      /\ \A e \in entries : \E i \in 1 .. Len(list) : list[i] = e
      /\ \A i \in 2 .. Len(list) : list[i - 1].id < list[i].id

LEMMA ListStep ==
  ASSUME device \in Devices, NEW id \in 0 .. NoMore,
         \A m \in 0 .. NoMore : id < m => ListIs(m)
  PROVE  ListIs(id)
<1> DEFINE n == NextCtrl(id)
           list == ListFrom[id]
           entries == {Entry(c) : c \in After(id)}
<1>1. list = IF n.id = 0 THEN <<>> ELSE <<n>> \o ListFrom[n.id]
  BY ListFromIs DEF ListBody
<1>2. CASE After(id) = {}
  <2>1. n.id = 0
    BY <1>2, NextCtrlIs
  <2>2. list = <<>> /\ entries = {}
    BY <1>1, <1>2, <2>1
  <2> QED BY <2>2 DEF ListIs
<1>3. CASE After(id) # {}
  <2> DEFINE m == Least(After(id))
             rest == ListFrom[m]
             others == {Entry(c) : c \in After(m)}
  <2>1. m \in After(id) /\ n = Entry(m) /\ \A c \in After(id) : m <= c
    BY <1>3, NextCtrlIs
  <2> HIDE DEF m
  <2>2. /\ m \in 1 .. NoMore - 1 /\ id < m /\ m \in 0 .. NoMore /\ m \in Nat /\ m # 0
        /\ After(id) \subseteq Nat /\ id \in Nat
    BY <2>1, ProvidedIds DEF After, Provided, NoMore
  <2>3. n.id = m
    BY <2>1 DEF Entry
  <2>4. list = <<n>> \o rest
    BY <1>1, <2>2, <2>3
  <2>5. After(id) = {m} \cup After(m)
    <3>1. ASSUME NEW c \in Nat PROVE c > id /\ m <= c <=> c = m \/ c > m
      BY <2>2, <3>1
    <3>2. Provided \subseteq Nat
      BY ProvidedIds DEF Provided
    <3> QED BY <2>1, <2>2, <3>1, <3>2 DEF After
  <2>6. entries = {n} \cup others
    BY <2>1, <2>5
  <2>7. /\ rest \in Seq(others)
        /\ \A e \in others : \E i \in 1 .. Len(rest) : rest[i] = e
        /\ \A i \in 2 .. Len(rest) : rest[i - 1].id < rest[i].id
    BY <2>2 DEF ListIs
  <2>8. \A e \in others : e.id > m
    BY DEF Entry, After
  <2> HIDE DEF n, rest, list, others, entries
  <2>9. /\ rest \in Seq(entries) /\ <<n>> \in Seq(entries) /\ list \in Seq(entries)
        /\ Len(rest) \in Nat /\ Len(list) = Len(rest) + 1
        /\ list[1] = n
        /\ \A i \in 1 .. Len(rest) : list[i + 1] = rest[i] /\ rest[i] \in others
    <3>1. others \subseteq entries /\ n \in entries
      BY <2>6
    <3>2. rest \in Seq(entries) /\ <<n>> \in Seq(entries) /\ Len(<<n>>) = 1 /\ <<n>>[1] = n
      BY <2>7, <3>1, SeqMonotonic
    <3>3. /\ list \in Seq(entries) /\ Len(rest) \in Nat
          /\ Len(list) = 1 + Len(rest)
          /\ \A i \in 1 .. 1 + Len(rest) :
               list[i] = IF i <= 1 THEN <<n>>[i] ELSE rest[i - 1]
      BY <2>4, <3>2, ConcatProperties, LenProperties
    <3>4. list[1] = n
      BY <3>2, <3>3
    <3>5. ASSUME NEW i \in 1 .. Len(rest)
          PROVE  list[i + 1] = rest[i] /\ rest[i] \in others
      <4>1. i + 1 \in 1 .. 1 + Len(rest) /\ ~(i + 1 <= 1) /\ (i + 1) - 1 = i
        BY <3>3
      <4>2. rest[i] \in others
        BY <2>7, ElementOfSeq
      <4> QED BY <3>3, <4>1, <4>2
    <3> QED BY <3>2, <3>3, <3>4, <3>5
  <2>10. \A e \in entries : \E i \in 1 .. Len(list) : list[i] = e
    <3> TAKE e \in entries
    <3>1. CASE e = n
      BY <3>1, <2>9
    <3>2. CASE e \in others
      <4>1. PICK i \in 1 .. Len(rest) : rest[i] = e
        BY <3>2, <2>7
      <4>2. i + 1 \in 1 .. Len(list) /\ list[i + 1] = e
        BY <4>1, <2>9
      <4> QED BY <4>2
    <3> QED BY <3>1, <3>2, <2>6
  <2>11. \A i \in 2 .. Len(list) : list[i - 1].id < list[i].id
    <3> TAKE i \in 2 .. Len(list)
    <3>1. CASE i = 2
      <4>1. 1 \in 1 .. Len(rest) /\ list[2] = rest[1] /\ rest[1] \in others
        BY <3>1, <2>9
      <4> QED BY <3>1, <4>1, <2>3, <2>8, <2>9
    <3>2. CASE i # 2
      <4>1. /\ i - 1 \in 2 .. Len(rest) /\ i - 1 \in 1 .. Len(rest)
            /\ i - 2 \in 1 .. Len(rest) /\ (i - 2) + 1 = i - 1 /\ (i - 1) + 1 = i
            /\ (i - 1) - 1 = i - 2
        BY <3>2, <2>9
      <4>2. list[i] = rest[i - 1] /\ list[i - 1] = rest[i - 2]
        BY <4>1, <2>9
      <4> QED BY <4>1, <4>2, <2>7
    <3> QED BY <3>1, <3>2
  <2> QED BY <2>9, <2>10, <2>11 DEF ListIs, list, entries
<1> QED BY <1>2, <1>3

\* What VIDIOC_QUERYCTRL with V4L2_CTRL_FLAG_NEXT_CTRL lists is whole, for every
\* device: each control once, whether the driver or libv4l provides it.
THEOREM EnumerationCorrect == Spec => []EnumerationWhole
<1>1. ASSUME device \in Devices PROVE EnumerationWhole
  <2> DEFINE Rest == {id \in 0 .. NoMore : ~ListIs(id)}
  <2>1. Rest = {}
    <3> SUFFICES ASSUME Rest # {} PROVE FALSE
      OBVIOUS
    <3>1. PICK id \in Rest : id \in 0 .. NoMore /\ \A m \in 0 .. NoMore : id < m => m \notin Rest
      BY GreatestId
    <3>2. \A m \in 0 .. NoMore : id < m => ListIs(m)
      BY <3>1
    <3> QED BY <1>1, <3>1, <3>2, ListStep
  <2>2. 0 \in 0 .. NoMore
    BY DEF NoMore
  <2>3. ListIs(0)
    BY <2>1, <2>2
  <2>4. After(0) = Provided
    BY <1>1, ProvidedIds DEF After, Provided
  <2> DEFINE list == ListFrom[0]
             entries == {Entry(c) : c \in Provided}
  <2>5. /\ list \in Seq(entries)
        /\ \A e \in entries : \E i \in 1 .. Len(list) : list[i] = e
        /\ \A i \in 2 .. Len(list) : list[i - 1].id < list[i].id
    BY <2>3, <2>4 DEF ListIs
  <2>6. Range(list) = entries
    <3> HIDE DEF list, entries
    <3>1. DOMAIN list = 1 .. Len(list) /\ \A i \in 1 .. Len(list) : list[i] \in entries
      BY <2>5
    <3> QED BY <2>5, <3>1 DEF Range
  <2> QED BY <2>5, <2>6 DEF EnumerationWhole, Entry, Provided
<1>2. Init => device \in Devices
  BY DEF Init
<1>3. device \in Devices /\ [Next]_vars => (device \in Devices)'
  BY DeviceStays
<1> QED BY <1>1, <1>2, <1>3, PTL DEF Spec
=============================================================================
