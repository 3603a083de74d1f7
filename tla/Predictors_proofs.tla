--------------------------- MODULE Predictors_proofs ---------------------------
(***************************************************************************)
(* Proofs about the loop predictor, for every program, every number of     *)
(* entries and any number of branches in flight: the limit that an entry   *)
(* in training has counted is that of the current run of its own branch.   *)
(***************************************************************************)
EXTENDS Predictors, TLAPS

-----------------------------------------------------------------------------
(* The invariant                                                           *)

Entry == [state : {"invalid", "training", "locked"}, count : Int, limit : Int, pc : Int]

Shape ==
    /\ Pcs \subseteq Nat
    /\ n_entries \in Nat
    /\ arr \in [0 .. n_entries - 1 -> Entry]
    /\ streak \in [Pcs -> Nat]
    /\ \E W : window \in Seq(W) /\ \A w \in W : w.pc \in Pcs

(* An entry in training is the one its branch maps to, so that no other    *)
(* entry counts for the same branch, and only backward branches have one.  *)
Placed ==
    \A j \in DOMAIN arr : arr[j].state = "training" =>
        LET pc == arr[j].pc
        IN  pc \in Pcs /\ ~ program[pc].jump /\ program[pc].back /\ Slot(pc) = j

LoopInv == Shape /\ Placed /\ LimitWithinRun

-----------------------------------------------------------------------------
(* Lemmas                                                                  *)

(* The entry of a branch is one of the array.                              *)
LEMMA SlotInRange ==
    ASSUME NEW pc \in Nat, n_entries \in Nat \ {0}
    PROVE  Slot(pc) \in 0 .. n_entries - 1
BY DEF Slot, Word

(* loop_update() starts a training at limit 1, counts one taken branch, or *)
(* ends the training; an entry that is in training afterwards is that of   *)
(* the branch.                                                             *)
LEMMA UpdateEntry ==
    ASSUME Shape, NEW pc \in Pcs, n_entries # 0, NEW taken \in BOOLEAN, NEW prediction,
           arr' = loop_update(pc, taken, prediction)
    PROVE  /\ arr' \in [0 .. n_entries - 1 -> Entry]
           /\ \A j \in 0 .. n_entries - 1 : j # Slot(pc) => arr'[j] = arr[j]
           /\ arr'[Slot(pc)].state = "training" =>
                /\ arr'[Slot(pc)].pc = pc
                /\ \/ arr'[Slot(pc)].limit = 1
                   \/ /\ taken /\ arr[Slot(pc)].state = "training" /\ arr[Slot(pc)].pc = pc
                      /\ arr'[Slot(pc)].limit = Least(arr[Slot(pc)].limit + 1, MaxLimit)
<1> DEFINE s == Slot(pc)
           e == IF arr[s].pc = pc THEN arr[s] ELSE Cleared
           f == CASE e.state = "invalid"  -> [e EXCEPT !.pc = pc, !.state = "training", !.limit = 1]
                  [] e.state = "training" -> IF taken THEN [e EXCEPT !.limit = Least(@ + 1, MaxLimit)]
                                             ELSE [e EXCEPT !.state = "locked"]
                  [] e.state = "locked"   -> IF taken # prediction
                                             THEN [e EXCEPT !.state = "invalid"] ELSE e
<1>1. s \in 0 .. n_entries - 1
  BY SlotInRange DEF Shape
<1>2. arr' = [arr EXCEPT ![s] = f]
  BY Zenon DEF loop_update
<1>3. arr \in [0 .. n_entries - 1 -> Entry] /\ pc \in Nat /\ MaxLimit \in Nat
  BY SizesAssumption DEF Shape
<1>4. e \in Entry /\ (e.state = "training" => e = arr[s] /\ arr[s].pc = pc)
  BY <1>1, <1>3 DEF Entry, Cleared
<1> HIDE DEF e
<1>5. /\ f \in Entry
      /\ f.state = "training" =>
            /\ f.pc = pc
            /\ f.limit = 1 \/ (taken /\ e.state = "training" /\ f.limit = Least(e.limit + 1, MaxLimit))
  <2>1. CASE e.state = "invalid"
    <3>1. f = [e EXCEPT !.pc = pc, !.state = "training", !.limit = 1]
      BY <2>1
    <3> HIDE DEF f
    <3>2. e = [state |-> e.state, count |-> e.count, limit |-> e.limit, pc |-> e.pc]
          /\ e.count \in Int
      BY <1>4 DEF Entry
    <3>3. f = [state |-> "training", count |-> e.count, limit |-> 1, pc |-> pc]
      BY <3>1, <3>2
    <3> QED
      BY <1>3, <3>2, <3>3 DEF Entry
  <2>2. CASE e.state = "training"
    <3>1. e.pc = pc
      BY <1>4, <2>2
    <3>2. CASE taken
      <4>1. f = [e EXCEPT !.limit = Least(@ + 1, MaxLimit)]
        BY <2>2, <3>2
      <4>2. Least(e.limit + 1, MaxLimit) \in Int
        BY <1>3, <1>4 DEF Least, Entry
      <4> QED
        BY <1>4, <2>2, <3>1, <3>2, <4>1, <4>2 DEF Entry
    <3>3. CASE ~ taken
      <4>1. f = [e EXCEPT !.state = "locked"]
        BY <2>2, <3>3
      <4> QED
        BY <1>4, <2>2, <3>1, <4>1 DEF Entry
    <3> QED
      BY <3>2, <3>3
  <2>3. CASE e.state = "locked"
    BY <1>3, <1>4, <2>3 DEF Entry
  <2> QED
    BY <1>4, <2>1, <2>2, <2>3 DEF Entry
<1> HIDE DEF f, s
<1>6. arr'[s] = f /\ \A j \in 0 .. n_entries - 1 : j # s => arr'[j] = arr[j]
  BY <1>1, <1>2, <1>3
<1>7. arr' \in [0 .. n_entries - 1 -> Entry]
  BY <1>1, <1>2, <1>3, <1>5
<1> QED
  BY <1>4, <1>5, <1>6, <1>7 DEF s

-----------------------------------------------------------------------------
(* The invariant is inductive                                              *)

(* At first no entry is in training.                                       *)
LEMMA InitLoop == Init => LoopInv
<1> SUFFICES ASSUME Init PROVE LoopInv
  OBVIOUS
<1>1. /\ Pcs \subseteq Nat /\ n_entries \in Nat
      /\ arr = [j \in 0 .. n_entries - 1 |-> Cleared]
      /\ streak = [pc \in Pcs |-> 0]
  BY SizesAssumption DEF Init, Pcs
<1>2. window \in Seq({}) /\ \A w \in {} : w.pc \in Pcs
  BY DEF Init
<1>3. \E W : window \in Seq(W) /\ \A w \in W : w.pc \in Pcs
  BY <1>2
<1>4. Cleared \in Entry /\ Cleared.state # "training"
  BY DEF Cleared, Entry
<1>5. Shape
  BY <1>1, <1>3, <1>4 DEF Shape
<1>6. Placed /\ LimitWithinRun
  BY <1>1, <1>4 DEF Placed, LimitWithinRun
<1> QED
  BY <1>5, <1>6 DEF LoopInv

(* fetch() counts an iteration, which is not the limit.                    *)
LEMMA FetchLoop ==
    ASSUME LoopInv, fetch
    PROVE  LoopInv'
<1>1. PICK pc \in Pcs :
        /\ \E w : window' = Append(window, w) /\ w.pc = pc
        /\ arr' = arr \/ (n_entries # 0 /\ arr' = loop_count(pc))
        /\ UNCHANGED <<program, n_entries, streak>>
  BY DEF fetch, valid_loop_branch, configVars
<1>2. /\ arr' \in [0 .. n_entries - 1 -> Entry]
      /\ \A j \in 0 .. n_entries - 1 : /\ arr'[j].state = arr[j].state
                                       /\ arr'[j].pc = arr[j].pc
                                       /\ arr'[j].limit = arr[j].limit
  <2>1. CASE arr' = arr
    BY <2>1 DEF LoopInv, Shape
  <2>2. CASE n_entries # 0 /\ arr' = loop_count(pc)
    <3>1. Slot(pc) \in 0 .. n_entries - 1
      BY <1>1, <2>2, SlotInRange DEF LoopInv, Shape
    <3>2. PICK n \in Int : arr' = [arr EXCEPT ![Slot(pc)].count = n]
      <4>1. arr[Slot(pc)].count \in Int /\ MaxLimit \in Int
        BY <3>1, SizesAssumption DEF LoopInv, Shape, Entry
      <4>2. Least(arr[Slot(pc)].count + 1, MaxLimit + 1) \in Int
        BY <4>1 DEF Least
      <4>3. PICK n : n = (IF loop_predict(pc) THEN Least(arr[Slot(pc)].count + 1, MaxLimit + 1)
                          ELSE 0)
        OBVIOUS
      <4>4. n \in Int
        BY <4>2, <4>3
      <4>5. arr' = [arr EXCEPT ![Slot(pc)].count = n]
        BY <2>2, <4>3, Zenon DEF loop_count
      <4> QED
        BY <4>4, <4>5
    <3> QED
      BY <3>1, <3>2 DEF LoopInv, Shape, Entry
  <2> QED
    BY <1>1, <2>1, <2>2
<1>3. Shape'
  <2>1. PICK W : window \in Seq(W) /\ \A w \in W : w.pc \in Pcs
    BY DEF LoopInv, Shape
  <2>2. PICK w : window' = Append(window, w) /\ w.pc = pc
    BY <1>1
  <2>3. window' \in Seq(W \cup {w}) /\ \A x \in W \cup {w} : x.pc \in Pcs
    BY <2>1, <2>2
  <2>4. \E X : window' \in Seq(X) /\ \A x \in X : x.pc \in Pcs
    BY <2>3
  <2> QED
    BY <1>1, <1>2, <2>4 DEF LoopInv, Shape, Pcs
<1>4. Placed'
  BY <1>1, <1>2 DEF LoopInv, Shape, Placed, Slot, Pcs
<1>5. LimitWithinRun'
  BY <1>1, <1>2 DEF LoopInv, Shape, LimitWithinRun
<1> QED
  BY <1>3, <1>4, <1>5 DEF LoopInv

(* A branch that retires counts one more iteration of its run, in streak   *)
(* and in its entry alike, or ends both.                                   *)
LEMMA RetireLoop ==
    ASSUME LoopInv, retire
    PROVE  LoopInv'
<1>1. PICK pc, taken, prediction :
        /\ window # <<>> /\ pc = Head(window).pc
        /\ taken \in BOOLEAN
        /\ program[pc].jump => taken
        /\ arr' = IF ~ program[pc].jump /\ program[pc].back /\ n_entries # 0
                  THEN loop_update(pc, taken, prediction) ELSE arr
        /\ window' \in {<<>>, Tail(window)}
        /\ streak' = [streak EXCEPT ![pc] = IF taken THEN Least(@ + 1, MaxLimit) ELSE 0]
        /\ UNCHANGED <<program, n_entries>>
  <2> DEFINE w == Head(window)
             b == program[w.pc]
  <2>1. PICK taken \in IF b.jump THEN {TRUE} ELSE BOOLEAN :
          /\ arr' = IF ~ b.jump /\ b.back /\ n_entries # 0
                    THEN loop_update(w.pc, taken, w.predict_taken) ELSE arr
          /\ window' \in {<<>>, Tail(window)}
          /\ streak' = [streak EXCEPT ![w.pc] = IF taken THEN Least(@ + 1, MaxLimit) ELSE 0]
    BY DEF retire
  <2>2. window # <<>> /\ UNCHANGED <<program, n_entries>>
    BY DEF retire, configVars
  <2>3. PICK pc, prediction : pc = w.pc /\ prediction = w.predict_taken
    OBVIOUS
  <2>4. taken \in BOOLEAN /\ (program[pc].jump => taken)
    BY <2>1, <2>3
  <2> QED
    BY <2>1, <2>2, <2>3, <2>4
<1>2. PICK W : window \in Seq(W) /\ \A w \in W : w.pc \in Pcs
  BY DEF LoopInv, Shape
<1>3. pc \in Pcs
  BY <1>1, <1>2
<1>4. /\ streak' \in [Pcs -> Nat]
      /\ \A q \in Pcs : q # pc => streak'[q] = streak[q]
      /\ taken => streak'[pc] = Least(streak[pc] + 1, MaxLimit)
  <2>1. PICK n : n = (IF taken THEN Least(streak[pc] + 1, MaxLimit) ELSE 0)
    OBVIOUS
  <2>2. n \in Nat
    <3>1. streak[pc] \in Nat /\ MaxLimit \in Nat
      BY <1>3, SizesAssumption DEF LoopInv, Shape
    <3>2. Least(streak[pc] + 1, MaxLimit) \in Nat
      BY <3>1 DEF Least
    <3> QED
      BY <2>1, <3>2
  <2>3. streak' = [streak EXCEPT ![pc] = n]
    BY <1>1, <2>1
  <2> QED
    BY <1>3, <2>1, <2>2, <2>3 DEF LoopInv, Shape
<1>5. \E X : window' \in Seq(X) /\ \A x \in X : x.pc \in Pcs
  <2>1. window' \in Seq(W)
    <3>1. Tail(window) \in Seq(W) /\ <<>> \in Seq(W)
      BY <1>1, <1>2
    <3> QED
      BY <1>1, <3>1
  <2> QED
    BY <1>2, <2>1
<1>6. CASE ~ program[pc].jump /\ program[pc].back /\ n_entries # 0
  <2> DEFINE s == Slot(pc)
  <2>1. /\ arr' \in [0 .. n_entries - 1 -> Entry]
        /\ \A j \in 0 .. n_entries - 1 : j # s => arr'[j] = arr[j]
        /\ arr'[s].state = "training" =>
             /\ arr'[s].pc = pc
             /\ \/ arr'[s].limit = 1
                \/ /\ taken /\ arr[s].state = "training" /\ arr[s].pc = pc
                   /\ arr'[s].limit = Least(arr[s].limit + 1, MaxLimit)
    BY <1>1, <1>3, <1>6, UpdateEntry DEF LoopInv
  <2>2. s \in 0 .. n_entries - 1
    BY <1>3, <1>6, SlotInRange DEF LoopInv, Shape
  <2>3. \A q : Slot(q)' = Slot(q)
    BY <1>1 DEF Slot
  <2> HIDE DEF s
  <2>4. Shape'
    BY <1>1, <1>4, <1>5, <2>1 DEF LoopInv, Shape, Pcs
  <2>5. ASSUME NEW j \in 0 .. n_entries - 1, arr'[j].state = "training"
        PROVE  /\ arr'[j].pc \in Pcs /\ ~ program[arr'[j].pc].jump /\ program[arr'[j].pc].back
               /\ Slot(arr'[j].pc) = j
               /\ arr'[j].limit <= streak'[arr'[j].pc] + 1
    <3>1. CASE j = s
      <4>1. arr'[j].pc = pc
        BY <2>1, <2>5, <3>1
      <4>2. arr'[j].limit <= streak'[pc] + 1
        <5>1. CASE arr'[s].limit = 1
          BY <1>3, <1>4, <3>1, <5>1
        <5>2. CASE /\ taken /\ arr[s].state = "training" /\ arr[s].pc = pc
                   /\ arr'[s].limit = Least(arr[s].limit + 1, MaxLimit)
          <6>1. arr[s].limit <= streak[pc] + 1 /\ arr[s].limit \in Int
            BY <2>2, <5>2 DEF LoopInv, LimitWithinRun, Shape, Entry
          <6>2. streak'[pc] = Least(streak[pc] + 1, MaxLimit) /\ streak[pc] \in Nat
            BY <1>3, <1>4, <5>2 DEF LoopInv, Shape
          <6> QED
            BY <3>1, <5>2, <6>1, <6>2, SizesAssumption DEF Least
        <5> QED
          BY <2>1, <2>5, <3>1, <5>1, <5>2
      <4> QED
        BY <1>3, <1>6, <3>1, <4>1, <4>2 DEF s
    <3>2. CASE j # s
      <4>1. arr'[j] = arr[j] /\ j \in DOMAIN arr
        BY <2>1, <3>2 DEF LoopInv, Shape
      <4>2. /\ arr[j].pc \in Pcs /\ ~ program[arr[j].pc].jump /\ program[arr[j].pc].back
            /\ Slot(arr[j].pc) = j
            /\ arr[j].limit <= streak[arr[j].pc] + 1
        BY <2>5, <4>1 DEF LoopInv, Placed, LimitWithinRun
      <4>3. arr[j].pc # pc
        BY <3>2, <4>2 DEF s
      <4> QED
        BY <1>4, <4>1, <4>2, <4>3
    <3> QED
      BY <3>1, <3>2
  <2>6. Placed' /\ LimitWithinRun'
    BY <1>1, <2>1, <2>3, <2>5 DEF Placed, LimitWithinRun, Pcs
  <2> QED
    BY <2>4, <2>6 DEF LoopInv
<1>7. CASE ~ (~ program[pc].jump /\ program[pc].back /\ n_entries # 0)
  <2>1. arr' = arr
    BY <1>1, <1>7
  <2>2. Shape'
    BY <1>1, <1>4, <1>5, <2>1 DEF LoopInv, Shape, Pcs
  <2>3. Placed'
    BY <1>1, <2>1 DEF LoopInv, Placed, Slot, Pcs
  <2>4. LimitWithinRun'
    <3> SUFFICES ASSUME NEW j \in DOMAIN arr, arr[j].state = "training"
                 PROVE  arr[j].limit <= streak'[arr[j].pc] + 1
      BY <2>1 DEF LimitWithinRun
    <3>1. n_entries # 0 /\ arr[j].pc # pc /\ arr[j].pc \in Pcs
      BY <1>7 DEF LoopInv, Shape, Placed
    <3> QED
      BY <1>4, <3>1 DEF LoopInv, LimitWithinRun
  <2> QED
    BY <2>2, <2>3, <2>4 DEF LoopInv
<1> QED
  BY <1>6, <1>7

(* An entry of the loop predictor in training has counted no more          *)
(* iterations than its own branch has gone round in its current run, plus  *)
(* the one it started with, whatever other branches share the entry        *)
(* (loop_predictor::update).                                               *)
THEOREM LoopLimits == Spec => []LimitWithinRun
<1>1. Init => LoopInv
  BY InitLoop
<1>2. LoopInv /\ [Next]_vars => LoopInv'
  <2> SUFFICES ASSUME LoopInv, [Next]_vars PROVE LoopInv'
    OBVIOUS
  <2>1. CASE fetch
    BY <2>1, FetchLoop
  <2>2. CASE retire
    BY <2>2, RetireLoop
  <2>3. CASE load_nuke \/ UNCHANGED vars
    <3>1. UNCHANGED <<program, n_entries, arr, streak>> /\ window' \in {<<>>, window}
      BY <2>3 DEF load_nuke, vars, configVars
    <3>2. \E X : window' \in Seq(X) /\ \A x \in X : x.pc \in Pcs
      <4>1. PICK W : window \in Seq(W) /\ \A w \in W : w.pc \in Pcs
        BY DEF LoopInv, Shape
      <4>2. window' \in Seq(W)
        <5>1. <<>> \in Seq(W)
          OBVIOUS
        <5> QED
          BY <3>1, <4>1, <5>1, Zenon
      <4> QED
        BY <4>1, <4>2
    <3>3. Shape'
      BY <3>1, <3>2 DEF LoopInv, Shape, Pcs
    <3> QED
      BY <3>1, <3>3 DEF LoopInv, Placed, LimitWithinRun, Slot, Pcs
  <2> QED
    BY <2>1, <2>2, <2>3 DEF Next
<1>3. LoopInv => LimitWithinRun
  BY DEF LoopInv
<1> QED
  BY <1>1, <1>2, <1>3, PTL DEF Spec
===============================================================================
