-------------------------- MODULE RegRename_proofs --------------------------
(***************************************************************************)
(* Proofs about RegRename, for every set of registers, every operation     *)
(* signature and every ROB size.                                           *)
(***************************************************************************)
EXTENDS RegRename, FiniteSetTheorems, TLAPS

-----------------------------------------------------------------------------
(* ROB entries                                                             *)

(* The fields of a ROB entry have the types its operation prescribes.      *)
LEMMA EntryElim ==
    ASSUME NEW e \in Entry
    PROVE  /\ e.op \in Ops
           /\ e.st \in States
           /\ e.src \in [Src[e.op] -> Pregs]
           /\ e.new \in [Dst[e.op] -> Pregs]
           /\ e.prev \in [Dst[e.op] -> Pregs]
  BY DEF Entry

(* What allocate() builds is a ROB entry.                                  *)
LEMMA EntryIntro ==
    ASSUME NEW o \in Ops, NEW st \in States,
           NEW src \in [Src[o] -> Pregs],
           NEW new \in [Dst[o] -> Pregs],
           NEW prev \in [Dst[o] -> Pregs]
    PROVE  [op |-> o, st |-> st, src |-> src, new |-> new, prev |-> prev] \in Entry
  BY DEF Entry

(* Changing the progress of an entry leaves it an entry.                   *)
LEMMA EntryProgress ==
    ASSUME NEW e \in Entry, NEW s \in States
    PROVE  /\ [e EXCEPT !.st = s] \in Entry
           /\ [e EXCEPT !.st = s].st = s
           /\ [e EXCEPT !.st = s].op = e.op
           /\ [e EXCEPT !.st = s].src = e.src
           /\ [e EXCEPT !.st = s].new = e.new
           /\ [e EXCEPT !.st = s].prev = e.prev
  BY DEF Entry

(* Progress of one operation changes nothing the rename tables depend on.  *)
LEMMA SameShape ==
    ASSUME rob \in Seq(Entry), NEW i \in DOMAIN rob, NEW s \in States,
           rob' = [rob EXCEPT ![i].st = s]
    PROVE  /\ rob' \in Seq(Entry)
           /\ Len(rob') = Len(rob)
           /\ DOMAIN rob' = DOMAIN rob
           /\ rob'[i].st = s
           /\ \A j \in DOMAIN rob :
                /\ j # i => rob'[j].st = rob[j].st
                /\ rob'[j].op = rob[j].op
                /\ rob'[j].src = rob[j].src
                /\ rob'[j].new = rob[j].new
                /\ rob'[j].prev = rob[j].prev
<1>1. rob[i] \in Entry
  OBVIOUS
<1>2. [rob[i] EXCEPT !.st = s] \in Entry
  BY <1>1, EntryProgress
<1>3. rob' = [rob EXCEPT ![i] = [rob[i] EXCEPT !.st = s]]
  OBVIOUS
<1>4. /\ rob' \in Seq(Entry)
      /\ Len(rob') = Len(rob)
      /\ DOMAIN rob' = DOMAIN rob
      /\ rob'[i] = [rob[i] EXCEPT !.st = s]
      /\ \A j \in DOMAIN rob : j # i => rob'[j] = rob[j]
  BY <1>2, <1>3
<1>5. /\ rob'[i].st = s
      /\ rob'[i].op = rob[i].op
      /\ rob'[i].src = rob[i].src
      /\ rob'[i].new = rob[i].new
      /\ rob'[i].prev = rob[i].prev
  <2>1. rob'[i] = [rob[i] EXCEPT !.st = s]
    BY <1>4
  <2> QED
    BY <1>1, <2>1, EntryProgress, Zenon
<1>6. \A j \in DOMAIN rob : j # i => rob'[j] = rob[j]
  BY <1>4
<1> QED
  BY <1>4, <1>5, <1>6, Zenon

-----------------------------------------------------------------------------
(* Writing a result                                                        *)

(* Write() stores the result in the operation's own destinations and       *)
(* leaves every other physical register alone.                             *)
LEMMA WriteLemma ==
    ASSUME NEW e \in Entry, prf \in [Pregs -> Val],
           NEW res \in Eval(e.op, SrcVals(e)),
           \A r, s \in Dst[e.op] : e.new[r] = e.new[s] => r = s
    PROVE  /\ res \in [Dst[e.op] -> Val]
           /\ Write(e, res) \in [Pregs -> Val]
           /\ \A r \in Dst[e.op] : Write(e, res)[e.new[r]] = res[r]
           /\ \A p \in Pregs : p \notin RangeOf(e.new) => Write(e, res)[p] = prf[p]
<1>1. /\ e.op \in Ops
      /\ e.src \in [Src[e.op] -> Pregs]
      /\ e.new \in [Dst[e.op] -> Pregs]
  BY EntryElim
<1>2. SrcVals(e) \in [Src[e.op] -> Val]
  BY <1>1 DEF SrcVals
<1>3. res \in [Dst[e.op] -> Val]
  BY <1>1, <1>2, EvalAssumption
<1>4. \A p \in Pregs : (\E r \in Dst[e.op] : e.new[r] = p) =>
          /\ (CHOOSE r \in Dst[e.op] : e.new[r] = p) \in Dst[e.op]
          /\ e.new[CHOOSE r \in Dst[e.op] : e.new[r] = p] = p
  BY Zenon
<1>5. Write(e, res) \in [Pregs -> Val]
  BY <1>3, <1>4 DEF Write
<1>6. ASSUME NEW r \in Dst[e.op]
      PROVE  Write(e, res)[e.new[r]] = res[r]
  <2>1. e.new[r] \in Pregs
    BY <1>1
  <2>2. (CHOOSE s \in Dst[e.op] : e.new[s] = e.new[r]) = r
    BY <1>4, <2>1
  <2> QED
    BY <2>1, <2>2 DEF Write
<1>7. ASSUME NEW p \in Pregs, p \notin RangeOf(e.new)
      PROVE  Write(e, res)[p] = prf[p]
  BY <1>1, <1>7 DEF Write, RangeOf
<1> QED
  BY <1>3, <1>5, <1>6, <1>7

(* Whatever the result, Write() yields a register file.                    *)
LEMMA WriteType ==
    ASSUME NEW e \in Entry, prf \in [Pregs -> Val],
           NEW res \in Eval(e.op, SrcVals(e))
    PROVE  Write(e, res) \in [Pregs -> Val]
<1>1. /\ e.op \in Ops
      /\ e.src \in [Src[e.op] -> Pregs]
  BY EntryElim
<1>2. SrcVals(e) \in [Src[e.op] -> Val]
  BY <1>1 DEF SrcVals
<1>3. res \in [Dst[e.op] -> Val]
  BY <1>1, <1>2, EvalAssumption
<1>4. \A p \in Pregs : (\E r \in Dst[e.op] : e.new[r] = p) =>
          (CHOOSE r \in Dst[e.op] : e.new[r] = p) \in Dst[e.op]
  BY Zenon
<1> QED
  BY <1>3, <1>4 DEF Write

-----------------------------------------------------------------------------
(* Type correctness                                                        *)

(* The initial tables of initialize_rat_mappings() are well typed.         *)
LEMMA InitType == Init => TypeOK
<1> SUFFICES ASSUME Init PROVE TypeOK
  OBVIOUS
<1>1. RangeOf(InitMap) \subseteq Pregs
  BY InitMapAssumption DEF RangeOf
<1>2. rob \in Seq(Entry) /\ Len(rob) <= RobSize
  BY SigAssumption DEF Init
<1>3. arch \in [Regs -> Val]
  BY InitMapAssumption DEF Init
<1> QED
  BY <1>1, <1>2, <1>3, InitMapAssumption DEF Init, TypeOK

(* allocate() keeps the tables typed and the rob within rob_size.          *)
LEMMA AllocateType ==
    ASSUME TypeOK, NEW op \in Ops, Allocate(op)
    PROVE  TypeOK'
<1>1. PICK new \in [Dst[op] -> Pregs \ freevec] :
          /\ rob' = Append(rob,
                      [op |-> op, st |-> "allocated",
                       src  |-> [r \in Src[op] |-> rat[r]],
                       new  |-> new,
                       prev |-> [r \in Dst[op] |-> rat[r]]])
          /\ rat' = [r \in Regs |-> IF r \in Dst[op] THEN new[r] ELSE rat[r]]
          /\ freevec' = freevec \cup RangeOf(new)
          /\ valid' = valid \ RangeOf(new)
  BY DEF Allocate, NewEntry, RobFull
<1> DEFINE e == [op |-> op, st |-> "allocated",
                 src  |-> [r \in Src[op] |-> rat[r]],
                 new  |-> new,
                 prev |-> [r \in Dst[op] |-> rat[r]]]
<1>2. Src[op] \subseteq Regs /\ Dst[op] \subseteq Regs
  BY SigAssumption
<1>3. e \in Entry
  <2>1. /\ [r \in Src[op] |-> rat[r]] \in [Src[op] -> Pregs]
        /\ [r \in Dst[op] |-> rat[r]] \in [Dst[op] -> Pregs]
        /\ new \in [Dst[op] -> Pregs]
    BY <1>2 DEF TypeOK
  <2>2. "allocated" \in States
    BY DEF States
  <2> QED
    BY <2>1, <2>2, EntryIntro
<1>4. /\ rob' \in Seq(Entry)
      /\ Len(rob') <= RobSize
  <2>1. rob \in Seq(Entry) /\ Len(rob) < RobSize /\ rob' = Append(rob, e)
    <3>1. rob \in Seq(Entry) /\ rob' = Append(rob, e) /\ ~ (Len(rob) >= RobSize)
      BY <1>1 DEF TypeOK, Allocate, RobFull
    <3> HIDE DEF e
    <3>2. Len(rob) \in Nat /\ RobSize \in Nat
      BY <3>1, SigAssumption
    <3> QED
      BY <3>1, <3>2
  <2> HIDE DEF e
  <2>2. Len(rob') = Len(rob) + 1 /\ rob' \in Seq(Entry)
    BY <1>3, <2>1
  <2> QED
    BY <2>1, <2>2, SigAssumption
<1>5. rat' \in [Regs -> Pregs]
  BY <1>1, <1>2 DEF TypeOK
<1>6. freevec' \subseteq Pregs /\ valid' \subseteq Pregs
  BY <1>1 DEF TypeOK, RangeOf
<1> QED
  BY <1>4, <1>5, <1>6 DEF TypeOK, Allocate, NewEntry, RobFull

(* execute(), complete() and the load faults keep the types.               *)
LEMMA ProgressType ==
    ASSUME TypeOK, NEW i \in DOMAIN rob,
           Execute(i) \/ Complete(i) \/ CompleteFaulted(i) \/ MarkFaulted(i)
    PROVE  TypeOK'
<1>1. PICK s \in States : rob' = [rob EXCEPT ![i].st = s]
  <2>1. {"executed", "complete", "faulted"} \subseteq States
    BY DEF States
  <2> QED
    BY <2>1 DEF Execute, Ready, Complete, CompleteFaulted, MarkFaulted
<1>2. rob' \in Seq(Entry) /\ Len(rob') <= RobSize
  <2>1. rob \in Seq(Entry) /\ Len(rob) <= RobSize
    BY DEF TypeOK
  <2>2. rob' \in Seq(Entry) /\ Len(rob') = Len(rob)
    BY <1>1, <2>1, SameShape, Zenon
  <2> QED
    BY <2>1, <2>2
<1>3. rob[i] \in Entry /\ prf \in [Pregs -> Val]
  BY DEF TypeOK
<1>4. prf' \in [Pregs -> Val]
  BY <1>3, WriteType DEF Execute, Ready, Complete, CompleteFaulted, MarkFaulted
<1>5. valid' \subseteq Pregs
  <2>1. RangeOf(rob[i].new) \subseteq Pregs
    BY <1>3, EntryElim DEF RangeOf
  <2> QED
    BY <2>1 DEF TypeOK, Execute, Ready, Complete, CompleteFaulted, MarkFaulted
<1>6. UNCHANGED <<rat, rat_retire, freevec, freevec_retire, arch>>
  BY DEF Execute, Ready, Complete, CompleteFaulted, MarkFaulted
<1> QED
  BY <1>2, <1>4, <1>5, <1>6 DEF TypeOK

(* retire() of the oldest operation keeps the types.                       *)
LEMMA RetireType ==
    ASSUME TypeOK, Retire \/ RetireMonitor
    PROVE  TypeOK'
<1> DEFINE e == Head(rob)
<1>1. /\ rob \in Seq(Entry) /\ rob # <<>> /\ Len(rob) <= RobSize
      /\ rob' = Tail(rob)
  BY DEF TypeOK, Retire, RetireMonitor, RetireTables, Released, Committed
<1>2. e \in Entry
  BY <1>1
<1>3. PICK pf \in [Pregs -> Val] : RetireTables(e, pf)
  <2>1. prf \in [Pregs -> Val]
    BY DEF TypeOK
  <2>2. CASE Retire
    BY <2>1, <2>2 DEF Retire
  <2>3. CASE RetireMonitor
    BY <1>2, <2>1, <2>3, WriteType DEF RetireMonitor
  <2> QED
    BY <2>2, <2>3
<1> HIDE DEF e
<1>4. /\ e.op \in Ops
      /\ e.new \in [Dst[e.op] -> Pregs]
      /\ e.prev \in [Dst[e.op] -> Pregs]
  BY <1>2, EntryElim
<1>5. rob' \in Seq(Entry) /\ Len(rob') <= RobSize
  BY <1>1, SigAssumption
<1>6. RangeOf(e.new) \subseteq Pregs
  BY <1>4 DEF RangeOf
<1>7. rat_retire' \in [Regs -> Pregs] /\ arch' \in [Regs -> Val] /\ prf' \in [Pregs -> Val]
  BY <1>3, <1>4 DEF TypeOK, RetireTables, Released, Committed
<1>8. freevec' \subseteq Pregs /\ freevec_retire' \subseteq Pregs /\ rat' \in [Regs -> Pregs]
  BY <1>3, <1>6 DEF TypeOK, RetireTables, Released, Committed
<1>9. valid' \subseteq Pregs
  BY <1>6 DEF TypeOK, Retire, RetireMonitor, e
<1> QED
  BY <1>5, <1>7, <1>8, <1>9 DEF TypeOK

(* The recovery keeps the types.                                           *)
LEMMA NukeType ==
    ASSUME TypeOK, Nuke
    PROVE  TypeOK'
<1>1. RangeOf(rat_retire) \subseteq Pregs
  BY DEF TypeOK, RangeOf
<1>2. rob' \in Seq(Entry) /\ Len(rob') <= RobSize
  BY SigAssumption DEF Nuke
<1> QED
  BY <1>1, <1>2 DEF TypeOK, Nuke

(* Every step of the machine preserves its types.                          *)
LEMMA NextType == TypeOK /\ [Next]_vars => TypeOK'
<1> SUFFICES ASSUME TypeOK, [Next]_vars PROVE TypeOK'
  OBVIOUS
<1>1. ASSUME NEW op \in Ops, Allocate(op) PROVE TypeOK'
  BY <1>1, AllocateType
<1>2. ASSUME NEW i \in DOMAIN rob,
             Execute(i) \/ Complete(i) \/ CompleteFaulted(i) \/ MarkFaulted(i)
      PROVE  TypeOK'
  BY <1>2, ProgressType
<1>3. CASE Retire \/ RetireMonitor
  BY <1>3, RetireType
<1>4. CASE Nuke
  BY <1>4, NukeType
<1>5. CASE UNCHANGED vars
  BY <1>5 DEF vars, TypeOK
<1> QED
  BY <1>1, <1>2, <1>3, <1>4, <1>5 DEF Next

(* Every reachable state of the renaming machinery is well typed: tables   *)
(* map into the physical file and the ROB never exceeds rob_size.          *)
THEOREM TypeCorrect == Spec => []TypeOK
  BY InitType, NextType, PTL DEF Spec

-----------------------------------------------------------------------------
(* Program-order mapping                                                   *)

(* MapsTo as a function of the ROB q and the retired table t.              *)
Maps(q, t, r, j, p) ==
    \/ /\ p = t[r]
       /\ \A k \in 1 .. j - 1 : r \notin Dst[q[k].op]
    \/ \E i \in 1 .. j - 1 :
        /\ r \in Dst[q[i].op]
        /\ p = q[i].new[r]
        /\ \A k \in i + 1 .. j - 1 : r \notin Dst[q[k].op]

(* The two invariants about mappings, over an explicit state.              *)
Flow(q, t) ==
    \A j \in DOMAIN q :
        /\ \A r \in Src[q[j].op] : Maps(q, t, r, j, q[j].src[r])
        /\ \A r \in Dst[q[j].op] : Maps(q, t, r, j, q[j].prev[r])

Current(q, t, m) == \A r \in Regs : Maps(q, t, r, Len(q) + 1, m[r])

(* The invariants are the functions of (rob, rat_retire, rat) above.       *)
LEMMA FlowDef ==
    /\ SequentialDataflow <=> Flow(rob, rat_retire)
    /\ RatCurrent <=> Current(rob, rat_retire, rat)
    /\ SequentialDataflow' <=> Flow(rob', rat_retire')
    /\ RatCurrent' <=> Current(rob', rat_retire', rat')
  BY Zenon DEF SequentialDataflow, RatCurrent, MapsTo, Writes, Flow, Current, Maps

(* Mappings depend on the operations and destinations of older entries.    *)
LEMMA MapsSame ==
    ASSUME NEW q \in Seq(Entry), NEW q2 \in Seq(Entry), NEW t, NEW r,
           NEW j \in 1 .. Len(q) + 1, NEW p, Len(q) <= Len(q2),
           \A k \in 1 .. j - 1 : q2[k].op = q[k].op /\ q2[k].new = q[k].new,
           Maps(q, t, r, j, p)
    PROVE  Maps(q2, t, r, j, p)
<1>1. \A i \in 1 .. j - 1 : \A k \in i + 1 .. j - 1 : k \in 1 .. j - 1
  OBVIOUS
<1> QED
  BY <1>1, Zenon DEF Maps

(* Retiring the oldest entry moves its mapping into the retired table.     *)
LEMMA MapsTail ==
    ASSUME NEW q \in Seq(Entry), q # <<>>, NEW t, NEW t2, NEW r,
           NEW j \in 2 .. Len(q) + 1, NEW p,
           t2[r] = IF r \in Dst[q[1].op] THEN q[1].new[r] ELSE t[r],
           Maps(q, t, r, j, p)
    PROVE  Maps(Tail(q), t2, r, j - 1, p)
<1>1. \A k \in 1 .. j - 2 : Tail(q)[k] = q[k + 1] /\ k + 1 \in 1 .. j - 1
  OBVIOUS
<1>2. (j - 1) - 1 = j - 2 /\ 1 \in 1 .. j - 1 /\ 1 + 1 = 2
  OBVIOUS
<1>3. CASE p = t[r] /\ \A k \in 1 .. j - 1 : r \notin Dst[q[k].op]
  <2>1. p = t2[r]
    BY <1>2, <1>3
  <2>2. \A k \in 1 .. j - 2 : r \notin Dst[Tail(q)[k].op]
    BY <1>1, <1>3
  <2> QED
    BY <1>2, <2>1, <2>2, Zenon DEF Maps
<1>4. ASSUME NEW i \in 1 .. j - 1,
             p = q[i].new[r],
             r \in Dst[q[i].op],
             \A k \in i + 1 .. j - 1 : r \notin Dst[q[k].op]
      PROVE  Maps(Tail(q), t2, r, j - 1, p)
  <2>1. CASE i = 1
    <3>1. p = t2[r]
      BY <1>4, <2>1
    <3>2. \A k \in 1 .. j - 2 : k + 1 \in i + 1 .. j - 1
      BY <2>1
    <3>3. \A k \in 1 .. j - 2 : r \notin Dst[Tail(q)[k].op]
      BY <1>1, <1>4, <3>2
    <3> QED
      BY <1>2, <3>1, <3>3, Zenon DEF Maps
  <2>2. CASE i # 1
    <3>1. i - 1 \in 1 .. j - 2 /\ Tail(q)[i - 1] = q[i]
      BY <2>2
    <3>2. \A k \in (i - 1) + 1 .. j - 2 : k + 1 \in i + 1 .. j - 1 /\ k \in 1 .. j - 2
      OBVIOUS
    <3>3. \A k \in (i - 1) + 1 .. j - 2 : r \notin Dst[Tail(q)[k].op]
      BY <1>1, <1>4, <3>2
    <3> QED
      BY <1>2, <1>4, <3>1, <3>3, Zenon DEF Maps
  <2> QED
    BY <2>1, <2>2
<1> QED
  BY <1>3, <1>4 DEF Maps

-----------------------------------------------------------------------------
(* Consequences of the inductive invariant within one state                *)

(* A mapped register is a retired one or the destination of an in-flight   *)
(* operation.                                                              *)
LEMMA MapsOwner ==
    ASSUME NEW q \in Seq(Entry), NEW t \in [Regs -> Pregs],
           NEW r \in Regs, NEW j \in 1 .. Len(q) + 1, NEW p,
           Maps(q, t, r, j, p)
    PROVE  p \in RangeOf(t) \cup UNION {RangeOf(q[i].new) : i \in DOMAIN q}
<1>1. CASE p = t[r]
  BY <1>1 DEF RangeOf
<1>2. ASSUME NEW i \in 1 .. j - 1, p = q[i].new[r], r \in Dst[q[i].op]
      PROVE  p \in UNION {RangeOf(q[k].new) : k \in DOMAIN q}
  <2>1. i \in DOMAIN q
    OBVIOUS
  <2>2. q[i].new \in [Dst[q[i].op] -> Pregs]
    BY <2>1, EntryElim
  <2>3. p \in RangeOf(q[i].new)
    BY <1>2, <2>2 DEF RangeOf
  <2> QED
    BY <2>1, <2>3
<1> QED
  BY <1>1, <1>2 DEF Maps

(* Sources of in-flight operations, and every current mapping, are in use. *)
LEMMA HeldLemma ==
    ASSUME IInv
    PROVE  /\ SourcesHeld
           /\ \A r \in Regs : rat[r] \in freevec
<1>1. Flow(rob, rat_retire) /\ Current(rob, rat_retire, rat) /\ TypeOK
  BY FlowDef DEF IInv
<1>2. freevec = RangeOf(rat_retire) \cup InFlight
  BY DEF IInv, FreevecExact
<1>3. ASSUME NEW j \in DOMAIN rob, NEW r \in Src[rob[j].op]
      PROVE  rob[j].src[r] \in freevec
  <2>1. j \in 1 .. Len(rob) + 1 /\ rob[j] \in Entry
    BY <1>1 DEF TypeOK
  <2>2. r \in Regs
    BY <2>1, EntryElim, SigAssumption
  <2>3. Maps(rob, rat_retire, r, j, rob[j].src[r])
    BY <1>1 DEF Flow
  <2> QED
    BY <1>1, <1>2, <2>1, <2>2, <2>3, MapsOwner DEF TypeOK, InFlight
<1>4. SourcesHeld
  <2> SUFFICES ASSUME NEW j \in DOMAIN rob
               PROVE  RangeOf(rob[j].src) \subseteq freevec
    BY DEF SourcesHeld
  <2>1. rob[j].src \in [Src[rob[j].op] -> Pregs]
    BY <1>1, EntryElim DEF TypeOK
  <2> QED
    BY <1>3, <2>1 DEF RangeOf
<1>5. ASSUME NEW r \in Regs PROVE rat[r] \in freevec
  <2>1. Maps(rob, rat_retire, r, Len(rob) + 1, rat[r])
    BY <1>1 DEF Current
  <2>2. Len(rob) + 1 \in 1 .. Len(rob) + 1
    BY <1>1 DEF TypeOK
  <2> QED
    BY <1>1, <1>2, <2>1, <2>2, MapsOwner DEF TypeOK, InFlight
<1> QED
  BY <1>4, <1>5

(* The oldest operation reads, and will free, the retired mapping.         *)
LEMMA HeadLemma ==
    ASSUME IInv, rob # <<>>
    PROVE  /\ 1 \in DOMAIN rob
           /\ Head(rob) = rob[1]
           /\ rob[1] \in Entry
           /\ \A r \in Src[rob[1].op] : rob[1].src[r] = rat_retire[r]
           /\ \A r \in Dst[rob[1].op] : rob[1].prev[r] = rat_retire[r]
<1>1. Flow(rob, rat_retire) /\ rob \in Seq(Entry)
  BY FlowDef DEF IInv, TypeOK
<1>2. 1 \in DOMAIN rob /\ Head(rob) = rob[1] /\ rob[1] \in Entry
  BY <1>1
<1>3. ASSUME NEW r, NEW p, Maps(rob, rat_retire, r, 1, p)
      PROVE  p = rat_retire[r]
  BY <1>3 DEF Maps
<1> QED
  BY <1>1, <1>2, <1>3 DEF Flow

-----------------------------------------------------------------------------
(* Initial state                                                           *)

(* The inductive invariant holds of the tables initialize() builds.        *)
LEMMA InitIInv == Init => IInv
<1> SUFFICES ASSUME Init PROVE IInv
  OBVIOUS
<1>1. TypeOK
  BY InitType
<1>2. rob = <<>> /\ DOMAIN rob = {} /\ Len(rob) = 0
  BY DEF Init
<1>3. SequentialDataflow /\ ResultsHeld
  BY <1>2 DEF SequentialDataflow, ResultsHeld
<1>4. RatCurrent
  <2>1. 1 .. (Len(rob) + 1) - 1 = {}
    BY <1>2
  <2> QED
    BY <2>1 DEF RatCurrent, MapsTo, Init
<1>5. Distinct /\ FreevecExact /\ ValidExact
  BY <1>2, InitMapAssumption DEF Distinct, FreevecExact, ValidExact, InFlight, Init
<1>6. ArchPrecise
  BY DEF ArchPrecise, Init
<1> QED
  BY <1>1, <1>3, <1>4, <1>5, <1>6 DEF IInv

-----------------------------------------------------------------------------
(* Allocate                                                                *)

(* allocate() preserves the inductive invariant.                           *)
LEMMA AllocateIInv ==
    ASSUME IInv, NEW op \in Ops, Allocate(op)
    PROVE  IInv'
<1>1. PICK new \in [Dst[op] -> Pregs \ freevec] :
          /\ \A r, s \in Dst[op] : new[r] = new[s] => r = s
          /\ rob' = Append(rob,
                      [op |-> op, st |-> "allocated",
                       src  |-> [r \in Src[op] |-> rat[r]],
                       new  |-> new,
                       prev |-> [r \in Dst[op] |-> rat[r]]])
          /\ rat' = [r \in Regs |-> IF r \in Dst[op] THEN new[r] ELSE rat[r]]
          /\ freevec' = freevec \cup RangeOf(new)
          /\ valid' = valid \ RangeOf(new)
  BY DEF Allocate, NewEntry, RobFull
<1> DEFINE e == [op |-> op, st |-> "allocated",
                 src  |-> [r \in Src[op] |-> rat[r]],
                 new  |-> new,
                 prev |-> [r \in Dst[op] |-> rat[r]]]
           n == Len(rob)
<1>2. TypeOK /\ TypeOK'
  BY AllocateType DEF IInv
<1>3. Src[op] \subseteq Regs /\ Dst[op] \subseteq Regs
  BY SigAssumption
<1>4. /\ e.op = op /\ e.st = "allocated" /\ e.new = new
      /\ \A r \in Src[op] : e.src[r] = rat[r]
      /\ \A r \in Dst[op] : e.prev[r] = rat[r]
  OBVIOUS
<1>5. UNCHANGED <<rat_retire, freevec_retire, prf, arch>> /\ rob' = Append(rob, e)
  BY <1>1 DEF Allocate, NewEntry, RobFull
<1> HIDE DEF e
<1>6. /\ rob \in Seq(Entry) /\ rob' \in Seq(Entry)
      /\ n \in Nat /\ Len(rob') = n + 1
      /\ DOMAIN rob = 1 .. n /\ DOMAIN rob' = 1 .. n + 1
      /\ \A k \in 1 .. n : rob'[k] = rob[k]
      /\ rob'[n + 1] = e
  <2>1. rob \in Seq(Entry) /\ rob' \in Seq(Entry)
    BY <1>2 DEF TypeOK
  <2> QED
    BY <1>5, <2>1
<1>7. Flow(rob, rat_retire) /\ Current(rob, rat_retire, rat)
  BY FlowDef DEF IInv
<1>8. Flow(rob', rat_retire')
  <2> SUFFICES ASSUME NEW j \in 1 .. n + 1
               PROVE  /\ \A r \in Src[rob'[j].op] : Maps(rob', rat_retire, r, j, rob'[j].src[r])
                      /\ \A r \in Dst[rob'[j].op] : Maps(rob', rat_retire, r, j, rob'[j].prev[r])
    BY <1>5, <1>6 DEF Flow
  <2>1. ASSUME NEW r, NEW p, Maps(rob, rat_retire, r, j, p)
        PROVE  Maps(rob', rat_retire, r, j, p)
    <3>1. Len(rob) <= Len(rob') /\ j \in 1 .. Len(rob) + 1
      BY <1>6
    <3>2. \A k \in 1 .. j - 1 : rob'[k].op = rob[k].op /\ rob'[k].new = rob[k].new
      BY <1>6
    <3> QED
      BY <1>6, <2>1, <3>1, <3>2, MapsSame
  <2>2. CASE j \in 1 .. n
    <3>1. rob'[j] = rob[j] /\ j \in DOMAIN rob
      BY <1>6, <2>2
    <3>2. /\ \A r \in Src[rob[j].op] : Maps(rob, rat_retire, r, j, rob[j].src[r])
          /\ \A r \in Dst[rob[j].op] : Maps(rob, rat_retire, r, j, rob[j].prev[r])
      BY <1>7, <3>1 DEF Flow
    <3> QED
      BY <2>1, <3>1, <3>2
  <2>3. CASE j = n + 1
    <3>1. rob'[j] = e
      BY <1>6, <2>3
    <3>2. \A r \in Regs : Maps(rob, rat_retire, r, j, rat[r])
      BY <1>7, <2>3 DEF Current
    <3> QED
      BY <1>3, <1>4, <2>1, <3>1, <3>2
  <2> QED
    BY <1>6, <2>2, <2>3
<1>9. Current(rob', rat_retire', rat')
  <2> SUFFICES ASSUME NEW r \in Regs
               PROVE  Maps(rob', rat_retire, r, n + 2, rat'[r])
    <3>1. Len(rob') + 1 = n + 2
      BY <1>6
    <3> QED
      BY <1>5, <3>1 DEF Current
  <2>0. (n + 2) - 1 = n + 1 /\ (n + 1) - 1 = n /\ n + 1 \in 1 .. n + 1 /\ (n + 1) + 1 .. n + 1 = {}
    BY <1>6
  <2>1. CASE r \in Dst[op]
    <3>1. rat'[r] = rob'[n + 1].new[r] /\ r \in Dst[rob'[n + 1].op]
      BY <1>1, <1>4, <1>6, <2>1
    <3> QED
      BY <2>0, <3>1 DEF Maps
  <2>2. CASE r \notin Dst[op]
    <3>1. rat'[r] = rat[r] /\ Maps(rob, rat_retire, r, n + 1, rat[r])
      BY <1>1, <1>7, <2>2 DEF Current
    <3>2. r \notin Dst[rob'[n + 1].op]
      BY <1>4, <1>6, <2>2
    <3>3. CASE rat[r] = rat_retire[r] /\ \A k \in 1 .. n : r \notin Dst[rob[k].op]
      <4>1. \A k \in 1 .. n + 1 : r \notin Dst[rob'[k].op]
        BY <1>6, <3>2, <3>3
      <4> QED
        BY <2>0, <3>1, <3>3, <4>1 DEF Maps
    <3>4. ASSUME NEW i \in 1 .. n, rat[r] = rob[i].new[r], r \in Dst[rob[i].op],
                 \A k \in i + 1 .. n : r \notin Dst[rob[k].op]
          PROVE  Maps(rob', rat_retire, r, n + 2, rat'[r])
      <4>1. \A k \in i + 1 .. n + 1 : r \notin Dst[rob'[k].op]
        BY <1>6, <3>2, <3>4
      <4>2. i \in 1 .. n + 1 /\ rob'[i] = rob[i]
        BY <1>6
      <4> QED
        BY <2>0, <3>1, <3>4, <4>1, <4>2 DEF Maps
    <3> QED
      BY <2>0, <3>1, <3>3, <3>4 DEF Maps
  <2> QED
    BY <2>1, <2>2
<1>10. RangeOf(new) \cap freevec = {} /\ \A r \in Dst[op] : new[r] \in RangeOf(new)
  BY DEF RangeOf
<1>11. freevec = RangeOf(rat_retire) \cup InFlight /\ freevec_retire = RangeOf(rat_retire)
  BY DEF IInv, FreevecExact
<1>12. \A i \in 1 .. n : \A r \in Dst[rob[i].op] : rob[i].new[r] \in freevec
  <2>1. ASSUME NEW i \in 1 .. n, NEW r \in Dst[rob[i].op]
        PROVE  rob[i].new[r] \in freevec
    <3>1. rob[i].new \in [Dst[rob[i].op] -> Pregs]
      BY <1>6, EntryElim
    <3>2. rob[i].new[r] \in RangeOf(rob[i].new)
      BY <3>1 DEF RangeOf
    <3> QED
      BY <1>6, <1>11, <3>2 DEF InFlight
  <2> QED
    BY <2>1
<1>13. Distinct'
  <2>1. \A i, j \in 1 .. n + 1 : \A r \in Dst[rob'[i].op], s \in Dst[rob'[j].op] :
            rob'[i].new[r] = rob'[j].new[s] => i = j /\ r = s
    <3> SUFFICES ASSUME NEW i \in 1 .. n + 1, NEW j \in 1 .. n + 1,
                        NEW r \in Dst[rob'[i].op], NEW s \in Dst[rob'[j].op],
                        rob'[i].new[r] = rob'[j].new[s]
                 PROVE  i = j /\ r = s
      OBVIOUS
    <3>1. CASE i \in 1 .. n /\ j \in 1 .. n
      BY <1>6, <3>1 DEF IInv, Distinct
    <3>2. CASE i = n + 1 /\ j \in 1 .. n
      BY <1>4, <1>6, <1>10, <1>12, <3>2
    <3>3. CASE i \in 1 .. n /\ j = n + 1
      BY <1>4, <1>6, <1>10, <1>12, <3>3
    <3>4. CASE i = n + 1 /\ j = n + 1
      BY <1>1, <1>4, <1>6, <3>4
    <3> QED
      BY <1>6, <3>1, <3>2, <3>3, <3>4
  <2>2. \A i \in 1 .. n + 1 : \A r \in Dst[rob'[i].op], s \in Regs :
            rob'[i].new[r] # rat_retire'[s]
    <3> SUFFICES ASSUME NEW i \in 1 .. n + 1, NEW r \in Dst[rob'[i].op], NEW s \in Regs
                 PROVE  rob'[i].new[r] # rat_retire[s]
      BY <1>5
    <3>1. CASE i \in 1 .. n
      BY <1>6, <3>1 DEF IInv, Distinct
    <3>2. CASE i = n + 1
      <4>1. rat_retire[s] \in freevec
        BY <1>2, <1>11 DEF RangeOf, TypeOK
      <4> QED
        BY <1>4, <1>6, <1>10, <3>2, <4>1
    <3> QED
      BY <1>6, <3>1, <3>2
  <2> QED
    BY <1>5, <1>6, <2>1, <2>2 DEF IInv, Distinct
<1>14. FreevecExact'
  <2>1. InFlight' = InFlight \cup RangeOf(new)
    <3>1. InFlight' = UNION {RangeOf(rob'[i].new) : i \in 1 .. n + 1}
      BY <1>6 DEF InFlight, RangeOf
    <3>2. InFlight = UNION {RangeOf(rob[i].new) : i \in 1 .. n}
      BY <1>6 DEF InFlight
    <3>3. RangeOf(rob'[n + 1].new) = RangeOf(new)
      BY <1>4, <1>6
    <3>4. \A i \in 1 .. n : RangeOf(rob'[i].new) = RangeOf(rob[i].new)
      BY <1>6
    <3>5. 1 .. n + 1 = 1 .. n \cup {n + 1}
      BY <1>6
    <3> QED
      BY <3>1, <3>2, <3>3, <3>4, <3>5
  <2>2. RangeOf(rat_retire)' = RangeOf(rat_retire)
    BY <1>5 DEF RangeOf
  <2> QED
    BY <1>1, <1>5, <1>11, <2>1, <2>2 DEF FreevecExact
<1>15. ValidExact'
  <2>1. RangeOf(rat_retire) \subseteq valid'
    BY <1>1, <1>10, <1>11 DEF IInv, ValidExact
  <2>2. ASSUME NEW j \in 1 .. n, rob[j].st # "allocated"
        PROVE  RangeOf(rob[j].src) \subseteq valid'
    BY <1>1, <1>6, <1>10, <2>2, HeldLemma DEF IInv, ValidExact, SourcesHeld
  <2>3. ASSUME NEW j \in 1 .. n,
               rob[j].st \in {"allocated", "executed"} \/ WriteAt[rob[j].op] = "retire"
        PROVE  RangeOf(rob[j].new) \cap valid' = {}
    BY <1>1, <1>6, <2>3 DEF IInv, ValidExact
  <2>4. e.st = "allocated" /\ RangeOf(e.new) \cap valid' = {}
    BY <1>1, <1>4
  <2>7. ASSUME NEW j \in 1 .. n, rob[j].st = "complete", WriteAt[rob[j].op] # "retire"
        PROVE  RangeOf(rob[j].new) \subseteq valid'
    <3>1. RangeOf(rob[j].new) \subseteq valid /\ RangeOf(rob[j].new) \subseteq freevec
      BY <1>6, <1>11, <2>7 DEF IInv, ValidExact, InFlight
    <3> QED
      BY <1>1, <1>10, <3>1
  <2>5. ASSUME NEW j \in DOMAIN rob'
        PROVE  /\ rob'[j].st # "allocated" => RangeOf(rob'[j].src) \subseteq valid'
               /\ (rob'[j].st \in {"allocated", "executed"} \/ WriteAt[rob'[j].op] = "retire")
                     => RangeOf(rob'[j].new) \cap valid' = {}
               /\ (rob'[j].st = "complete" /\ WriteAt[rob'[j].op] # "retire")
                     => RangeOf(rob'[j].new) \subseteq valid'
    <3>1. CASE j \in 1 .. n
      BY <1>6, <2>2, <2>3, <2>7, <3>1
    <3>2. CASE j = n + 1
      BY <1>6, <2>4, <3>2
    <3> QED
      BY <1>6, <3>1, <3>2
  <2>6. RangeOf(rat_retire') = RangeOf(rat_retire)
    BY <1>5
  <2> QED
    BY <2>1, <2>5, <2>6 DEF ValidExact, RangeOf
<1>16. ResultsHeld'
  <2> SUFFICES ASSUME NEW j \in DOMAIN rob',
                      \/ rob'[j].st = "executed" /\ WriteAt[rob'[j].op] = "execute"
                      \/ rob'[j].st = "complete" /\ WriteAt[rob'[j].op] # "retire"
               PROVE  [r \in Dst[rob'[j].op] |-> prf'[rob'[j].new[r]]]
                         \in Eval(rob'[j].op, SrcVals(rob[j])')
    BY <1>6 DEF ResultsHeld, SrcVals
  <2>1. j \in 1 .. n
    BY <1>4, <1>6
  <2>2. rob'[j] = rob[j] /\ prf' = prf
    BY <1>5, <1>6, <2>1
  <2>3. [r \in Dst[rob[j].op] |-> prf[rob[j].new[r]]] \in Eval(rob[j].op, SrcVals(rob[j]))
    BY <1>6, <2>1, <2>2 DEF IInv, ResultsHeld
  <2> QED
    BY <2>2, <2>3 DEF SrcVals
<1>17. ArchPrecise'
  BY <1>5 DEF IInv, ArchPrecise
<1> QED
  BY <1>2, <1>8, <1>9, <1>13, <1>14, <1>15, <1>16, <1>17, FlowDef DEF IInv

-----------------------------------------------------------------------------
(* Execute, Complete and the load faults                                   *)

(* The rename tables are untouched by the progress of an operation.        *)
LEMMA ProgressTables ==
    ASSUME IInv, NEW i \in DOMAIN rob, NEW s \in States,
           rob' = [rob EXCEPT ![i].st = s],
           UNCHANGED <<rat, rat_retire, freevec, freevec_retire>>
    PROVE  SequentialDataflow' /\ RatCurrent' /\ Distinct' /\ FreevecExact'
<1>1. rob \in Seq(Entry)
  BY DEF IInv, TypeOK
<1>2. /\ rob' \in Seq(Entry)
      /\ Len(rob') = Len(rob)
      /\ DOMAIN rob' = DOMAIN rob
      /\ \A j \in DOMAIN rob :
            /\ rob'[j].op = rob[j].op
            /\ rob'[j].src = rob[j].src
            /\ rob'[j].new = rob[j].new
            /\ rob'[j].prev = rob[j].prev
  BY <1>1, SameShape, Zenon
<1>3. ASSUME NEW r, NEW j \in 1 .. Len(rob) + 1, NEW p, Maps(rob, rat_retire, r, j, p)
      PROVE  Maps(rob', rat_retire', r, j, p)
  <2>1. \A k \in 1 .. j - 1 : rob'[k].op = rob[k].op /\ rob'[k].new = rob[k].new
    BY <1>1, <1>2
  <2>2. Len(rob) <= Len(rob') /\ rat_retire' = rat_retire
    BY <1>1, <1>2
  <2>3. Maps(rob', rat_retire, r, j, p)
    BY <1>1, <1>2, <1>3, <2>1, <2>2, MapsSame
  <2> QED
    BY <2>2, <2>3
<1>4. Flow(rob, rat_retire) /\ Current(rob, rat_retire, rat)
  BY FlowDef DEF IInv
<1>5. Flow(rob', rat_retire')
  <2> SUFFICES ASSUME NEW j \in DOMAIN rob
               PROVE  /\ \A r \in Src[rob[j].op] : Maps(rob', rat_retire', r, j, rob[j].src[r])
                      /\ \A r \in Dst[rob[j].op] : Maps(rob', rat_retire', r, j, rob[j].prev[r])
    BY <1>2, Zenon DEF Flow
  <2>1. j \in 1 .. Len(rob) + 1
    BY <1>1
  <2>2. /\ \A r \in Src[rob[j].op] : Maps(rob, rat_retire, r, j, rob[j].src[r])
        /\ \A r \in Dst[rob[j].op] : Maps(rob, rat_retire, r, j, rob[j].prev[r])
    BY <1>4, Zenon DEF Flow
  <2> QED
    BY <1>3, <2>1, <2>2, Zenon
<1>6. Current(rob', rat_retire', rat')
  <2>1. Len(rob) + 1 \in 1 .. Len(rob) + 1
    BY <1>1
  <2> QED
    BY <1>2, <1>3, <1>4, <2>1 DEF Current
<1>7. Distinct'
  BY <1>2 DEF IInv, Distinct
<1>8. FreevecExact'
  <2>1. InFlight' = InFlight
    BY <1>2 DEF InFlight, RangeOf
  <2> QED
    BY <2>1 DEF IInv, FreevecExact, RangeOf
<1> QED
  BY <1>5, <1>6, <1>7, <1>8, FlowDef

(* A write by an operation whose destinations are not valid yet disturbs   *)
(* neither a valid register nor another operation's destination.           *)
LEMMA WriteStable ==
    ASSUME IInv, NEW i \in DOMAIN rob, RangeOf(rob[i].new) \cap valid = {},
           NEW res \in Eval(rob[i].op, SrcVals(rob[i]))
    PROVE  /\ Write(rob[i], res) \in [Pregs -> Val]
           /\ \A p \in valid : Write(rob[i], res)[p] = prf[p]
           /\ \A j \in DOMAIN rob : j # i =>
                \A r \in Dst[rob[j].op] : Write(rob[i], res)[rob[j].new[r]] = prf[rob[j].new[r]]
           /\ [r \in Dst[rob[i].op] |-> Write(rob[i], res)[rob[i].new[r]]] = res
<1> DEFINE W == Write(rob[i], res)
<1>1. rob[i] \in Entry /\ prf \in [Pregs -> Val] /\ valid \subseteq Pregs
  BY DEF IInv, TypeOK
<1>2. \A r, s \in Dst[rob[i].op] : rob[i].new[r] = rob[i].new[s] => r = s
  BY DEF IInv, Distinct
<1>3. /\ res \in [Dst[rob[i].op] -> Val]
      /\ W \in [Pregs -> Val]
      /\ \A r \in Dst[rob[i].op] : W[rob[i].new[r]] = res[r]
      /\ \A p \in Pregs : p \notin RangeOf(rob[i].new) => W[p] = prf[p]
  BY <1>1, <1>2, WriteLemma
<1> HIDE DEF W
<1>4. \A p \in valid : W[p] = prf[p]
  BY <1>1, <1>3
<1>5. ASSUME NEW j \in DOMAIN rob, j # i, NEW r \in Dst[rob[j].op]
      PROVE  W[rob[j].new[r]] = prf[rob[j].new[r]]
  <2>1. rob[j].new \in [Dst[rob[j].op] -> Pregs] /\ rob[i].new \in [Dst[rob[i].op] -> Pregs]
    BY EntryElim DEF IInv, TypeOK
  <2>2. rob[j].new[r] \notin RangeOf(rob[i].new)
    BY <1>5, <2>1 DEF IInv, Distinct, RangeOf
  <2> QED
    BY <1>3, <2>1, <2>2
<1>6. [r \in Dst[rob[i].op] |-> W[rob[i].new[r]]] = res
  BY <1>3
<1> QED
  BY <1>3, <1>4, <1>5, <1>6 DEF W

(* Results already produced stay right when valid registers and other      *)
(* destinations keep their values.                                         *)
LEMMA ResultsStable ==
    ASSUME IInv, NEW pf,
           NEW j \in DOMAIN rob,
           \/ rob[j].st = "executed" /\ WriteAt[rob[j].op] = "execute"
           \/ rob[j].st = "complete" /\ WriteAt[rob[j].op] # "retire",
           \A p \in valid : pf[p] = prf[p],
           \A r \in Dst[rob[j].op] : pf[rob[j].new[r]] = prf[rob[j].new[r]]
    PROVE  [r \in Dst[rob[j].op] |-> pf[rob[j].new[r]]]
               \in Eval(rob[j].op, [r \in Src[rob[j].op] |-> pf[rob[j].src[r]]])
<1>1. rob[j].src \in [Src[rob[j].op] -> Pregs]
  BY EntryElim DEF IInv, TypeOK
<1>2. RangeOf(rob[j].src) \subseteq valid
  BY DEF IInv, ValidExact
<1>3. [r \in Src[rob[j].op] |-> pf[rob[j].src[r]]] = SrcVals(rob[j])
  BY <1>1, <1>2 DEF RangeOf, SrcVals
<1>4. [r \in Dst[rob[j].op] |-> pf[rob[j].new[r]]] = [r \in Dst[rob[j].op] |-> prf[rob[j].new[r]]]
  OBVIOUS
<1>5. [r \in Dst[rob[j].op] |-> prf[rob[j].new[r]]] \in Eval(rob[j].op, SrcVals(rob[j]))
  BY DEF IInv, ResultsHeld
<1> QED
  BY <1>3, <1>4, <1>5

(* The registers the retired mapping selects are valid, so they are kept.  *)
LEMMA ArchStable ==
    ASSUME IInv, \A p \in valid : prf'[p] = prf[p], UNCHANGED <<arch, rat_retire>>
    PROVE  ArchPrecise'
<1>1. \A r \in Regs : rat_retire[r] \in valid
  BY DEF IInv, TypeOK, ValidExact, RangeOf
<1> QED
  BY <1>1 DEF IInv, ArchPrecise

(* execute() preserves the inductive invariant.                            *)
LEMMA ExecuteIInv ==
    ASSUME IInv, NEW i \in DOMAIN rob, Execute(i)
    PROVE  IInv'
<1>1. TypeOK'
  BY ProgressType DEF IInv
<1>2. /\ rob' = [rob EXCEPT ![i].st = "executed"] /\ "executed" \in States
      /\ UNCHANGED <<rat, rat_retire, freevec, freevec_retire, valid, arch>>
      /\ rob[i].st = "allocated"
      /\ \A r \in Src[rob[i].op] : rob[i].src[r] \in valid
  BY DEF Execute, Ready, States
<1>3. SequentialDataflow' /\ RatCurrent' /\ Distinct' /\ FreevecExact'
  BY <1>2, ProgressTables
<1>4. /\ DOMAIN rob' = DOMAIN rob
      /\ rob'[i].st = "executed"
      /\ \A j \in DOMAIN rob :
            /\ j # i => rob'[j].st = rob[j].st
            /\ rob'[j].op = rob[j].op
            /\ rob'[j].src = rob[j].src
            /\ rob'[j].new = rob[j].new
  <2>1. rob \in Seq(Entry)
    BY DEF IInv, TypeOK
  <2> QED
    BY <1>2, <2>1, SameShape, Zenon
<1>5. rob[i].src \in [Src[rob[i].op] -> Pregs] /\ rob[i].new \in [Dst[rob[i].op] -> Pregs]
  BY EntryElim DEF IInv, TypeOK
<1>6. RangeOf(rob[i].src) \subseteq valid /\ RangeOf(rob[i].new) \cap valid = {}
  BY <1>2, <1>5 DEF RangeOf, IInv, ValidExact
<1>7. ValidExact'
  BY <1>2, <1>4, <1>6 DEF IInv, ValidExact, RangeOf
<1>8. /\ \A p \in valid : prf'[p] = prf[p]
      /\ \A j \in DOMAIN rob : j # i =>
            \A r \in Dst[rob[j].op] : prf'[rob[j].new[r]] = prf[rob[j].new[r]]
      /\ WriteAt[rob[i].op] = "execute" =>
            [r \in Dst[rob[i].op] |-> prf'[rob[i].new[r]]] \in Eval(rob[i].op, SrcVals(rob[i]))
  BY <1>6, WriteStable DEF Execute, Ready
<1>9. ResultsHeld'
  <2> SUFFICES ASSUME NEW j \in DOMAIN rob,
                      \/ rob'[j].st = "executed" /\ WriteAt[rob[j].op] = "execute"
                      \/ rob'[j].st = "complete" /\ WriteAt[rob[j].op] # "retire"
               PROVE  [r \in Dst[rob[j].op] |-> prf'[rob[j].new[r]]]
                        \in Eval(rob[j].op, [r \in Src[rob[j].op] |-> prf'[rob[j].src[r]]])
    BY <1>4 DEF ResultsHeld, SrcVals
  <2>1. CASE j # i
    BY <1>4, <1>8, <2>1, ResultsStable, SMTT(40)
  <2>2. CASE j = i
    <3>1. [r \in Src[rob[i].op] |-> prf'[rob[i].src[r]]] = SrcVals(rob[i])
      BY <1>2, <1>8 DEF SrcVals
    <3> QED
      BY <1>4, <1>8, <2>2, <3>1
  <2> QED
    BY <2>1, <2>2
<1>10. ArchPrecise'
  BY <1>2, <1>8, ArchStable
<1> QED
  BY <1>1, <1>3, <1>7, <1>9, <1>10 DEF IInv

(* complete() preserves the inductive invariant.                           *)
LEMMA CompleteIInv ==
    ASSUME IInv, NEW i \in DOMAIN rob, Complete(i)
    PROVE  IInv'
<1>1. TypeOK'
  BY ProgressType DEF IInv
<1>2. /\ rob' = [rob EXCEPT ![i].st = "complete"] /\ "complete" \in States
      /\ UNCHANGED <<rat, rat_retire, freevec, freevec_retire, arch>>
      /\ rob[i].st = "executed"
      /\ valid' = IF WriteAt[rob[i].op] = "retire"
                  THEN valid ELSE valid \cup RangeOf(rob[i].new)
  BY DEF Complete, States
<1>3. SequentialDataflow' /\ RatCurrent' /\ Distinct' /\ FreevecExact'
  BY <1>2, ProgressTables
<1>4. /\ DOMAIN rob' = DOMAIN rob
      /\ rob'[i].st = "complete"
      /\ \A j \in DOMAIN rob :
            /\ j # i => rob'[j].st = rob[j].st
            /\ rob'[j].op = rob[j].op
            /\ rob'[j].src = rob[j].src
            /\ rob'[j].new = rob[j].new
  <2>1. rob \in Seq(Entry)
    BY DEF IInv, TypeOK
  <2> QED
    BY <1>2, <2>1, SameShape, Zenon
<1>5. \A j \in DOMAIN rob : rob[j].new \in [Dst[rob[j].op] -> Pregs]
  BY EntryElim DEF IInv, TypeOK
<1>6. RangeOf(rob[i].src) \subseteq valid /\ RangeOf(rob[i].new) \cap valid = {}
  BY <1>2 DEF IInv, ValidExact
<1>7. ValidExact'
  <2>1. \A j \in DOMAIN rob : j # i => RangeOf(rob[j].new) \cap RangeOf(rob[i].new) = {}
    BY <1>5 DEF IInv, Distinct, RangeOf
  <2> SUFFICES
        /\ RangeOf(rat_retire) \subseteq valid'
        /\ \A j \in DOMAIN rob :
            /\ rob'[j].st # "allocated" => RangeOf(rob[j].src) \subseteq valid'
            /\ (rob'[j].st \in {"allocated", "executed"} \/ WriteAt[rob[j].op] = "retire")
                    => RangeOf(rob[j].new) \cap valid' = {}
            /\ (rob'[j].st = "complete" /\ WriteAt[rob[j].op] # "retire")
                    => RangeOf(rob[j].new) \subseteq valid'
    BY <1>2, <1>4 DEF ValidExact, RangeOf
  <2>2. RangeOf(rat_retire) \subseteq valid' /\ valid \subseteq valid'
    BY <1>2 DEF IInv, ValidExact
  <2>3. ASSUME NEW j \in DOMAIN rob, rob'[j].st # "allocated"
        PROVE  RangeOf(rob[j].src) \subseteq valid'
    BY <1>2, <1>4, <2>2, <2>3 DEF IInv, ValidExact
  <2>4. ASSUME NEW j \in DOMAIN rob,
               rob'[j].st \in {"allocated", "executed"} \/ WriteAt[rob[j].op] = "retire"
        PROVE  RangeOf(rob[j].new) \cap valid' = {}
    BY <1>2, <1>4, <1>6, <2>1, <2>4 DEF IInv, ValidExact
  <2>5. ASSUME NEW j \in DOMAIN rob,
               rob'[j].st = "complete", WriteAt[rob[j].op] # "retire"
        PROVE  RangeOf(rob[j].new) \subseteq valid'
    BY <1>2, <1>4, <2>2, <2>5 DEF IInv, ValidExact
  <2> QED
    BY <2>2, <2>3, <2>4, <2>5
<1>8. /\ \A p \in valid : prf'[p] = prf[p]
      /\ \A j \in DOMAIN rob : j # i =>
            \A r \in Dst[rob[j].op] : prf'[rob[j].new[r]] = prf[rob[j].new[r]]
      /\ WriteAt[rob[i].op] = "complete" =>
            [r \in Dst[rob[i].op] |-> prf'[rob[i].new[r]]] \in Eval(rob[i].op, SrcVals(rob[i]))
      /\ WriteAt[rob[i].op] # "complete" => prf' = prf
  BY <1>6, WriteStable DEF Complete
<1>9. ResultsHeld'
  <2> SUFFICES ASSUME NEW j \in DOMAIN rob,
                      \/ rob'[j].st = "executed" /\ WriteAt[rob[j].op] = "execute"
                      \/ rob'[j].st = "complete" /\ WriteAt[rob[j].op] # "retire"
               PROVE  [r \in Dst[rob[j].op] |-> prf'[rob[j].new[r]]]
                        \in Eval(rob[j].op, [r \in Src[rob[j].op] |-> prf'[rob[j].src[r]]])
    BY <1>4 DEF ResultsHeld, SrcVals
  <2>1. CASE j # i
    BY <1>4, <1>8, <2>1, ResultsStable
  <2>2. CASE j = i /\ WriteAt[rob[i].op] = "complete"
    <3>1. rob[i].src \in [Src[rob[i].op] -> Pregs]
      BY EntryElim DEF IInv, TypeOK
    <3>2. [r \in Src[rob[i].op] |-> prf'[rob[i].src[r]]] = SrcVals(rob[i])
      BY <1>6, <1>8, <3>1 DEF SrcVals, RangeOf
    <3> QED
      BY <1>8, <2>2, <3>2
  <2>3. CASE j = i /\ WriteAt[rob[i].op] # "complete"
    <3>1. WriteAt[rob[i].op] = "execute"
      <4>1. rob[i].op \in Ops
        BY EntryElim DEF IInv, TypeOK
      <4> QED
        BY <1>4, <2>3, <4>1, SigAssumption
    <3> QED
      BY <1>2, <1>8, <2>3, <3>1, ResultsStable
  <2> QED
    BY <2>1, <2>2, <2>3
<1>10. ArchPrecise'
  BY <1>2, <1>8, ArchStable
<1> QED
  BY <1>1, <1>3, <1>7, <1>9, <1>10 DEF IInv

(* A load fault, found or marked, preserves the inductive invariant.       *)
LEMMA FaultIInv ==
    ASSUME IInv, NEW i \in DOMAIN rob, CompleteFaulted(i) \/ MarkFaulted(i)
    PROVE  IInv'
<1>1. TypeOK'
  BY ProgressType DEF IInv
<1>2. /\ rob' = [rob EXCEPT ![i].st = "faulted"] /\ "faulted" \in States
      /\ UNCHANGED <<rat, rat_retire, freevec, freevec_retire, valid, prf, arch>>
      /\ rob[i].st # "allocated"
      /\ WriteAt[rob[i].op] = "complete"
  BY DEF CompleteFaulted, MarkFaulted, States
<1>3. SequentialDataflow' /\ RatCurrent' /\ Distinct' /\ FreevecExact'
  BY <1>2, ProgressTables
<1>4. /\ DOMAIN rob' = DOMAIN rob
      /\ rob'[i].st = "faulted"
      /\ \A j \in DOMAIN rob :
            /\ j # i => rob'[j].st = rob[j].st
            /\ rob'[j].op = rob[j].op
            /\ rob'[j].src = rob[j].src
            /\ rob'[j].new = rob[j].new
  <2>1. rob \in Seq(Entry)
    BY DEF IInv, TypeOK
  <2> QED
    BY <1>2, <2>1, SameShape, Zenon
<1>5. ValidExact'
  BY <1>2, <1>4 DEF IInv, ValidExact, RangeOf
<1>6. ResultsHeld'
  <2> SUFFICES ASSUME NEW j \in DOMAIN rob,
                      \/ rob'[j].st = "executed" /\ WriteAt[rob[j].op] = "execute"
                      \/ rob'[j].st = "complete" /\ WriteAt[rob[j].op] # "retire"
               PROVE  [r \in Dst[rob[j].op] |-> prf[rob[j].new[r]]]
                        \in Eval(rob[j].op, [r \in Src[rob[j].op] |-> prf[rob[j].src[r]]])
    BY <1>2, <1>4 DEF ResultsHeld, SrcVals
  <2> QED
    BY <1>4, ResultsStable
<1>7. ArchPrecise'
  BY <1>2, ArchStable
<1> QED
  BY <1>1, <1>3, <1>5, <1>6, <1>7 DEF IInv

-----------------------------------------------------------------------------
(* Retirement                                                              *)

(* The invariant after the oldest operation retires with register file pf, *)
(* whichever of Retire and RetireMonitor it was.                           *)
LEMMA RetireCommon ==
    ASSUME IInv, TypeOK', rob # <<>>, NEW pf,
           RetireTables(rob[1], pf),
           \A p \in valid : pf[p] = prf[p],
           \A j \in DOMAIN rob : j # 1 =>
               \A r \in Dst[rob[j].op] : pf[rob[j].new[r]] = prf[rob[j].new[r]],
           (valid \ RangeOf(rob[1].prev)) \cup RangeOf(rob[1].new) \subseteq valid',
           valid' \subseteq valid \cup RangeOf(rob[1].new)
    PROVE  IInv'
<1> DEFINE n == Len(rob)
           h == rob[1]
<1>1. /\ 1 \in DOMAIN rob /\ h \in Entry
      /\ \A r \in Dst[h.op] : h.prev[r] = rat_retire[r]
  BY HeadLemma
<1>2. /\ prf' = pf
      /\ freevec' = freevec \ RangeOf(h.prev)
      /\ freevec_retire' = (freevec_retire \cup RangeOf(h.new)) \ RangeOf(h.prev)
      /\ rat_retire' = [r \in Regs |-> IF r \in Dst[h.op] THEN h.new[r] ELSE rat_retire[r]]
      /\ arch' = [r \in Regs |-> IF r \in Dst[h.op] THEN pf[h.new[r]] ELSE arch[r]]
      /\ rob' = Tail(rob)
      /\ rat' = rat
  BY DEF RetireTables, Released, Committed
<1>3. /\ rob \in Seq(Entry) /\ rob' \in Seq(Entry) /\ n \in Nat /\ n >= 1
      /\ DOMAIN rob = 1 .. n /\ DOMAIN rob' = 1 .. n - 1 /\ Len(rob') = n - 1
      /\ \A k \in 1 .. n - 1 : rob'[k] = rob[k + 1] /\ k + 1 \in DOMAIN rob /\ k + 1 # 1
  <2>1. rob \in Seq(Entry) /\ rob' \in Seq(Entry)
    BY DEF IInv, TypeOK
  <2> QED
    BY <1>2, <2>1
<1>4. /\ h.op \in Ops /\ Dst[h.op] \subseteq Regs
      /\ h.new \in [Dst[h.op] -> Pregs] /\ h.prev \in [Dst[h.op] -> Pregs]
  BY <1>1, EntryElim, SigAssumption
<1> HIDE DEF h
<1>5. \A r \in Regs : rat_retire'[r] = IF r \in Dst[h.op] THEN h.new[r] ELSE rat_retire[r]
  BY <1>2
<1>6. Flow(rob, rat_retire) /\ Current(rob, rat_retire, rat)
  BY FlowDef DEF IInv
<1>7. ASSUME NEW r \in Regs, NEW j \in 2 .. n + 1, NEW p, Maps(rob, rat_retire, r, j, p)
      PROVE  Maps(rob', rat_retire', r, j - 1, p)
  <2>1. rat_retire'[r] = IF r \in Dst[rob[1].op] THEN rob[1].new[r] ELSE rat_retire[r]
    BY <1>5 DEF h
  <2> QED
    BY <1>2, <1>3, <1>7, <2>1, MapsTail
<1>8. Flow(rob', rat_retire')
  <2> SUFFICES ASSUME NEW j \in 1 .. n - 1
               PROVE  /\ \A r \in Src[rob'[j].op] : Maps(rob', rat_retire', r, j, rob'[j].src[r])
                      /\ \A r \in Dst[rob'[j].op] : Maps(rob', rat_retire', r, j, rob'[j].prev[r])
    BY <1>3, Zenon DEF Flow
  <2>1. /\ rob'[j] = rob[j + 1] /\ j + 1 \in DOMAIN rob
        /\ j + 1 \in 2 .. n + 1 /\ (j + 1) - 1 = j
    BY <1>3
  <2>2. Src[rob[j + 1].op] \subseteq Regs /\ Dst[rob[j + 1].op] \subseteq Regs
    BY <1>3, <2>1, EntryElim, SigAssumption
  <2>3. /\ \A r \in Src[rob[j + 1].op] : Maps(rob, rat_retire, r, j + 1, rob[j + 1].src[r])
        /\ \A r \in Dst[rob[j + 1].op] : Maps(rob, rat_retire, r, j + 1, rob[j + 1].prev[r])
    BY <1>6, <2>1, Zenon DEF Flow
  <2>4. ASSUME NEW r \in Regs, NEW p, Maps(rob, rat_retire, r, j + 1, p)
        PROVE  Maps(rob', rat_retire', r, j, p)
    BY <1>7, <2>1, <2>4
  <2> QED
    BY <2>1, <2>2, <2>3, <2>4, Zenon
<1>9. Current(rob', rat_retire', rat')
  <2> SUFFICES ASSUME NEW r \in Regs
               PROVE  Maps(rob', rat_retire', r, n, rat[r])
    <3>1. Len(rob') + 1 = n
      BY <1>3
    <3> QED
      BY <1>2, <3>1, Zenon DEF Current
  <2>1. n + 1 \in 2 .. n + 1 /\ (n + 1) - 1 = n
    BY <1>3
  <2>2. Maps(rob, rat_retire, r, n + 1, rat[r])
    BY <1>6, Zenon DEF Current
  <2>3. Maps(rob', rat_retire', r, (n + 1) - 1, rat[r])
    BY <1>7, <2>1, <2>2, Zenon
  <2> QED
    BY <2>1, <2>3
<1>10. /\ \A i, j \in DOMAIN rob : \A r \in Dst[rob[i].op], s \in Dst[rob[j].op] :
            rob[i].new[r] = rob[j].new[s] => i = j /\ r = s
       /\ \A i \in DOMAIN rob : \A r \in Dst[rob[i].op], s \in Regs :
            rob[i].new[r] # rat_retire[s]
       /\ \A r, s \in Regs : rat_retire[r] = rat_retire[s] => r = s
  BY DEF IInv, Distinct
<1>11. Distinct'
  <2>1. ASSUME NEW i \in 1 .. n - 1, NEW j \in 1 .. n - 1,
               NEW r \in Dst[rob'[i].op], NEW s \in Dst[rob'[j].op],
               rob'[i].new[r] = rob'[j].new[s]
        PROVE  i = j /\ r = s
    <3>1. /\ rob'[i] = rob[i + 1] /\ i + 1 \in DOMAIN rob
          /\ rob'[j] = rob[j + 1] /\ j + 1 \in DOMAIN rob
      BY <1>3
    <3>2. i + 1 = j + 1 /\ r = s
      BY <1>10, <2>1, <3>1
    <3> QED
      BY <3>2
  <2>2. ASSUME NEW i \in 1 .. n - 1, NEW r \in Dst[rob'[i].op], NEW s \in Regs
        PROVE  rob'[i].new[r] # rat_retire'[s]
    <3>1. rob'[i] = rob[i + 1] /\ i + 1 \in DOMAIN rob /\ i + 1 # 1
      BY <1>3
    <3> QED
      BY <1>1, <1>5, <1>10, <3>1 DEF h
  <2>3. \A r, s \in Regs : rat_retire'[r] = rat_retire'[s] => r = s
    BY <1>1, <1>5, <1>10 DEF h
  <2> QED
    BY <1>3, <2>1, <2>2, <2>3 DEF Distinct
<1>12. InFlight = RangeOf(h.new) \cup InFlight'
  <2>1. InFlight' = UNION {RangeOf(rob'[i].new) : i \in 1 .. n - 1}
    BY <1>3 DEF InFlight, RangeOf
  <2>2. ASSUME NEW p PROVE p \in InFlight <=> p \in RangeOf(h.new) \cup InFlight'
    <3>1. p \in InFlight <=> \E i \in 1 .. n : p \in RangeOf(rob[i].new)
      BY <1>3 DEF InFlight
    <3>2. p \in InFlight' <=> \E i \in 1 .. n - 1 : p \in RangeOf(rob'[i].new)
      BY <2>1
    <3>3. ASSUME NEW i \in 1 .. n, p \in RangeOf(rob[i].new)
          PROVE  p \in RangeOf(h.new) \cup InFlight'
      <4>1. CASE i = 1
        BY <3>3, <4>1 DEF h
      <4>2. CASE i # 1
        <5>1. i - 1 \in 1 .. n - 1 /\ rob'[i - 1] = rob[i]
          BY <1>3, <4>2
        <5> QED
          BY <3>2, <3>3, <5>1
      <4> QED
        BY <4>1, <4>2
    <3>4. ASSUME NEW i \in 1 .. n - 1, p \in RangeOf(rob'[i].new)
          PROVE  p \in InFlight
      BY <1>3, <3>1, <3>4
    <3>5. p \in RangeOf(h.new) => p \in InFlight
      BY <1>1, <1>3, <3>1 DEF h
    <3> QED
      BY <3>1, <3>2, <3>3, <3>4, <3>5
  <2> QED
    BY <2>2
<1>13. /\ RangeOf(h.new) \cap RangeOf(rat_retire) = {}
       /\ InFlight' \cap RangeOf(rat_retire) = {}
       /\ RangeOf(h.prev) \subseteq RangeOf(rat_retire)
       /\ RangeOf(rat_retire') = (RangeOf(rat_retire) \ RangeOf(h.prev)) \cup RangeOf(h.new)
  <2>0. rat_retire \in [Regs -> Pregs] /\ rat_retire' \in [Regs -> Pregs]
    BY DEF IInv, TypeOK
  <2>1. InFlight \cap RangeOf(rat_retire) = {}
    <3>1. \A i \in DOMAIN rob : rob[i].new \in [Dst[rob[i].op] -> Pregs]
      BY <1>3, EntryElim
    <3> QED
      BY <1>10, <2>0, <3>1 DEF InFlight, RangeOf
  <2>2. RangeOf(h.prev) \subseteq RangeOf(rat_retire)
    BY <1>1, <1>4, <2>0 DEF RangeOf
  <2>3. \A r \in Regs : rat_retire[r] \in RangeOf(h.prev) <=> r \in Dst[h.op]
    BY <1>1, <1>4, <1>10 DEF RangeOf
  <2>4. RangeOf(rat_retire') = (RangeOf(rat_retire) \ RangeOf(h.prev)) \cup RangeOf(h.new)
    <3>1. RangeOf(rat_retire') = {rat_retire'[r] : r \in Regs}
      BY <2>0 DEF RangeOf
    <3>2. RangeOf(rat_retire) = {rat_retire[r] : r \in Regs}
      BY <2>0 DEF RangeOf
    <3>3. RangeOf(h.new) = {h.new[r] : r \in Dst[h.op]}
      BY <1>4 DEF RangeOf
    <3>4. ASSUME NEW p \in RangeOf(rat_retire')
          PROVE  p \in (RangeOf(rat_retire) \ RangeOf(h.prev)) \cup RangeOf(h.new)
      BY <1>5, <2>3, <3>1, <3>2, <3>3
    <3>5. ASSUME NEW p \in RangeOf(rat_retire), p \notin RangeOf(h.prev)
          PROVE  p \in RangeOf(rat_retire')
      BY <1>5, <2>3, <3>1, <3>2, <3>5
    <3>6. ASSUME NEW p \in RangeOf(h.new)
          PROVE  p \in RangeOf(rat_retire')
      BY <1>4, <1>5, <3>1, <3>3
    <3> QED
      BY <3>4, <3>5, <3>6
  <2> QED
    BY <1>12, <2>1, <2>2, <2>4
<1>14. FreevecExact'
  <2>1. freevec = RangeOf(rat_retire) \cup InFlight /\ freevec_retire = RangeOf(rat_retire)
    BY DEF IInv, FreevecExact
  <2>2. freevec' = RangeOf(rat_retire') \cup InFlight'
    BY <1>2, <1>12, <1>13, <2>1
  <2>3. freevec_retire' = RangeOf(rat_retire')
    BY <1>2, <1>13, <2>1
  <2>4. RangeOf(rat_retire)' = RangeOf(rat_retire')
    BY DEF RangeOf
  <2> QED
    BY <2>2, <2>3, <2>4 DEF FreevecExact
<1>15. ValidExact'
  <2> DEFINE Ok(j) ==
        /\ rob'[j].st # "allocated" => RangeOf(rob'[j].src) \subseteq valid'
        /\ (rob'[j].st \in {"allocated", "executed"} \/ WriteAt[rob'[j].op] = "retire")
                => RangeOf(rob'[j].new) \cap valid' = {}
        /\ (rob'[j].st = "complete" /\ WriteAt[rob'[j].op] # "retire")
                => RangeOf(rob'[j].new) \subseteq valid'
  <2>1. RangeOf(rat_retire') \subseteq valid'
    BY <1>13 DEF h, IInv, ValidExact
  <2>2. ASSUME NEW j \in 1 .. n - 1 PROVE Ok(j)
    <3>1. rob'[j] = rob[j + 1] /\ j + 1 \in DOMAIN rob /\ j + 1 # 1
      BY <1>3
    <3>2. /\ rob[j + 1].src \in [Src[rob[j + 1].op] -> Pregs]
          /\ rob[j + 1].new \in [Dst[rob[j + 1].op] -> Pregs]
          /\ Src[rob[j + 1].op] \subseteq Regs
      BY <1>3, <3>1, EntryElim, SigAssumption
    <3>3. RangeOf(rob[j + 1].new) \cap RangeOf(h.new) = {}
      BY <1>1, <1>4, <1>10, <3>1, <3>2 DEF RangeOf, h
    <3>4. RangeOf(rob[j + 1].new) \cap RangeOf(h.prev) = {}
      <4>1. RangeOf(rob[j + 1].new) \subseteq InFlight'
        BY <1>3, <3>1 DEF InFlight
      <4> QED
        BY <1>13, <4>1
    <3>5. RangeOf(rob[j + 1].src) \cap RangeOf(h.prev) = {}
      <4>1. ASSUME NEW r \in Src[rob[j + 1].op]
            PROVE  rob[j + 1].src[r] \in freevec'
        <5>1. Maps(rob', rat_retire', r, j, rob[j + 1].src[r])
          BY <1>3, <1>8, <3>1, Zenon DEF Flow
        <5>2. j \in 1 .. Len(rob') + 1 /\ r \in Regs /\ rat_retire' \in [Regs -> Pregs]
          BY <1>3, <3>2 DEF TypeOK
        <5>3. rob[j + 1].src[r] \in RangeOf(rat_retire') \cup UNION {RangeOf(rob'[i].new) : i \in DOMAIN rob'}
          BY <1>3, <5>1, <5>2, MapsOwner
        <5>4. freevec' = RangeOf(rat_retire') \cup UNION {RangeOf(rob'[i].new) : i \in DOMAIN rob'}
          BY <1>14 DEF FreevecExact, InFlight, RangeOf
        <5> QED
          BY <5>3, <5>4
      <4> QED
        BY <1>2, <3>2, <4>1 DEF RangeOf
    <3>6. /\ rob[j + 1].st # "allocated" => RangeOf(rob[j + 1].src) \subseteq valid
          /\ (rob[j + 1].st \in {"allocated", "executed"} \/ WriteAt[rob[j + 1].op] = "retire")
                => RangeOf(rob[j + 1].new) \cap valid = {}
          /\ (rob[j + 1].st = "complete" /\ WriteAt[rob[j + 1].op] # "retire")
                => RangeOf(rob[j + 1].new) \subseteq valid
      BY <3>1 DEF IInv, ValidExact
    <3> QED
      BY <3>1, <3>3, <3>4, <3>5, <3>6 DEF h
  <2> HIDE DEF Ok
  <2>3. \A j \in DOMAIN rob' : Ok(j)
    BY <1>3, <2>2
  <2> QED
    BY <2>1, <2>3 DEF ValidExact, RangeOf, Ok
<1>16. ResultsHeld'
  <2> SUFFICES ASSUME NEW j \in 1 .. n - 1,
                      \/ rob'[j].st = "executed" /\ WriteAt[rob'[j].op] = "execute"
                      \/ rob'[j].st = "complete" /\ WriteAt[rob'[j].op] # "retire"
               PROVE  [r \in Dst[rob'[j].op] |-> pf[rob'[j].new[r]]]
                        \in Eval(rob'[j].op, [r \in Src[rob'[j].op] |-> pf[rob'[j].src[r]]])
    BY <1>2, <1>3 DEF ResultsHeld, SrcVals
  <2>1. rob'[j] = rob[j + 1] /\ j + 1 \in DOMAIN rob /\ j + 1 # 1
    BY <1>3
  <2> QED
    BY <2>1, ResultsStable
<1>17. ArchPrecise'
  <2>1. \A r \in Regs : rat_retire[r] \in valid
    BY DEF IInv, TypeOK, ValidExact, RangeOf
  <2> QED
    BY <1>2, <2>1 DEF IInv, ArchPrecise
<1> QED
  BY <1>8, <1>9, <1>11, <1>14, <1>15, <1>16, <1>17, FlowDef DEF IInv

(* retire() preserves the inductive invariant.                             *)
LEMMA RetireIInv ==
    ASSUME IInv, Retire
    PROVE  IInv'
<1>1. TypeOK'
  BY RetireType DEF IInv
<1>2. /\ rob # <<>> /\ 1 \in DOMAIN rob
      /\ RetireTables(rob[1], prf)
      /\ rob[1].st = "complete" /\ WriteAt[rob[1].op] # "retire"
      /\ valid' = valid \ RangeOf(rob[1].prev)
  BY HeadLemma DEF Retire
<1>3. RangeOf(rob[1].new) \subseteq valid
  BY <1>2 DEF IInv, ValidExact
<1>4. RangeOf(rob[1].new) \cap RangeOf(rob[1].prev) = {}
  <2>1. /\ rob[1].new \in [Dst[rob[1].op] -> Pregs]
        /\ rob[1].prev \in [Dst[rob[1].op] -> Pregs]
        /\ Dst[rob[1].op] \subseteq Regs
    BY <1>2, HeadLemma, EntryElim, SigAssumption
  <2> QED
    BY <1>2, <2>1, HeadLemma DEF IInv, Distinct, RangeOf
<1> QED
  BY <1>1, <1>2, <1>3, <1>4, RetireCommon

(* monitor_op::retire() preserves the inductive invariant.                 *)
LEMMA RetireMonitorIInv ==
    ASSUME IInv, RetireMonitor
    PROVE  IInv'
<1>1. TypeOK'
  BY RetireType DEF IInv
<1>2. /\ rob # <<>> /\ 1 \in DOMAIN rob
      /\ WriteAt[rob[1].op] = "retire"
      /\ valid' = valid \cup RangeOf(rob[1].new)
  BY HeadLemma DEF RetireMonitor
<1>3. PICK res \in Eval(rob[1].op, SrcVals(rob[1])) :
          RetireTables(rob[1], Write(rob[1], res))
  BY HeadLemma DEF RetireMonitor
<1>4. RangeOf(rob[1].new) \cap valid = {}
  BY <1>2 DEF IInv, ValidExact
<1>5. /\ \A p \in valid : Write(rob[1], res)[p] = prf[p]
      /\ \A j \in DOMAIN rob : j # 1 =>
            \A r \in Dst[rob[j].op] : Write(rob[1], res)[rob[j].new[r]] = prf[rob[j].new[r]]
  BY <1>2, <1>4, WriteStable
<1> QED
  BY <1>1, <1>2, <1>3, <1>5, RetireCommon

-----------------------------------------------------------------------------
(* Recovery                                                                *)

(* The recovery preserves the inductive invariant.                         *)
LEMMA NukeIInv ==
    ASSUME IInv, Nuke
    PROVE  IInv'
<1>1. TypeOK'
  BY NukeType DEF IInv
<1>2. /\ rob' = <<>> /\ DOMAIN rob' = {} /\ Len(rob') = 0
      /\ UNCHANGED <<rat_retire, freevec_retire, prf, arch>>
  BY DEF Nuke
<1>3. SequentialDataflow' /\ ResultsHeld'
  BY <1>2 DEF SequentialDataflow, ResultsHeld
<1>4. Current(rob', rat_retire', rat')
  <2>1. 1 .. (Len(rob') + 1) - 1 = {}
    BY <1>2
  <2> QED
    BY <1>2, <2>1 DEF Current, Maps, Nuke
<1>5. Distinct'
  BY <1>2 DEF IInv, Distinct
<1>6. InFlight' = {} /\ RangeOf(rat_retire') = RangeOf(rat_retire)
  BY <1>2 DEF InFlight
<1>7. FreevecExact'
  BY <1>2, <1>6 DEF IInv, FreevecExact, Nuke, RangeOf
<1>8. ValidExact'
  BY <1>2 DEF ValidExact, Nuke, RangeOf
<1>9. ArchPrecise'
  BY <1>2 DEF IInv, ArchPrecise
<1> QED
  BY <1>1, <1>3, <1>4, <1>5, <1>7, <1>8, <1>9, FlowDef DEF IInv

-----------------------------------------------------------------------------
(* Theorems                                                                *)

(* Every step preserves the inductive invariant.                           *)
LEMMA NextIInv == IInv /\ [Next]_vars => IInv'
<1> SUFFICES ASSUME IInv, [Next]_vars PROVE IInv'
  OBVIOUS
<1>1. ASSUME NEW op \in Ops, Allocate(op) PROVE IInv'
  BY <1>1, AllocateIInv
<1>2. ASSUME NEW i \in DOMAIN rob, Execute(i) PROVE IInv'
  BY <1>2, ExecuteIInv
<1>3. ASSUME NEW i \in DOMAIN rob, Complete(i) PROVE IInv'
  BY <1>3, CompleteIInv
<1>4. ASSUME NEW i \in DOMAIN rob, CompleteFaulted(i) \/ MarkFaulted(i) PROVE IInv'
  BY <1>4, FaultIInv
<1>5. CASE Retire
  BY <1>5, RetireIInv
<1>6. CASE RetireMonitor
  BY <1>6, RetireMonitorIInv
<1>7. CASE Nuke
  BY <1>7, NukeIInv
<1>8. CASE UNCHANGED vars
  <2>1. UNCHANGED <<rat, rat_retire, freevec, freevec_retire, valid, prf, arch, rob>>
    BY <1>8 DEF vars
  <2>2. SequentialDataflow' /\ RatCurrent'
    BY <2>1, FlowDef DEF IInv
  <2> QED
    BY <2>1, <2>2 DEF IInv, TypeOK, Distinct, FreevecExact, InFlight, RangeOf,
                      ValidExact, ResultsHeld, SrcVals, ArchPrecise
<1> QED
  BY <1>1, <1>2, <1>3, <1>4, <1>5, <1>6, <1>7, <1>8 DEF Next

(* The inductive invariant holds in every reachable state.                 *)
THEOREM Invariance == Spec => []IInv
  BY InitIInv, NextIInv, PTL DEF Spec

(* Renaming preserves program order for every number of registers: sources *)
(* and previous destinations always come from the youngest older writer.   *)
THEOREM DataflowCorrect == Spec => []SequentialDataflow
<1>1. IInv => SequentialDataflow
  BY DEF IInv
<1> QED
  BY <1>1, Invariance, PTL

(* No physical register is ever leaked or owned twice, across any number   *)
(* of allocations, retirements and nukes.                                  *)
THEOREM NoRegisterLeak == Spec => []FreevecExact
<1>1. IInv => FreevecExact
  BY DEF IInv
<1> QED
  BY <1>1, Invariance, PTL

(* A register an in-flight operation still reads is never free.            *)
THEOREM SourcesNeverFreed == Spec => []SourcesHeld
<1>1. IInv => SourcesHeld
  BY HeldLemma
<1> QED
  BY <1>1, Invariance, PTL

(* The registers a nuke resumes from are the architectural ones.           *)
THEOREM PreciseState == Spec => []ArchPrecise
<1>1. IInv => ArchPrecise
  BY DEF IInv
<1> QED
  BY <1>1, Invariance, PTL

(* The popcount assertions of the recovery code can never fail.            *)
THEOREM PopcountHolds == Spec => []RetiredPopcount
<1>1. IInv => RetiredPopcount
  <2> SUFFICES ASSUME IInv PROVE RetiredPopcount
    OBVIOUS
  <2>1. /\ rat_retire \in [Regs -> Pregs]
        /\ freevec_retire = {rat_retire[r] : r \in Regs}
        /\ \A r, s \in Regs : rat_retire[r] = rat_retire[s] => r = s
    BY DEF IInv, TypeOK, FreevecExact, Distinct, RangeOf
  <2>2. rat_retire \in Bijection(Regs, freevec_retire)
    BY <2>1 DEF Bijection, Injection, Surjection, IsInjective
  <2>3. ExistsBijection(Regs, freevec_retire)
    BY <2>2 DEF ExistsBijection
  <2>4. Cardinality(freevec_retire) = Cardinality(Regs)
    BY <2>3, FiniteAssumption, FS_Bijection
  <2> QED
    BY <2>4 DEF RetiredPopcount
<1> QED
  BY <1>1, Invariance, PTL

-----------------------------------------------------------------------------
(* Refinement of in-order execution                                        *)

(* Retiring the oldest operation is one in-order step of that operation.   *)
LEMMA RetireIsStep ==
    ASSUME IInv, rob # <<>>, NEW pf, RetireTables(rob[1], pf),
           [r \in Dst[rob[1].op] |-> pf[rob[1].new[r]]] \in Eval(rob[1].op, SrcVals(rob[1]))
    PROVE  \E op \in Ops : Order!Step(op)
<1> DEFINE h == rob[1]
           res == [r \in Dst[h.op] |-> pf[h.new[r]]]
<1>1. h.op \in Ops /\ Src[h.op] \subseteq Regs
  BY HeadLemma, EntryElim, SigAssumption
<1>2. SrcVals(h) = [r \in Src[h.op] |-> arch[r]]
  BY <1>1, HeadLemma DEF IInv, ArchPrecise, SrcVals
<1>3. arch' = [r \in Regs |-> IF r \in Dst[h.op] THEN res[r] ELSE arch[r]]
  BY DEF RetireTables, Released, Committed
<1>4. res \in Eval(h.op, [r \in Src[h.op] |-> arch[r]])
  BY <1>2
<1> HIDE DEF h, res
<1>5. Order!Step(h.op)
  BY <1>3, <1>4 DEF Order!Step
<1> QED
  BY <1>1, <1>5

(* Every step of the renamed core is an in-order step or a stutter.        *)
LEMMA StepRefines == IInv /\ [Next]_vars => [Order!Next]_arch
<1> SUFFICES ASSUME IInv, [Next]_vars PROVE Order!Next \/ UNCHANGED arch
  OBVIOUS
<1>1. CASE Retire
  <2>1. /\ rob # <<>> /\ 1 \in DOMAIN rob
        /\ RetireTables(rob[1], prf)
        /\ rob[1].st = "complete" /\ WriteAt[rob[1].op] # "retire"
    BY <1>1, HeadLemma DEF Retire
  <2>2. [r \in Dst[rob[1].op] |-> prf[rob[1].new[r]]] \in Eval(rob[1].op, SrcVals(rob[1]))
    BY <2>1 DEF IInv, ResultsHeld
  <2> QED
    BY <2>1, <2>2, RetireIsStep DEF Order!Next
<1>2. CASE RetireMonitor
  <2>1. rob # <<>> /\ 1 \in DOMAIN rob /\ WriteAt[rob[1].op] = "retire"
    BY <1>2, HeadLemma DEF RetireMonitor
  <2>2. PICK res \in Eval(rob[1].op, SrcVals(rob[1])) :
            RetireTables(rob[1], Write(rob[1], res))
    BY <1>2, HeadLemma DEF RetireMonitor
  <2>3. RangeOf(rob[1].new) \cap valid = {}
    BY <2>1 DEF IInv, ValidExact
  <2>4. [r \in Dst[rob[1].op] |-> Write(rob[1], res)[rob[1].new[r]]] = res
    BY <2>1, <2>3, WriteStable
  <2> QED
    BY <2>1, <2>2, <2>4, RetireIsStep DEF Order!Next
<1>3. CASE ~(Retire \/ RetireMonitor)
  BY <1>3 DEF Next, vars, Allocate, Execute, Complete, CompleteFaulted, MarkFaulted, Nuke
<1> QED
  BY <1>1, <1>2, <1>3

(* Out-of-order execution over renamed registers, with loads that fault,   *)
(* monitor calls and nukes at any instant, implements in-order execution:  *)
(* the architectural registers only ever change by one whole operation     *)
(* applied to the registers the previous retirement left.                  *)
THEOREM RefinesInOrder == Spec => InOrderSpec
<1>1. Init => Order!Init
  BY InitMapAssumption DEF Init, Order!Init
<1> QED
  BY <1>1, Invariance, StepRefines, PTL DEF Spec, InOrderSpec, Order!Spec
=============================================================================
