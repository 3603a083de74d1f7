---------------------------- MODULE OoOData_proofs ----------------------------
(***************************************************************************)
(* Proofs about what the out-of-order core computes: for every program,    *)
(* size, bandwidth and latency, a completed load stays right while older   *)
(* stores retire, what retires is what the program executes, the renaming  *)
(* is RegRename's, and each retirement does to registers and memory what   *)
(* the program's next instruction does.                                    *)
(***************************************************************************)
EXTENDS OoOCore_proofs

-----------------------------------------------------------------------------
(* Host calls retire alone                                                 *)

(* A host call is no branch, and raises its exception when it is executed. *)
MonitorsMarked ==
    \A x \in Live : InsnOf(x).k = "monitor" => ~ op[x].slot /\ (op[x].issued => op[x].exc)

(* What retire() has seen of the head: a branch that waits for its delay   *)
(* slot, then the delay slot without an exception.                         *)
HeadSlot ==
    /\ rpc = "excslot" => op[Head(rob)].slot
    /\ rpc = "excuu" => ~ op[Head(rob)].exc

(* Nothing is allocated behind a sync or a host call, until a mispredicted *)
(* branch at the head lets its delay slot in; then nothing but that slot   *)
(* retires.                                                                *)
Blocking(x) == InsnOf(x).k \in {"sync", "monitor"}
Blocks ==
    rpc \notin {"excslot", "excuu", "nuke"} =>
        \A j \in 1 .. Len(rob) : Blocking(rob[j]) => alloc_blocked /\ j = Len(rob)

(* What lets a host call retire alone.                                     *)
BlockInv == MonitorsMarked /\ HeadSlot /\ Blocks

(* The fields that say where the program goes.                             *)
FlowFields == {"pc", "npc", "taken", "slot", "issued", "exc", "target"}

(* A step that changes one operation, in other fields.                     *)
LEMMA FlowOneOp ==
    ASSUME WindowInv, NEW x \in Live, NEW o, op' = [op EXCEPT ![x] = o],
           \A f \in FlowFields : o[f] = op[x][f]
    PROVE  \A y \in Live' : y \in Live /\ Keeps(y, FlowFields)
<1>1. op'[x] = o /\ Live' \subseteq Live
  BY OneOp
<1>2. \A y \in Live : y # x => op'[y] = op[y]
  BY OneOp
<1> QED
  BY <1>1, <1>2 DEF Keeps

(* Only fetch(), decode() and execute() change where it goes.              *)
LEMMA FlowKept ==
    ASSUME WindowInv, MarkInv,
           \/ AllocateOne \/ CompleteOne \/ CacheTick \/ NextCycle \/ RetireStep \/ Nuke \/ RecoverySleep
           \/ QuietRetire \/ ThreadYield \/ Terminated \/ UNCHANGED vars
    PROVE  \A y \in Live' : y \in Live /\ Keeps(y, FlowFields)
<1>1. CASE AllocateOne
  <2>1. PICK x, a, b, c : op' = [op EXCEPT ![x].src = a, ![x].prev = b, ![x].new = c]
                          /\ x = Head(decode_queue)
    BY <1>1 DEF AllocateOne
  <2>2. op' = [op EXCEPT ![x] = [op[x] EXCEPT !.src = a, !.prev = b, !.new = c]]
    BY <2>1
  <2>3. x \in Live /\ DOMAIN op[x] = Fields
    BY <1>1, <2>1, TailElems, QueuesLive, LiveFields DEF WindowInv, Shape, AllocateOne, AllocateMore
  <2> DEFINE o == [op[x] EXCEPT !.src = a, !.prev = b, !.new = c]
  <2>4. \A f \in FlowFields : o[f] = op[x][f]
    BY <2>3 DEF Fields, FlowFields
  <2> HIDE DEF o
  <2> QED
    BY <2>2, <2>3, <2>4, FlowOneOp DEF o
<1>2. CASE CompleteOne
  <2>1. PICK x : op' = [op EXCEPT ![x].done = TRUE] /\ x = rob[Min(Completing)]
    BY <1>2 DEF CompleteOne
  <2>2. op' = [op EXCEPT ![x] = [op[x] EXCEPT !.done = TRUE]]
    BY <2>1
  <2>3. x \in Live /\ DOMAIN op[x] = Fields
    <3>0. Completing \in SUBSET Nat
      BY DEF Completing, WindowInv, Shape
    <3>1. Completing # {}
      BY <1>2 DEF CompleteOne
    <3>2. Min(Completing) \in Completing
      BY <3>0, <3>1, MinIn
    <3>3. x \in Elems(rob)
      BY <2>1, <3>2 DEF Completing, Elems
    <3> QED
      BY <3>3, LoadsLive, LiveFields
  <2> DEFINE o == [op[x] EXCEPT !.done = TRUE]
  <2>4. \A f \in FlowFields : o[f] = op[x][f]
    BY <2>3 DEF Fields, FlowFields
  <2> HIDE DEF o
  <2> QED
    BY <2>2, <2>3, <2>4, FlowOneOp DEF o
<1>3. CASE CacheTick
  <2>1. ASSUME NEW y \in Live PROVE Keeps(y, FlowFields)
    <3>1. y \in Ids /\ DOMAIN op[y] = Fields
      BY LiveFields
    <3>2. op'[y] = (IF y \in inflight /\ op[y].aux = 0
                    THEN [op[y] EXCEPT !.cc = 1, !.aux = -1] ELSE op[y])
      BY <1>3, <3>1 DEF CacheTick, TickDelay
    <3> QED
      BY <3>1, <3>2 DEF Keeps, FlowFields, Fields
  <2>2. Live' \subseteq Live
    <3>1. ASSUME NEW y \in Ids, y \notin Live PROVE op'[y] = Null
      <4>1. y \notin inflight
        BY <3>1, QueuesLive DEF WindowInv, InFlight
      <4> QED
        BY <1>3, <3>1, <4>1 DEF CacheTick, Live
    <3> QED
      BY <3>1 DEF Live
  <2> QED
    BY <2>1, <2>2
<1>4. CASE NextCycle
  <2> DEFINE dec(n) == IF n = -1 THEN -1 ELSE n - 1
  <2>1. ASSUME NEW y \in Live PROVE Keeps(y, FlowFields)
    <3>1. y \in Ids /\ DOMAIN op[y] = Fields
      BY LiveFields
    <3>2. op'[y] = [op[y] EXCEPT !.age = IF @ < 2 THEN @ + 1 ELSE 2, !.cc = dec(@), !.aux = dec(@)]
      BY <1>4, <3>1 DEF NextCycle
    <3> QED
      BY <3>1, <3>2 DEF Keeps, FlowFields, Fields
  <2>2. Live' \subseteq Live
    BY <1>4 DEF NextCycle, Live
  <2> QED
    BY <2>1, <2>2
<1>5. CASE RetireStep
  <2>1. PICK x : x = Head(rob)
    OBVIOUS
  <2>2. rob # <<>> /\ RetireOp(x) /\ x \in Elems(rob) /\ ~ nuke
    BY <1>5, <2>1, RetireHead
  <2>3. PICK replay \in BOOLEAN :
          op' = [y \in Ids |-> IF y = x THEN Null
                               ELSE IF replay /\ y \in load_tbl
                               THEN [op[y] EXCEPT !.lexc = TRUE] ELSE op[y]]
    <3>1. PICK replay \in BOOLEAN : replay = (Violated(x) # {})
      OBVIOUS
    <3>2. op' = [y \in Ids |-> IF y = x THEN Null
                               ELSE IF Violated(x) # {} /\ y \in load_tbl
                               THEN [op[y] EXCEPT !.lexc = TRUE] ELSE op[y]]
      BY <2>2 DEF RetireOp
    <3> QED
      BY <3>1, <3>2
  <2>4. Live' \subseteq Live \ {x}
    BY <2>1, <2>2, RetireNames
  <2>5. ASSUME NEW y \in Live, y # x PROVE Keeps(y, FlowFields)
    <3>1. y \in Ids /\ DOMAIN op[y] = Fields
      BY LiveFields
    <3>2. op'[y] = IF replay /\ y \in load_tbl THEN [op[y] EXCEPT !.lexc = TRUE] ELSE op[y]
      BY <2>3, <2>5, <3>1
    <3> QED
      BY <3>1, <3>2 DEF Keeps, FlowFields, Fields
  <2> QED
    BY <2>4, <2>5
<1>6. CASE Nuke \/ RecoverySleep
  <2>1. \A y \in Ids : op'[y] = op[y] \/ op'[y] = Null
    BY <1>6 DEF Nuke, RecoverySleep, ClearWindow
  <2>2. \A y \in Live' : y \in Live /\ Keeps(y, FlowFields)
    BY <2>1 DEF Live, Keeps
  <2> QED
    BY <2>2
<1>7. CASE QuietRetire \/ ThreadYield \/ Terminated \/ UNCHANGED vars
  <2>1. op' = op
    <3>1. CASE QuietRetire
      BY <3>1 DEF QuietRetire, RetireIdle, RetireException, RetireWaitSlot, ExceptionBegin,
         ExceptionWaitSlot, DelaySlotException, RetireEnd, RetireMoves
    <3>2. CASE ThreadYield \/ Terminated \/ UNCHANGED vars
      BY <3>2 DEF ThreadYield, Terminated, vars
    <3> QED
      BY <1>7, <3>1, <3>2
  <2>2. \A y \in Live' : y \in Live /\ Keeps(y, FlowFields)
    BY <2>1 DEF Live, Keeps
  <2> QED
    BY <2>2
<1> QED
  BY <1>1, <1>2, <1>3, <1>4, <1>5, <1>6, <1>7

(* A step that changes one operation.                                      *)
LEMMA MonitorsOneOp ==
    ASSUME WindowInv, MonitorsMarked, NEW x, NEW o, op' = [op EXCEPT ![x] = o],
           InsnAt(o.pc).k = "monitor" => ~ o.slot /\ (o.issued => o.exc)
    PROVE  MonitorsMarked'
<1>1. ASSUME NEW y \in Live' PROVE InsnOf(y)'.k = "monitor" => ~ op'[y].slot /\ (op'[y].issued => op'[y].exc)
  <2>1. y \in Ids
    BY DEF Live
  <2>2. CASE y = x
    <3>1. op'[y] = o
      <4>1. x \in Ids
        BY <2>1, <2>2
      <4> QED
        BY <4>1, <2>2, OneOp, ZenonT(30)
    <3> QED
      BY <3>1 DEF InsnOf
  <2>3. CASE y # x
    <3>1. y \in Live /\ op'[y] = op[y]
      BY <2>1, <2>3, OneOp
    <3> QED
      BY <3>1 DEF MonitorsMarked, InsnOf
  <2> QED
    BY <2>2, <2>3
<1> QED
  BY <1>1 DEF MonitorsMarked

(* A step that changes other fields.                                       *)
LEMMA MonitorsKept ==
    ASSUME MonitorsMarked, \A y \in Live' : y \in Live /\ Keeps(y, FlowFields)
    PROVE  MonitorsMarked'
BY DEF MonitorsMarked, Keeps, FlowFields, InsnOf

(* execute() of a host call raises its exception.                          *)
LEMMA ExecutedMonitor ==
    ASSUME NEW x, NEW v, NEW lat, DOMAIN op[x] = Fields, InsnOf(x).k = "monitor",
           NEW e, e = Executed(x, v, lat)
    PROVE  e.exc /\ e.slot = op[x].slot
<1> DEFINE i == InsnOf(x)
           o == [op[x] EXCEPT !.issued = TRUE, !.cc = SigOf(x).lat]
<1>1. SigOf(x).cls \notin {"load", "store"} /\ i.k \notin Jumps \cup Branches
  <2>1. SigOf(x).cls = "load" <=> i.k \in LoadOps \cup {"lwc1", "ldc1"}
    BY Decodes, Decode DEF SigOf, InsnOf
  <2>2. SigOf(x).cls = "store" <=> i.k \in StoreOps \cup {"swc1", "sdc1"}
    BY Decodes, Decode DEF SigOf, InsnOf
  <2> QED
    BY <2>1, <2>2 DEF LoadOps, StoreOps, Jumps, Branches, Likely, NonLikely
<1>2. PICK target : e = [o EXCEPT !.v = v, !.target = target, !.exc = TRUE]
  BY <1>1 DEF Executed
<1> QED
  BY <1>2 DEF Fields

(* Every step keeps the marks of the host calls.                           *)
LEMMA NextMonitors ==
    ASSUME WindowInv, MarkInv, MonitorsMarked, [Next]_vars
    PROVE  MonitorsMarked'
<1>1. CASE FetchSlot \/ FetchInsn
  <2>1. PICK pc, npc, taken : FetchMore /\ PushFetch(pc, npc, taken)
    BY <1>1 DEF FetchSlot, FetchInsn
  <2>2. PICK x, o : x = FreeId /\ o = NewOp(pc, npc, taken)
    OBVIOUS
  <2>3. op' = [op EXCEPT ![x] = o] /\ ~ o.slot /\ ~ o.issued
    BY <2>1, <2>2 DEF PushFetch, NewOp
  <2> QED
    BY <2>3, MonitorsOneOp
<1>2. CASE DecodeOne
  <2>1. PICK x, a : op' = [op EXCEPT ![x].age = 0, ![x].slot = a] /\ x = Head(fetch_queue)
                    /\ a = (InsnOf(x).k \in Jumps)
    BY <1>2 DEF DecodeOne
  <2>2. op' = [op EXCEPT ![x] = [op[x] EXCEPT !.age = 0, !.slot = a]]
    BY <2>1
  <2>3. x \in Live /\ DOMAIN op[x] = Fields
    BY <1>2, <2>1, TailElems, QueuesLive, LiveFields DEF WindowInv, Shape, DecodeOne, DecodeMore
  <2> DEFINE o == [op[x] EXCEPT !.age = 0, !.slot = a]
  <2>4. o.slot = a /\ o.pc = op[x].pc /\ o.issued = op[x].issued /\ o.exc = op[x].exc
    BY <2>3 DEF Fields
  <2> HIDE DEF o
  <2>5. InsnOf(x).k = "monitor" => a = FALSE /\ (op[x].issued => op[x].exc)
    <3>1. "monitor" \notin Jumps
      BY DEF Jumps
    <3>2. InsnOf(x).k = "monitor" => a = FALSE
      <4> SUFFICES ASSUME InsnOf(x).k = "monitor" PROVE a = FALSE
        OBVIOUS
      <4>1. InsnOf(x).k \notin Jumps
        BY <3>1
      <4>2. (InsnOf(x).k \in Jumps) = FALSE
        BY <4>1
      <4> QED
        BY <2>1, <4>2
    <3>3. InsnOf(x).k = "monitor" => (op[x].issued => op[x].exc)
      BY <2>3 DEF MonitorsMarked
    <3> QED
      BY <3>2, <3>3
  <2>6. InsnAt(o.pc).k = "monitor" => ~ o.slot /\ (o.issued => o.exc)
    BY <2>4, <2>5 DEF InsnOf
  <2> QED
    BY <2>2, <2>6, MonitorsOneOp DEF o
<1>3. CASE ExecuteOne
  <2>1. PICK x, v, lat, o : op' = [op EXCEPT ![x] = o] /\ o = Executed(x, v, lat) /\ x \in Elems(rob)
    <3> DEFINE cc == SchedOrder[Min(Schedulable)]
               xx == rs[cc][Min(ReadyAt(cc))]
    <3>1. Schedulable # {}
      BY <1>3 DEF ExecuteOne
    <3>2. cc \in Classes /\ xx \in Elems(rs[cc]) /\ ~ nuke
      BY <3>1, ScheduledOp
    <3>3. PICK val, lat : op' = [op EXCEPT ![xx] = Executed(xx, val, lat)]
      BY <1>3 DEF ExecuteOne
    <3> HIDE DEF cc, xx
    <3>4. xx \in Elems(rob)
      BY <3>2 DEF WindowInv, Waiting
    <3> QED
      BY <3>3, <3>4
  <2>2. x \in Live /\ DOMAIN op[x] = Fields
    BY <2>1, LoadsLive, LiveFields
  <2>3. o.pc = op[x].pc
    BY <2>1, <2>2, ExecutedMarks DEF ExecutedFrom, Names
  <2>4. InsnAt(o.pc).k = "monitor" => ~ o.slot /\ o.exc
    BY <2>1, <2>2, <2>3, ExecutedMonitor DEF MonitorsMarked, InsnOf
  <2> QED
    BY <2>1, <2>4, MonitorsOneOp
<1>4. CASE ~ (FetchSlot \/ FetchInsn \/ DecodeOne \/ ExecuteOne)
  BY <1>4, FlowKept, MonitorsKept, StepKinds DEF QuietStep, QuietFront
<1> QED
  BY <1>1, <1>2, <1>3, <1>4

(* What is done keeps its exception, and what branches do.                 *)
LEMMA HeadSlotKept ==
    ASSUME WindowInv, HeadSlot, rpc' = rpc, rob # <<>> => Head(rob') = Head(rob),
           \A y \in Elems(rob) : op[y].done => op'[y].slot = op[y].slot /\ op'[y].exc = op[y].exc
    PROVE  HeadSlot'
<1> SUFFICES ASSUME rpc \in {"excslot", "excuu"} PROVE HeadSlot'
  BY DEF HeadSlot
<1>1. rob # <<>> /\ op[Head(rob)].done
  BY DEF WindowInv, HeadDone
<1>2. Head(rob) \in Elems(rob)
  BY <1>1, TailElems DEF WindowInv, Shape
<1> QED
  BY <1>1, <1>2 DEF HeadSlot

(* What retire() has seen of the head stays so.                            *)
LEMMA NextHeadSlot ==
    ASSUME WindowInv, MarkInv, HeadSlot, [Next]_vars
    PROVE  HeadSlot'
<1>1. CASE QuietStep
  <2>1. \A y \in Elems(rob) : op'[y].slot = op[y].slot /\ op'[y].exc = op[y].exc
    <3>1. \A y \in Elems(rob) : Keeps(y, Outcome)
      BY <1>1, QuietData
    <3> QED
      BY <3>1 DEF Keeps, Outcome, Fields
  <2>2. rob' = rob
    BY <1>1, QuietData
  <2>3. CASE rpc' = rpc
    BY <2>1, <2>2, <2>3, HeadSlotKept
  <2>4. CASE rpc' # rpc
    <3>1. QuietRetire
      BY <1>1, <2>4 DEF QuietStep, QuietFront, FetchSlot, FetchInsn, PushFetch, DecodeOne, CacheTick,
         NextCycle, ThreadYield, Terminated, vars
    <3>2. rpc' \notin {"excslot", "excuu"} \/ ExceptionBegin
      BY <2>4, <3>1 DEF QuietRetire, RetireIdle, RetireException, RetireWaitSlot,
         ExceptionWaitSlot, DelaySlotException, RetireEnd
    <3>3. CASE ExceptionBegin
      <4>1. rob # <<>> /\ (rpc' = "nuke" \/ (op[Head(rob)].slot /\ rpc' = "excslot"))
        BY <3>3 DEF ExceptionBegin, u, WindowInv, HeadDone
      <4>2. Head(rob) \in Elems(rob)
        BY <4>1, TailElems DEF WindowInv, Shape
      <4> QED
        BY <2>1, <2>2, <4>1, <4>2 DEF HeadSlot
    <3> QED
      BY <3>2, <3>3 DEF HeadSlot
  <2> QED
    BY <2>3, <2>4
<1>2. CASE RetireStep
  <2>1. PICK x : x = Head(rob)
    OBVIOUS
  <2>2. /\ rob # <<>> /\ rob' = Tail(rob) /\ Elems(rob)' = Elems(rob) \ {x}
        /\ \A y \in Elems(rob)' : Keeps(y, Outcome \ {"lexc"})
    BY <1>2, <2>1, RetireData
  <2>3. rpc' \notin {"excslot", "excuu"} \/ ExceptionBranch
    BY <1>2 DEF RetireStep, RetireOne, ExceptionNoSlot, ExceptionSlot
  <2>4. CASE ExceptionBranch
    <3>1. rpc' = "excuu" /\ Len(rob) >= 2 /\ ~ op[rob[2]].exc
      BY <2>4 DEF ExceptionBranch, SlotDone, uu
    <3>2. Head(rob') = rob[2]
      BY <2>2, <3>1, TailHead DEF WindowInv, Shape
    <3>3. rob[2] \in Elems(rob) /\ rob[2] # x
      <4>1. rob \in Seq(Ids) /\ 2 \in DOMAIN rob /\ 1 \in DOMAIN rob /\ x = rob[1]
        BY <2>1, <2>2, <3>1 DEF WindowInv, Shape
      <4> QED
        BY <4>1 DEF Elems, WindowInv, OnePlace, NoRepeat
    <3>4. op'[rob[2]].exc = op[rob[2]].exc
      BY <2>2, <3>3 DEF Keeps, Outcome, Fields
    <3> QED
      BY <3>1, <3>2, <3>4 DEF HeadSlot
  <2> QED
    BY <2>3, <2>4 DEF HeadSlot
<1>3. CASE AllocateOne
  <2>1. PICK x : x = Head(decode_queue)
    OBVIOUS
  <2>2. \A y \in Elems(rob) : op'[y] = op[y]
    BY <1>3, <2>1, AllocateData
  <2>3. rob' = Append(rob, x) /\ x \in Ids /\ rpc' = rpc
    BY <1>3, <2>1, AllocateOps, AllocateData
  <2>4. rob # <<>> => Head(rob') = Head(rob)
    BY <2>3, AppendElems DEF WindowInv, Shape
  <2> QED
    BY <2>2, <2>3, <2>4, HeadSlotKept
<1>4. CASE ExecuteOne
  <2>1. PICK x, v, w : ExecuteSays(x, v, w)
    BY <1>4, ExecuteData
  <2>2. rob' = rob /\ rpc' = rpc
    BY <1>4, ExecuteData
  <2>3. \A y \in Elems(rob) : op[y].done => op'[y] = op[y]
    BY <2>1 DEF ExecuteSays
  <2> QED
    BY <2>2, <2>3, HeadSlotKept
<1>5. CASE CompleteOne
  <2>1. PICK x, w : CompleteSays(x, w)
    BY <1>5, CompleteData
  <2>2. rob' = rob /\ rpc' = rpc
    BY <1>5, CompleteData
  <2>3. \A y \in Elems(rob) : op[y].done => op'[y] = op[y]
    BY <2>1 DEF CompleteSays
  <2> QED
    BY <2>2, <2>3, HeadSlotKept
<1>6. CASE Nuke \/ RecoverySleep
  BY <1>6, RecoveryData DEF HeadSlot
<1> QED
  BY <1>1, <1>2, <1>3, <1>4, <1>5, <1>6, StepKinds

(* The next state's rob under a name of its own.                           *)
LEMMA BlocksAfter ==
    ASSUME NEW z, z = rob', NEW n, n = Len(z),
           rpc' \notin {"excslot", "excuu", "nuke"} =>
              \A j \in 1 .. n : Blocking(z[j])' => alloc_blocked' /\ j = n
    PROVE  Blocks'
BY DEF Blocks, Blocking, InsnOf

(* What blocks stays the youngest.                                         *)
LEMMA NextBlocks ==
    ASSUME WindowInv, MarkInv, Blocks, [Next]_vars
    PROVE  Blocks'
<1>0. /\ \A j \in 1 .. Len(rob) : rob[j] \in Elems(rob)
      /\ rob \in Seq(Ids) /\ Len(rob) \in Nat
  BY RobElems DEF WindowInv, Shape
<1>1. CASE QuietStep
  <2>1. \A y \in Elems(rob) : Keeps(y, Outcome)
    BY <1>1, QuietData
  <2>2. \A y \in Elems(rob) : Blocking(y)' = Blocking(y)
    BY <2>1 DEF Keeps, Outcome, Fields, Blocking, InsnOf
  <2>3. rob' = rob
    BY <1>1, QuietData
  <2>4. rpc' \notin {"excslot", "excuu", "nuke"} =>
           rpc \notin {"excslot", "excuu", "nuke"} /\ alloc_blocked' = alloc_blocked
    BY <1>1 DEF QuietStep, QuietFront, FetchSlot, FetchInsn, PushFetch, DecodeOne, CacheTick,
         NextCycle, ThreadYield, Terminated, vars, QuietRetire, RetireIdle, RetireException,
         RetireWaitSlot, ExceptionBegin, ExceptionWaitSlot, DelaySlotException, RetireEnd
  <2> QED
    BY <1>0, <2>2, <2>3, <2>4 DEF Blocks
<1>2. CASE RetireStep
  <2>1. PICK x : x = Head(rob)
    OBVIOUS
  <2>2. /\ rob # <<>> /\ rob' = Tail(rob) /\ Elems(rob)' = Elems(rob) \ {x}
        /\ \A y \in Elems(rob)' : Keeps(y, Outcome \ {"lexc"})
    BY <1>2, <2>1, RetireData
  <2>3. \A y \in Elems(rob)' : Blocking(y)' = Blocking(y)
    BY <2>2 DEF Keeps, Outcome, Fields, Blocking, InsnOf
  <2>4. rpc' \in {"excslot", "excuu", "nuke"} \/ RetireOne
    BY <1>2 DEF RetireStep, ExceptionBranch, ExceptionNoSlot, ExceptionSlot
  <2>5. CASE RetireOne
    <3>1. rpc \notin {"excslot", "excuu", "nuke"}
      BY <2>5 DEF RetireOne
    <3>2. \A j \in 1 .. Len(rob) : Blocking(rob[j]) => alloc_blocked /\ j = Len(rob)
      BY <3>1 DEF Blocks
    <3>0. PICK z, n : z = rob' /\ n = Len(z)
      OBVIOUS
    <3>3. ASSUME NEW j \in 1 .. n, Blocking(z[j])'
          PROVE  alloc_blocked' /\ j = n
      <4>1. n = Len(rob) - 1 /\ z[j] = rob[j + 1] /\ j + 1 \in 1 .. Len(rob)
        BY <1>0, <2>2, <3>0
      <4>2. z[j] \in Elems(rob)'
        <5>1. z \in Seq(Ids)
          BY <3>0, <1>0, <2>2
        <5>2. z[j] \in Elems(z)
          BY <3>0, <3>3, <5>1 DEF Elems
        <5>3. Elems(z) = Elems(rob)'
          BY <3>0
        <5> QED
          BY <5>2, <5>3
      <4>3. Blocking(rob[j + 1])
        BY <2>3, <3>3, <4>1, <4>2
      <4>4. alloc_blocked /\ j + 1 = Len(rob)
        BY <3>2, <4>1, <4>3
      <4>5. ~ Blocking(x)
        <5>1. x = rob[1] /\ 1 \in 1 .. Len(rob) /\ 1 # Len(rob)
          BY <1>0, <2>1, <2>2, <4>1, <4>4
        <5> QED
          BY <3>2, <5>1
      <4>6. alloc_blocked'
        <5>1. alloc_blocked' = BlocksAlloc(InsnOf(x), op[x])
          BY <2>1, <2>5 DEF RetireOne, RetireOp
        <5> QED
          BY <4>4, <4>5, <5>1 DEF BlocksAlloc, Blocking
      <4> QED
        BY <4>1, <4>4, <4>6
    <3> QED
      BY <3>0, <3>3, BlocksAfter
  <2> QED
    BY <2>4, <2>5 DEF Blocks
<1>3. CASE AllocateOne
  <2>1. PICK x : x = Head(decode_queue)
    OBVIOUS
  <2>2. /\ \A y \in Elems(rob) : op'[y] = op[y]
        /\ Keeps(x, Outcome \ {"src", "new", "prev"}) /\ rpc' = rpc
    BY <1>3, <2>1, AllocateData
  <2>3. rob' = Append(rob, x) /\ x \in Ids
    BY <1>3, <2>1, AllocateOps
  <2>4. InsnOf(x)' = InsnOf(x) /\ \A y \in Elems(rob) : Blocking(y)' = Blocking(y)
    BY <2>2 DEF Keeps, Outcome, Fields, Blocking, InsnOf
  <2>5. ~ alloc_blocked /\ alloc_blocked' = (InsnOf(x).k \in {"sync", "monitor"})
    BY <1>3, <2>1 DEF AllocateOne, AllocateMore
  <2>0. PICK z, n : z = rob' /\ n = Len(z)
    OBVIOUS
  <2>6. ASSUME NEW j \in 1 .. n, Blocking(z[j])', rpc \notin {"excslot", "excuu", "nuke"}
        PROVE  alloc_blocked' /\ j = n
    <3>1. CASE j \in 1 .. Len(rob)
      <4>1. z[j] = rob[j]
        BY <1>0, <2>0, <2>3, <3>1
      <4>2. Blocking(rob[j])
        BY <1>0, <2>4, <2>6, <3>1, <4>1
      <4> QED
        BY <2>5, <2>6, <3>1, <4>2 DEF Blocks
    <3>2. CASE j \notin 1 .. Len(rob)
      <4>1. j = n /\ z[j] = x
        BY <1>0, <2>0, <2>3, <2>6, <3>2
      <4> QED
        BY <2>4, <2>5, <2>6, <4>1 DEF Blocking
    <3> QED
      BY <3>1, <3>2
  <2> QED
    BY <2>0, <2>2, <2>6, BlocksAfter
<1>4. CASE ExecuteOne
  <2>1. PICK x, v, w : ExecuteSays(x, v, w)
    BY <1>4, ExecuteData
  <2>2. rob' = rob /\ rpc' = rpc /\ (alloc_blocked => alloc_blocked')
    BY <1>4, ExecuteData DEF ExecuteOne
  <2>3. \A y \in Elems(rob) : Keeps(y, {"pc"})
    <3>1. op'[x].pc = op[x].pc /\ \A y \in Elems(rob) : y # x => op'[y] = op[y]
      <4>1. PICK lat : op'[x] = Executed(x, v, lat) /\ x \in Elems(rob)
        BY <2>1 DEF ExecuteSays
      <4>2. DOMAIN op[x] = Fields
        BY <4>1, LoadsLive, LiveFields
      <4> QED
        BY <2>1, <4>1, <4>2, ExecutedMarks DEF ExecuteSays, ExecutedFrom, Names
    <3> QED
      BY <3>1 DEF Keeps
  <2>4. \A y \in Elems(rob) : Blocking(y)' = Blocking(y)
    BY <2>3 DEF Keeps, Blocking, InsnOf
  <2> QED
    BY <1>0, <2>2, <2>4 DEF Blocks
<1>5. CASE CompleteOne
  <2>1. PICK x, w : CompleteSays(x, w)
    BY <1>5, CompleteData
  <2>2. rob' = rob /\ rpc' = rpc /\ alloc_blocked' = alloc_blocked
    BY <1>5, CompleteData DEF CompleteOne
  <2>3. \A y \in Elems(rob) : Keeps(y, {"pc"})
    BY <2>1 DEF CompleteSays, Keeps, Outcome, Fields
  <2>4. \A y \in Elems(rob) : Blocking(y)' = Blocking(y)
    BY <2>3 DEF Keeps, Blocking, InsnOf
  <2> QED
    BY <1>0, <2>2, <2>4 DEF Blocks
<1>6. CASE Nuke \/ RecoverySleep
  <2>1. rob' = <<>>
    BY <1>6, RecoveryData
  <2> QED
    BY <2>1 DEF Blocks
<1> QED
  BY <1>1, <1>2, <1>3, <1>4, <1>5, <1>6, StepKinds

(* A host call that retires is all the rob holds.                          *)
LEMMA MonitorAlone ==
    ASSUME WindowInv, MarkInv, BlockInv, RetireStep, InsnOf(Head(rob)).k = "monitor"
    PROVE  rob' = <<>>
<1>1. PICK x : x = Head(rob)
  OBVIOUS
<1>2. /\ rob # <<>> /\ op[x].done /\ x \in Live /\ op[x].issued /\ rob' = Tail(rob)
      /\ rob \in Seq(Ids)
  BY <1>1, RetireHead, RetireData DEF WindowInv, Shape
<1>3. ~ op[x].slot /\ op[x].exc
  BY <1>1, <1>2 DEF BlockInv, MonitorsMarked
<1>4. rpc \notin {"excslot", "excuu"}
  BY <1>1, <1>3 DEF BlockInv, HeadSlot
<1>5. rpc # "nuke"
  BY DEF RetireStep, RetireOne, ExceptionNoSlot, ExceptionSlot, ExceptionBranch
<1>6. 1 \in 1 .. Len(rob) /\ x = rob[1]
  BY <1>1, <1>2
<1>7. Len(rob) = 1
  BY <1>1, <1>4, <1>5, <1>6 DEF BlockInv, Blocks, Blocking
<1> QED
  BY <1>2, <1>7

-----------------------------------------------------------------------------
(* Completed loads stay right                                              *)

(* What is eight bytes apart: the words an aligned access touches are in   *)
(* the eight bytes of its address.                                         *)
LEMMA EightBytes ==
    ASSUME NEW ea \in Int
    PROVE  /\ ea - (ea % 4) \in Int /\ (ea - (ea % 4)) \div 8 = ea \div 8
           /\ ea % 8 = 0 => ea % 4 = 0 /\ (ea + 4) \div 8 = ea \div 8
<1>1. PICK q \in Int, r \in 0 .. 7 : ea = 8 * q + r /\ ea \div 8 = q /\ ea % 8 = r
  <2>1. ea = 8 * (ea \div 8) + (ea % 8) /\ ea % 8 \in 0 .. 7 /\ ea \div 8 \in Int
    OBVIOUS
  <2> QED
    BY <2>1
<1>2. PICK m \in 0 .. 3 : ea % 4 = m /\ m <= r
  <2>1. r < 4 => ea % 4 = r
    BY <1>1
  <2>2. r >= 4 => ea % 4 = r - 4
    BY <1>1
  <2> QED
    BY <2>1, <2>2
<1>3. (8 * q + (r - m)) \div 8 = q
  BY <1>1, <1>2
<1>4. ea - (ea % 4) = 8 * q + (r - m)
  BY <1>1, <1>2
<1>5. ea % 8 = 0 => ea % 4 = 0 /\ (ea + 4) \div 8 = q
  BY <1>1
<1> QED
  BY <1>1, <1>3, <1>4, <1>5

(* A word that is written changes no other word.                           *)
LEMMA OtherWord ==
    ASSUME NEW m, NEW a, NEW b, a # b, NEW w
    PROVE  ReadWord(WriteWord(m, b, w), a) = ReadWord(m, a)
BY DEF ReadWord, WriteWord

(* retire() of an aligned store changes the eight bytes of its address     *)
(* only.                                                                   *)
LEMMA StoreFrame ==
    ASSUME NEW i, i.k \in StoreOps \cup {"swc1", "sdc1"}, NEW ea \in Word, ~ MisalignedStore(i, ea),
           NEW m, NEW v, NEW a \in Int, a \div 8 # ea \div 8
    PROVE  ReadWord(StoreData(i, ea, m, v), a) = ReadWord(m, a)
<1>0. ea \in Int
  BY WordFacts
<1>1. PICK ma, b : ma = ea % 4 /\ b = ea - ma
  OBVIOUS
<1>2. b # a
  BY <1>0, <1>1, EightBytes
<1>3. CASE i.k \in StoreOps
  <2>1. PICK w : StoreData(i, ea, m, v) = WriteWord(m, b, w)
    BY <1>1, <1>3 DEF StoreData, StoreOps
  <2> QED
    BY <1>2, <2>1, OtherWord
<1>4. CASE i.k = "swc1"
  <2>1. PICK w : StoreData(i, ea, m, v) = WriteWord(m, b, w)
    BY <1>1, <1>4 DEF StoreData, StoreOps
  <2> QED
    BY <1>2, <2>1, OtherWord
<1>5. CASE i.k = "sdc1"
  <2>1. PICK w, z : StoreData(i, ea, m, v) = WriteWord(WriteWord(m, b, w), b + 4, z)
    BY <1>1, <1>5 DEF StoreData, StoreOps
  <2>2. ea % 8 = 0
    BY <1>5 DEF MisalignedStore
  <2>3. b + 4 # a
    BY <1>0, <1>1, <2>2, EightBytes
  <2> QED
    BY <1>2, <2>1, <2>3, OtherWord
<1> QED
  BY <1>3, <1>4, <1>5

(* complete() of an aligned load reads the eight bytes of its address      *)
(* only.                                                                   *)
LEMMA LoadFrame ==
    ASSUME NEW i, i.k \in LoadOps \cup {"lwc1", "ldc1"}, NEW ea \in Word, ~ Misaligned(i, ea),
           NEW m, NEW n, NEW v,
           \A a \in Int : a \div 8 = ea \div 8 => ReadWord(n, a) = ReadWord(m, a)
    PROVE  LoadData(i, ea, n, v) = LoadData(i, ea, m, v)
<1>0. ea \in Int
  BY WordFacts
<1>1. ReadWord(n, ea - (ea % 4)) = ReadWord(m, ea - (ea % 4))
  BY <1>0, EightBytes
<1>2. CASE i.k # "ldc1"
  <2>1. PICK r, s : r = ReadWord(n, ea - (ea % 4)) /\ s = ReadWord(m, ea - (ea % 4)) /\ r = s
    BY <1>1
  <2> QED
    BY <1>2, <2>1 DEF LoadData
<1>3. CASE i.k = "ldc1"
  <2>1. ea % 8 = 0
    BY <1>3 DEF Misaligned
  <2>2. ReadWord(n, ea + 4) = ReadWord(m, ea + 4)
    BY <1>0, <2>1, EightBytes
  <2> QED
    BY <1>1, <1>3, <2>2 DEF LoadData, LoadOps
<1> QED
  BY <1>2, <1>3

(* So a store and a load of different eight bytes do not meet.             *)
LEMMA LoadKept ==
    ASSUME NEW i, i.k \in LoadOps \cup {"lwc1", "ldc1"}, NEW ea \in Word, ~ Misaligned(i, ea),
           NEW j, j.k \in StoreOps \cup {"swc1", "sdc1"}, NEW eb \in Word, ~ MisalignedStore(j, eb),
           ea \div 8 # eb \div 8, NEW m, NEW v, NEW z
    PROVE  LoadData(i, ea, StoreData(j, eb, m, z), v) = LoadData(i, ea, m, v)
<1>1. PICK n : n = StoreData(j, eb, m, z)
  OBVIOUS
<1>2. \A a \in Int : a \div 8 = ea \div 8 => ReadWord(n, a) = ReadWord(m, a)
  BY <1>1, StoreFrame
<1> QED
  BY <1>1, <1>2, LoadFrame

(* A load loads a word for every destination.                              *)
LEMMA LoadDomain ==
    ASSUME NEW x, SigOf(x).cls = "load", NEW ea, NEW m, NEW v
    PROVE  /\ InsnOf(x).k \in LoadOps \cup {"lwc1", "ldc1"}
           /\ LoadData(InsnOf(x), ea, m, v) = [n \in DOMAIN SigOf(x).dst |->
                                                  LoadData(InsnOf(x), ea, m, v)[n]]
<1>1. PICK i, s : i = InsnOf(x) /\ s = SigOf(x) /\ s = decode_insn(i)
  BY DEF SigOf
<1>2. i.k \in LoadOps \cup {"lwc1", "ldc1"}
  BY <1>1, Decodes, Decode DEF InsnOf
<1>3. CASE i.k # "ldc1"
  <2>1. \E r : s.dst = <<r>>
    BY <1>1, <1>2, <1>3, LoadShape
  <2>2. \E w : LoadData(i, ea, m, v) = <<w>>
    BY <1>2, <1>3 DEF LoadData, LoadOps
  <2> QED
    BY <1>1, <1>2, <2>1, <2>2
<1>4. CASE i.k = "ldc1"
  <2>1. \E r, q : s.dst = <<r, q>>
    BY <1>1, <1>4, LoadShape
  <2>2. \E w, z : LoadData(i, ea, m, v) = <<w, z>>
    BY <1>4 DEF LoadData, LoadOps
  <2> QED
    BY <1>1, <1>2, <2>1, <2>2
<1> QED
  BY <1>3, <1>4

(* A load of the rob is in the load table, where a retiring store looks    *)
(* for it.                                                                 *)
LoadsHeld == \A x \in Elems(rob) : SigOf(x).cls = "load" => x \in load_tbl

(* The destinations of x hold w.                                           *)
Holds(x, w) == w = [n \in DOMAIN op[x].new |-> prf[op[x].new[n]]]

(* A completed load that is not marked for a replay holds what memory      *)
(* holds, whatever is older than it: the stores in between have not        *)
(* retired.                                                                *)
FreshLoad(x) ==
    SigOf(x).cls = "load" /\ op[x].done /\ ~ op[x].lexc
        => Holds(x, LoadData(InsnOf(x), op[x].ea, mem, op[x].v))

(* The invariant of the loads.                                            *)
FreshInv == LoadsHeld /\ \A x \in Elems(rob) : FreshLoad(x)

(* FreshInv says more than LoadsFresh.                                     *)
LEMMA FreshLoadsFresh == ASSUME Shape, FreshInv PROVE LoadsFresh
BY RobElems DEF FreshInv, FreshLoad, Holds, LoadsFresh

(* The loads stay in their table.                                          *)
LEMMA NextHeld ==
    ASSUME WindowInv, MarkInv, LoadsHeld, [Next]_vars
    PROVE  LoadsHeld'
<1>1. CASE QuietStep
  <2>1. rob' = rob /\ load_tbl' = load_tbl
    BY <1>1, QuietNames
  <2>2. \A y \in Elems(rob) : SigOf(y)' = SigOf(y)
    BY <1>1, QuietData DEF Keeps, Outcome, Fields, SigOf, InsnOf
  <2> QED
    BY <2>1, <2>2 DEF LoadsHeld, Elems
<1>2. CASE RetireStep
  <2>1. PICK x : x = Head(rob)
    OBVIOUS
  <2>2. /\ Elems(rob)' = Elems(rob) \ {x}
        /\ \A y \in Elems(rob)' : Keeps(y, Outcome \ {"lexc"})
    BY <1>2, <2>1, RetireData
  <2>3. load_tbl' = load_tbl \ {x}
    BY <1>2, <2>1, RetireHead DEF RetireOp, LeaveTbl
  <2>4. \A y \in Elems(rob)' : SigOf(y)' = SigOf(y)
    BY <2>2 DEF Keeps, Outcome, Fields, SigOf, InsnOf
  <2> QED
    BY <2>2, <2>3, <2>4 DEF LoadsHeld
<1>3. CASE AllocateOne
  <2>1. PICK x : x = Head(decode_queue)
    OBVIOUS
  <2>2. /\ \A y \in Elems(rob) : op'[y] = op[y]
        /\ Elems(rob)' = Elems(rob) \cup {x} /\ Keeps(x, Outcome \ {"src", "new", "prev"})
    BY <1>3, <2>1, AllocateData
  <2>3. load_tbl' = IF SigOf(x).cls = "load" THEN load_tbl \cup {x} ELSE load_tbl
    BY <1>3, <2>1 DEF AllocateOne
  <2>4. \A y \in Elems(rob)' : SigOf(y)' = SigOf(y)
    BY <2>2 DEF Keeps, Outcome, Fields, SigOf, InsnOf
  <2> QED
    BY <2>2, <2>3, <2>4 DEF LoadsHeld
<1>4. CASE ExecuteOne
  <2>1. PICK x, v, w : ExecuteSays(x, v, w)
    BY <1>4, ExecuteData
  <2>2. rob' = rob /\ load_tbl' = load_tbl
    BY <1>4, ExecuteData DEF ExecuteOne
  <2>3. op'[x].pc = op[x].pc
    <3>1. PICK lat : op'[x] = Executed(x, v, lat) /\ x \in Elems(rob)
      BY <2>1 DEF ExecuteSays
    <3>2. DOMAIN op[x] = Fields
      BY <3>1, LoadsLive, LiveFields
    <3> QED
      BY <3>1, <3>2, ExecutedMarks DEF ExecutedFrom, Names
  <2>4. \A y \in Elems(rob) : SigOf(y)' = SigOf(y)
    BY <2>1, <2>3 DEF ExecuteSays, SigOf, InsnOf
  <2> QED
    BY <2>2, <2>4 DEF LoadsHeld, Elems
<1>5. CASE CompleteOne
  <2>1. PICK x, w : CompleteSays(x, w)
    BY <1>5, CompleteData
  <2>2. rob' = rob /\ load_tbl' = load_tbl
    BY <1>5, CompleteData DEF CompleteOne, windowVars
  <2>3. \A y \in Elems(rob) : SigOf(y)' = SigOf(y)
    BY <2>1 DEF CompleteSays, Keeps, Outcome, Fields, SigOf, InsnOf
  <2> QED
    BY <2>2, <2>3 DEF LoadsHeld, Elems
<1>6. CASE Nuke \/ RecoverySleep
  BY <1>6, RecoveryData DEF LoadsHeld
<1> QED
  BY <1>1, <1>2, <1>3, <1>4, <1>5, <1>6, StepKinds

(* A load that keeps its fields, its registers and what memory holds for   *)
(* it stays fresh.                                                         *)
LEMMA FreshKept ==
    ASSUME NEW y, FreshLoad(y),
           Keeps(y, Outcome) \/ Keeps(y, Outcome \ {"lexc"}), ~ op'[y].lexc => ~ op[y].lexc,
           SigOf(y).cls = "load" /\ op[y].done /\ ~ op'[y].lexc =>
              /\ \A p \in Taken(y) : prf'[p] = prf[p]
              /\ LoadData(InsnOf(y), op[y].ea, mem', op[y].v)
                    = LoadData(InsnOf(y), op[y].ea, mem, op[y].v)
    PROVE  FreshLoad(y)'
<1>1. /\ op'[y].pc = op[y].pc /\ op'[y].done = op[y].done /\ op'[y].new = op[y].new
      /\ op'[y].v = op[y].v /\ op'[y].ea = op[y].ea
  BY DEF Keeps, Outcome, Fields
<1>2. SigOf(y)' = SigOf(y) /\ InsnOf(y)' = InsnOf(y)
  BY <1>1 DEF SigOf, InsnOf
<1> SUFFICES ASSUME SigOf(y).cls = "load", op[y].done, ~ op'[y].lexc
             PROVE  LoadData(InsnOf(y), op[y].ea, mem', op[y].v)
                        = [n \in DOMAIN op[y].new |-> prf'[op[y].new[n]]]
  BY <1>1, <1>2 DEF FreshLoad, Holds
<1>3. LoadData(InsnOf(y), op[y].ea, mem, op[y].v) = [n \in DOMAIN op[y].new |-> prf[op[y].new[n]]]
  BY DEF FreshLoad, Holds
<1>4. \A n \in DOMAIN op[y].new : prf'[op[y].new[n]] = prf[op[y].new[n]]
  BY DEF Taken, RangeOf
<1>5. [n \in DOMAIN op[y].new |-> prf'[op[y].new[n]]] = [n \in DOMAIN op[y].new |-> prf[op[y].new[n]]]
  BY <1>4
<1> QED
  BY <1>3, <1>5

(* What x writes is what its destinations then hold, and nobody else's.    *)
LEMMA WriteHolds ==
    ASSUME Shape, Chained, OneOwner, NEW x \in Elems(rob), NEW w
    PROVE  /\ \A y \in Elems(rob) \ {x} : \A p \in Taken(y) : WritePrf(x, w)[p] = prf[p]
           /\ \A n \in DOMAIN op[x].new : WritePrf(x, w)[op[x].new[n]] = w[n]
<1>0. \A y \in Elems(rob) : Taken(y) \subseteq Pregs
  BY Operands DEF Taken, RangeOf
<1>1. ASSUME NEW y \in Elems(rob), y # x, NEW p \in Taken(y) PROVE WritePrf(x, w)[p] = prf[p]
  <2>1. p \in Pregs /\ p \notin Taken(x)
    BY <1>0, <1>1 DEF OneOwner
  <2>2. ~ \E j \in DOMAIN op[x].new : op[x].new[j] = p
    BY <2>1 DEF Taken, RangeOf
  <2> QED
    BY <2>1, <2>2 DEF WritePrf
<1>2. ASSUME NEW n \in DOMAIN op[x].new PROVE WritePrf(x, w)[op[x].new[n]] = w[n]
  <2>1. PICK p : p = op[x].new[n]
    OBVIOUS
  <2>2. p \in Pregs
    BY <1>0, <2>1 DEF Taken, RangeOf
  <2>3. PICK k : k = CHOOSE j \in DOMAIN op[x].new : op[x].new[j] = p
    OBVIOUS
  <2>4. k \in DOMAIN op[x].new /\ op[x].new[k] = p
    BY <2>1, <2>3
  <2>5. k = n
    BY <2>1, <2>4 DEF OneOwner, Injective
  <2> QED
    BY <2>1, <2>2, <2>3, <2>5 DEF WritePrf
<1> QED
  BY <1>1, <1>2

(* execute() writes the destinations of an operation that is not complete. *)
LEMMA ExecuteFresh ==
    ASSUME WindowInv, Chained, OneOwner, FreshInv, ExecuteOne
    PROVE  \A y \in Elems(rob)' : FreshLoad(y)'
<1>1. PICK x, v, w : ExecuteSays(x, v, w)
  BY ExecuteData
<1>2. UNCHANGED <<rob, mem>> /\ Elems(rob)' = Elems(rob)
  BY ExecuteData DEF Elems
<1>3. /\ x \in Elems(rob) /\ ~ op[x].done
      /\ prf' = WritePrf(x, w) \/ prf' = prf
      /\ \A y \in Elems(rob) : y # x => op'[y] = op[y]
  BY <1>1 DEF ExecuteSays
<1>4. ~ op'[x].done
  <2>1. PICK lat : op'[x] = Executed(x, v, lat)
    BY <1>1 DEF ExecuteSays
  <2>2. DOMAIN op[x] = Fields
    BY <1>3, LoadsLive, LiveFields
  <2> QED
    BY <1>3, <2>1, <2>2, ExecutedMarks DEF ExecutedFrom
<1>5. ASSUME NEW y \in Elems(rob), y # x PROVE FreshLoad(y)'
  <2>1. FreshLoad(y) /\ op'[y] = op[y] /\ Keeps(y, Outcome)
    BY <1>3, <1>5 DEF FreshInv, Keeps
  <2>2. \A p \in Taken(y) : prf'[p] = prf[p]
    BY <1>3, <1>5, WriteHolds DEF WindowInv
  <2> QED
    BY <1>2, <2>1, <2>2, FreshKept
<1>6. FreshLoad(x)'
  BY <1>4 DEF FreshLoad
<1> QED
  BY <1>2, <1>5, <1>6

(* complete() writes what memory holds.                                    *)
LEMMA CompleteFresh ==
    ASSUME WindowInv, Chained, OneOwner, FreshInv, CompleteOne
    PROVE  \A y \in Elems(rob)' : FreshLoad(y)'
<1>1. PICK x, w : w = LoadData(InsnOf(x), op[x].ea, mem, op[x].v) /\ CompleteSays(x, w)
  BY CompleteData
<1>2. UNCHANGED <<rob, mem>> /\ Elems(rob)' = Elems(rob)
  BY CompleteData DEF Elems
<1>3. /\ x \in Elems(rob) /\ Keeps(x, Outcome \ {"done"})
      /\ prf' = IF SigOf(x).at = "complete" /\ ~ op[x].lexc THEN WritePrf(x, w) ELSE prf
      /\ \A y \in Elems(rob) : y # x => op'[y] = op[y]
  BY <1>1 DEF CompleteSays
<1>4. ASSUME NEW y \in Elems(rob), y # x PROVE FreshLoad(y)'
  <2>1. FreshLoad(y) /\ op'[y] = op[y] /\ Keeps(y, Outcome)
    BY <1>3, <1>4 DEF FreshInv, Keeps
  <2>2. \A p \in Taken(y) : prf'[p] = prf[p]
    BY <1>3, <1>4, WriteHolds DEF WindowInv
  <2> QED
    BY <1>2, <2>1, <2>2, FreshKept
<1>5. FreshLoad(x)'
  <2>1. /\ op'[x].pc = op[x].pc /\ op'[x].lexc = op[x].lexc /\ op'[x].new = op[x].new
        /\ op'[x].v = op[x].v /\ op'[x].ea = op[x].ea
    BY <1>3 DEF Keeps, Outcome, Fields
  <2>2. SigOf(x)' = SigOf(x) /\ InsnOf(x)' = InsnOf(x)
    BY <2>1 DEF SigOf, InsnOf
  <2> SUFFICES ASSUME SigOf(x).cls = "load", ~ op[x].lexc
               PROVE  LoadData(InsnOf(x), op[x].ea, mem, op[x].v)
                          = [n \in DOMAIN op[x].new |-> prf'[op[x].new[n]]]
    BY <1>2, <2>1, <2>2 DEF FreshLoad, Holds
  <2>3. prf' = WritePrf(x, w)
    BY <1>3, SigOfShaped DEF SigShape
  <2>4. \A n \in DOMAIN op[x].new : prf'[op[x].new[n]] = w[n]
    BY <1>3, <2>3, WriteHolds DEF WindowInv
  <2>5. DOMAIN op[x].new = DOMAIN SigOf(x).dst
    BY <1>3, Operands DEF WindowInv
  <2>6. w = [n \in DOMAIN op[x].new |-> w[n]]
    BY <1>1, <2>5, LoadDomain
  <2>7. [n \in DOMAIN op[x].new |-> w[n]] = [n \in DOMAIN op[x].new |-> prf'[op[x].new[n]]]
    BY <2>4
  <2> QED
    BY <1>1, <2>6, <2>7
<1> QED
  BY <1>2, <1>4, <1>5

(* A store that retires marks every load when one of them has read its     *)
(* eight bytes before.                                                     *)
LEMMA StoreFresh ==
    ASSUME WindowInv, MarkInv, DataInv, FreshInv, StoresAligned, RetireStep,
           NEW x, x = Head(rob), SigOf(x).cls = "store"
    PROVE  \A y \in Elems(rob)' : FreshLoad(y)'
<1>1. /\ x \in Elems(rob) /\ op[x].done /\ op[x].issued /\ rob # <<>>
      /\ Elems(rob)' = Elems(rob) \ {x}
      /\ \A y \in Elems(rob)' : Keeps(y, Outcome \ {"lexc"}) /\ (op[y].lexc => op'[y].lexc)
  BY RetireData
<1>2. RetireOp(x)
  BY RetireHead
<1>3. PICK j, eb, z : j = InsnOf(x) /\ eb = op[x].ea /\ z = op[x].v
  OBVIOUS
<1>4. j.k \in StoreOps \cup {"swc1", "sdc1"}
  BY <1>3, Decodes, Decode DEF SigOf, InsnOf
<1>5. j.k # "monitor"
  BY <1>4 DEF StoreOps
<1>6. prf' = prf /\ mem' = StoreData(j, eb, mem, z)
  BY <1>2, <1>3, <1>5 DEF RetireOp
<1>7. eb \in Word /\ ~ MisalignedStore(j, eb)
  <2>1. OutcomeTyped(x)
    BY <1>1 DEF DataInv
  <2>2. rpc \in {"slot", "exc", "excslot", "excuu"} \/ (rpc = "loop" /\ ~ ret.stop)
    BY DEF RetireStep, RetireOne, ExceptionNoSlot, ExceptionBranch, ExceptionSlot, RetireMore
  <2> QED
    BY <1>1, <1>3, <2>1, <2>2 DEF StoresAligned, OutcomeTyped
<1>8. ASSUME NEW y \in Elems(rob)' PROVE FreshLoad(y)'
  <2>1. y \in Elems(rob) /\ y # x /\ FreshLoad(y) /\ OutcomeTyped(y)
        /\ Keeps(y, Outcome \ {"lexc"}) /\ (op[y].lexc => op'[y].lexc)
    BY <1>1, <1>8 DEF FreshInv, DataInv
  <2>2. ASSUME SigOf(y).cls = "load", op[y].done, ~ op'[y].lexc
        PROVE  LoadData(InsnOf(y), op[y].ea, mem', op[y].v)
                  = LoadData(InsnOf(y), op[y].ea, mem, op[y].v)
    <3>1. y \in load_tbl /\ y \in Live /\ y \in Ids /\ DOMAIN op[y] = Fields
      BY <2>1, <2>2, LoadsLive, LiveFields DEF FreshInv, LoadsHeld
    <3>2. Violated(x) = {}
      <4> SUFFICES ASSUME Violated(x) # {} PROVE FALSE
        OBVIOUS
      <4>1. op'[y] = [op[y] EXCEPT !.lexc = TRUE]
        BY <1>2, <2>1, <3>1 DEF RetireOp
      <4>2. op'[y].lexc
        BY <3>1, <4>1 DEF Fields
      <4> QED
        BY <2>2, <4>2
    <3>3. op[y].ea \div 8 # eb \div 8
      BY <1>3, <2>2, <3>1, <3>2 DEF Violated
    <3>4. op[y].issued
      BY <2>2, <3>1 DEF WindowInv, Unissued
    <3>5. op[y].ea \in Word /\ ~ Misaligned(InsnOf(y), op[y].ea)
      BY <2>1, <2>2, <3>4 DEF OutcomeTyped
    <3>6. InsnOf(y).k \in LoadOps \cup {"lwc1", "ldc1"}
      BY <2>2, LoadDomain
    <3>7. PICK i, ea, v : i = InsnOf(y) /\ ea = op[y].ea /\ v = op[y].v
      OBVIOUS
    <3>8. LoadData(i, ea, StoreData(j, eb, mem, z), v) = LoadData(i, ea, mem, v)
      BY <1>4, <1>7, <3>3, <3>5, <3>6, <3>7, LoadKept
    <3> QED
      BY <1>6, <3>7, <3>8
  <2> QED
    BY <1>6, <2>1, <2>2, FreshKept
<1> QED
  BY <1>8

(* The other retirements change no memory, or leave an empty rob.          *)
LEMMA RetireFresh ==
    ASSUME WindowInv, MarkInv, BlockInv, DataInv, FreshInv, StoresAligned, RetireStep
    PROVE  \A y \in Elems(rob)' : FreshLoad(y)'
<1>1. PICK x : x = Head(rob)
  OBVIOUS
<1>2. CASE SigOf(x).cls = "store"
  BY <1>1, <1>2, StoreFresh
<1>3. CASE InsnOf(x).k = "monitor"
  <2>1. rob' = <<>>
    BY <1>1, <1>3, MonitorAlone
  <2>2. Elems(rob)' = {}
    BY <2>1 DEF Elems
  <2> QED
    BY <2>2
<1>4. CASE SigOf(x).cls # "store" /\ InsnOf(x).k # "monitor"
  <2>1. RetireOp(x)
    BY <1>1, RetireHead
  <2>2. prf' = prf /\ mem' = mem
    BY <1>4, <2>1 DEF RetireOp
  <2>3. /\ Elems(rob)' = Elems(rob) \ {x}
        /\ \A y \in Elems(rob)' : Keeps(y, Outcome \ {"lexc"}) /\ (op[y].lexc => op'[y].lexc)
    BY <1>1, RetireData
  <2> QED
    BY <2>2, <2>3, FreshKept DEF FreshInv
<1> QED
  BY <1>2, <1>3, <1>4

(* Every step keeps the loads fresh.                                       *)
LEMMA NextFresh ==
    ASSUME WindowInv, MarkInv, Chained, OneOwner, DataInv, BlockInv, FreshInv, StoresAligned,
           [Next]_vars
    PROVE  FreshInv'
<1>1. LoadsHeld'
  BY NextHeld DEF FreshInv
<1>2. CASE QuietStep
  <2>1. /\ \A y \in Elems(rob) : Keeps(y, Outcome)
        /\ UNCHANGED <<rob, prf, mem>> /\ Elems(rob)' = Elems(rob)
    BY <1>2, QuietData DEF Elems
  <2>2. ASSUME NEW y \in Elems(rob) PROVE FreshLoad(y)'
    <3>1. FreshLoad(y) /\ Keeps(y, Outcome) /\ op'[y].lexc = op[y].lexc
      BY <2>1 DEF FreshInv, Keeps, Outcome, Fields
    <3> QED
      BY <2>1, <3>1, FreshKept
  <2> QED
    BY <1>1, <2>1, <2>2 DEF FreshInv
<1>3. CASE RetireStep
  BY <1>1, <1>3, RetireFresh DEF FreshInv
<1>4. CASE AllocateOne
  <2>1. PICK x : x = Head(decode_queue)
    OBVIOUS
  <2>2. /\ \A y \in Elems(rob) : op'[y] = op[y]
        /\ Elems(rob)' = Elems(rob) \cup {x} /\ Keeps(x, Outcome \ {"src", "new", "prev"})
        /\ UNCHANGED <<prf, mem>>
    BY <1>4, <2>1, AllocateData
  <2>3. ASSUME NEW y \in Elems(rob) PROVE FreshLoad(y)'
    <3>1. FreshLoad(y) /\ Keeps(y, Outcome) /\ op'[y].lexc = op[y].lexc
      BY <2>2 DEF FreshInv, Keeps
    <3> QED
      BY <2>2, <3>1, FreshKept
  <2>4. FreshLoad(x)'
    <3>1. ~ op[x].done
      BY <1>4, <2>1, AllocateOps
    <3>2. ~ op'[x].done
      BY <2>2, <3>1 DEF Keeps, Outcome, Fields
    <3> QED
      BY <3>2 DEF FreshLoad
  <2> QED
    BY <1>1, <2>2, <2>3, <2>4 DEF FreshInv
<1>5. CASE ExecuteOne
  BY <1>1, <1>5, ExecuteFresh DEF FreshInv
<1>6. CASE CompleteOne
  BY <1>1, <1>6, CompleteFresh DEF FreshInv
<1>7. CASE Nuke \/ RecoverySleep
  BY <1>1, <1>7, RecoveryData DEF FreshInv
<1> QED
  BY <1>2, <1>3, <1>4, <1>5, <1>6, <1>7, StepKinds

(* Initially nothing is in flight.                                         *)
LEMMA InitFresh == Init => BlockInv /\ FreshInv
<1> SUFFICES ASSUME Init PROVE BlockInv /\ FreshInv
  OBVIOUS
<1>1. Elems(rob) = {} /\ rob = <<>> /\ Len(rob) = 0
  BY DEF Init, Elems
<1>2. Live = {}
  BY DEF Init, Live
<1>3. MonitorsMarked
  BY <1>2 DEF MonitorsMarked
<1>4. HeadSlot
  BY DEF Init, HeadSlot
<1>5. Blocks
  BY <1>1 DEF Blocks
<1>6. FreshInv
  BY <1>1 DEF FreshInv, LoadsHeld
<1> QED
  BY <1>3, <1>4, <1>5, <1>6 DEF BlockInv

(* A completed load that is not marked for a replay holds what memory      *)
(* holds when every older store has retired (LoadsFresh): however early it *)
(* read, either no store that retired since wrote its eight bytes, or      *)
(* retire() has marked it (the load_tbl scan of store_op::retire() and     *)
(* fp_store_op::retire(), mips_op.cc).  It takes that the eight bytes are  *)
(* enough, that every load is in the table while it is in the rob, that a  *)
(* host call, which writes memory without looking, retires alone, and that *)
(* nobody else writes the destinations of the load.                        *)
THEOREM LoadsStayFresh ==
    WordOps /\ FpWords => (Spec /\ []StoresAligned => []LoadsFresh)
<1> SUFFICES ASSUME WordOps /\ FpWords PROVE Spec /\ []StoresAligned => []LoadsFresh
  OBVIOUS
<1> DEFINE I == TypeInv /\ BlockInv /\ FreshInv
<1>1. Init => I
  BY InitTypes, InitFresh
<1>2. I /\ StoresAligned /\ [Next]_vars => I'
  <2> SUFFICES ASSUME I, StoresAligned, [Next]_vars PROVE I'
    OBVIOUS
  <2>1. TypeInv'
    BY NextTyped
  <2>2. WindowInv /\ MarkInv /\ Chained /\ OneOwner /\ DataInv /\ BlockInv /\ FreshInv
    BY DEF TypeInv, RenameInv
  <2>3. BlockInv'
    BY <2>2, NextMonitors, NextHeadSlot, NextBlocks DEF BlockInv
  <2>4. FreshInv'
    BY <2>2, NextFresh
  <2> QED
    BY <2>1, <2>3, <2>4
<1>3. I => LoadsFresh
  BY FreshLoadsFresh DEF TypeInv, WindowInv
<1> HIDE DEF I
<1> QED
  BY <1>1, <1>2, <1>3, PTL DEF Spec

-----------------------------------------------------------------------------
(* Where branches and jumps lead                                           *)

(* The instructions with a delay slot.                                    *)
Control == Branches \cup Jumps

(* A branch that was executed has a target, that of its condition, and     *)
(* raised an exception unless fetch() went there.                          *)
BranchResolved(i, o) ==
    /\ o.target \in Word
    /\ \/ o.target = BranchTarget(i, o.pc) /\ o.slot /\ (~ o.exc => o.taken)
       \/ /\ o.target = Unsigned(o.pc + 8) /\ (o.slot <=> i.k \notin Likely)
          /\ ~ o.exc => ~ o.taken /\ (i.k \in Likely => o.npc = Unsigned(o.pc + 8))
(* A jump that was executed has its target, and leads to it unless it was *)
(* mispredicted; a branch is resolved as above.                            *)
Resolved(i, o) ==
    /\ i.k \in Jumps => o.target \in Word /\ (~ o.exc => o.npc = o.target)
    /\ i.k \in Branches => BranchResolved(i, o)

(* Only branches and jumps have a delay slot, and, but for host calls,     *)
(* exceptions.                                                             *)
Controlled(o) ==
    /\ o.slot => InsnAt(o.pc).k \in Control
    /\ o.exc => InsnAt(o.pc).k \in Control \cup {"monitor"}
    /\ o.issued => Resolved(InsnAt(o.pc), o)

(* A jump of the back end knows of its delay slot.                         *)
JumpsMarked == \A x \in Elems(rob) \cup Elems(decode_queue) : InsnOf(x).k \in Jumps => op[x].slot
ControlInv == JumpsMarked /\ \A x \in Live : Controlled(op[x])

(* Branches and jumps are one class, without host calls.                   *)
LEMMA ControlKinds ==
    /\ \A a : decode_insn(InsnAt(a)).cls \in {"load", "store"} => InsnAt(a).k \notin Control
    /\ \A a : decode_insn(InsnAt(a)).cls = "jmp" <=> InsnAt(a).k \in Control
    /\ "monitor" \notin Control /\ Branches \cap Jumps = {} /\ Likely \subseteq Branches
    /\ \A a : InsnAt(a).k \in Control => a \in DOMAIN Program /\ a \in Nat
<1>1. \A a : decode_insn(InsnAt(a)).cls = "jmp" <=> InsnAt(a).k \in Control
  BY Decodes, Decode DEF Control
<1>2. "monitor" \notin Control /\ Branches \cap Jumps = {} /\ Likely \subseteq Branches
  BY DEF Control, Branches, Jumps, Likely, NonLikely
<1>3. \A a : InsnAt(a).k \in Control => a \in DOMAIN Program
  <2>1. Nop.k \notin Control
    BY DEF Nop, Insn, Control, Branches, Jumps, Likely, NonLikely
  <2> QED
    BY <2>1 DEF InsnAt
<1>4. DOMAIN Program \subseteq Nat
  BY RegsAssumption
<1>5. \A a : decode_insn(InsnAt(a)).cls \in {"load", "store"} => InsnAt(a).k \notin Control
  BY <1>1
<1> QED
  BY <1>1, <1>2, <1>3, <1>4, <1>5

(* The condition of a branch is true or false.                             *)
LEMMA TakeBrBoolean == \A i, v : i.k \in Branches => TakeBr(i, v) \in BOOLEAN
<1> SUFFICES ASSUME NEW i, NEW v, i.k \in Branches PROVE TakeBr(i, v) \in BOOLEAN
  OBVIOUS
<1> DEFINE c == Condition(i.rt, v)
           n == ~ Condition(i.rt, v)
<1>1. c \in BOOLEAN /\ n \in BOOLEAN
  BY DEF Condition
<1>2. CASE i.k \in {"bc1t", "bc1tl"}
  <2>1. TakeBr(i, v) = c
    BY <1>2 DEF TakeBr
  <2> QED
    BY <2>1, <1>1
<1>3. CASE i.k \in {"bc1f", "bc1fl"}
  <2>1. TakeBr(i, v) = n
    BY <1>3 DEF TakeBr
  <2> QED
    BY <2>1, <1>1
<1>4. CASE i.k \in {"beq", "beql"}
  <2>1. TakeBr(i, v) = (v[GPR(i.rs)] = v[GPR(i.rt)])
    BY <1>4 DEF TakeBr
  <2> QED
    BY <2>1
<1>5. CASE i.k \in {"bne", "bnel"}
  <2>1. TakeBr(i, v) = (v[GPR(i.rs)] # v[GPR(i.rt)])
    BY <1>5 DEF TakeBr
  <2> QED
    BY <2>1
<1>6. CASE i.k \in {"blez", "blezl"}
  <2>1. TakeBr(i, v) = (Signed(v[GPR(i.rs)]) <= 0)
    BY <1>6 DEF TakeBr
  <2> QED
    BY <2>1
<1>7. CASE i.k \in {"bgtz", "bgtzl"}
  <2>1. TakeBr(i, v) = (Signed(v[GPR(i.rs)]) > 0)
    BY <1>7 DEF TakeBr
  <2> QED
    BY <2>1
<1>8. CASE i.k \in {"bltz", "bltzl"}
  <2>1. TakeBr(i, v) = (Signed(v[GPR(i.rs)]) < 0)
    BY <1>8 DEF TakeBr
  <2> QED
    BY <2>1
<1>9. CASE i.k \in {"bgez", "bgezl"}
  <2>1. TakeBr(i, v) = (Signed(v[GPR(i.rs)]) >= 0)
    BY <1>9 DEF TakeBr
  <2> QED
    BY <2>1
<1> QED
  BY <1>2, <1>3, <1>4, <1>5, <1>6, <1>7, <1>8, <1>9 DEF Branches, Likely, NonLikely

(* What execute() makes of the operation o of instruction i.               *)
FlowsFrom(e, o, i, v) ==
    /\ e.pc = o.pc /\ e.npc = o.npc /\ e.taken = o.taken
    /\ i.k \notin Branches => e.slot = o.slot
    /\ i.k \notin Control \cup {"monitor"} => ~ e.exc
    /\ i.k \in Jumps => e.target = JumpTarget(i, v) /\ (~ e.exc => o.npc = e.target)
    /\ i.k \in Branches =>
         \E b \in BOOLEAN :
             /\ e.target = IF b THEN BranchTarget(i, o.pc) ELSE Unsigned(o.pc + 8)
             /\ e.slot <=> b \/ i.k \notin Likely
             /\ ~ e.exc => o.taken = b /\ (~ b /\ i.k \in Likely => o.npc = Unsigned(o.pc + 8))

(* execute() of a jump, of a branch, and of the rest.                      *)
LEMMA ExecutedFlow ==
    ASSUME NEW x, NEW v, NEW lat, DOMAIN op[x] = Fields, ~ op[x].exc
    PROVE  FlowsFrom(Executed(x, v, lat), op[x], InsnOf(x), v)
<1> DEFINE i == InsnOf(x)
           o == [op[x] EXCEPT !.issued = TRUE, !.cc = SigOf(x).lat]
           m == [o EXCEPT !.ea = EffectiveAddress(i, v), !.v = v,
                          !.aux = IF UseL1d THEN lat ELSE -1, !.cc = IF UseL1d THEN -1 ELSE lat]
           target == CASE i.k \in Branches -> IF TakeBr(i, v) THEN BranchTarget(i, o.pc)
                                              ELSE Unsigned(o.pc + 8)
                       [] i.k \in Jumps    -> JumpTarget(i, v)
                       [] i.k = "monitor"  -> v[GPR(31)]
           load == [m EXCEPT !.lexc = @ \/ Misaligned(i, m.ea)]
           jump == [o EXCEPT !.target = target, !.exc = (o.npc # target)]
           branch == [o EXCEPT !.target = target,
                               !.slot = TakeBr(i, v) \/ i.k \notin Likely,
                               !.exc = Mispredicted(i, o, TakeBr(i, v))]
           monitor == [o EXCEPT !.v = v, !.target = target, !.exc = TRUE]
           e == Executed(x, v, lat)
<1>1. e = CASE SigOf(x).cls = "load"  -> load
            [] SigOf(x).cls = "store" -> m
            [] i.k \in Jumps          -> jump
            [] i.k \in Branches       -> branch
            [] i.k = "monitor"        -> monitor
            [] OTHER                  -> o
  BY Zenon DEF Executed
<1>2. SigOf(x).cls \in {"load", "store"} => i.k \notin Control \cup {"monitor"}
  BY ControlKinds, Decodes, Decode DEF SigOf, InsnOf, LoadOps, StoreOps
<1>3. "monitor" \notin Control /\ Branches \cap Jumps = {}
  BY ControlKinds
<1>4. i.k \in Jumps => target = JumpTarget(i, v)
  BY <1>3 DEF Control
<1>5. \A b \in BOOLEAN : i.k \in Branches /\ b = TakeBr(i, v)
        => target = IF b THEN BranchTarget(i, o.pc) ELSE Unsigned(o.pc + 8)
  BY <1>3 DEF Control
<1> DEFINE Same(p) == DOMAIN p = Fields /\ p.pc = op[x].pc /\ p.npc = op[x].npc /\ p.taken = op[x].taken
<1> HIDE DEF e, target, i
<1>6. Same(o) /\ o.slot = op[x].slot /\ o.exc = op[x].exc
  BY DEF Fields
<1> HIDE DEF o
<1>7. Same(m) /\ m.slot = op[x].slot /\ m.exc = op[x].exc
  BY <1>6 DEF Fields
<1> HIDE DEF m
<1>8. CASE SigOf(x).cls \in {"load", "store"}
  <2>1. Same(load) /\ load.slot = op[x].slot /\ load.exc = op[x].exc
    BY <1>7 DEF Fields
  <2> HIDE DEF load
  <2>2. e \in {load, m}
    BY <1>1, <1>2, <1>8 DEF Control
  <2> QED
    BY <1>2, <1>7, <1>8, <2>1, <2>2 DEF FlowsFrom, e, i, Control
<1>9. CASE SigOf(x).cls \notin {"load", "store"} /\ i.k \in Jumps
  <2>1. e = jump
    BY <1>1, <1>3, <1>9 DEF Control
  <2>2. Same(e) /\ e.slot = op[x].slot /\ e.target = target /\ e.exc = (o.npc # target)
    BY <1>6, <2>1 DEF Fields
  <2>3. ~ e.exc => op[x].npc = e.target
    BY <1>6, <2>2
  <2> QED
    BY <1>3, <1>4, <1>9, <2>2, <2>3 DEF FlowsFrom, e, i, Control
<1>10. CASE SigOf(x).cls \notin {"load", "store"} /\ i.k \in Branches
  <2>1. PICK b \in BOOLEAN : b = TakeBr(i, v)
    BY <1>10, TakeBrBoolean
  <2>2. PICK z \in BOOLEAN : z = (b \/ i.k \notin Likely)
    OBVIOUS
  <2>3. PICK w : w = Mispredicted(i, o, b)
    OBVIOUS
  <2>4. e = [o EXCEPT !.target = target, !.slot = z, !.exc = w]
    BY <1>1, <1>3, <1>10, <2>1, <2>2, <2>3 DEF Control
  <2>5. Same(e) /\ e.target = target /\ e.slot = z /\ e.exc = w
    BY <1>6, <2>4 DEF Fields
  <2>6. ~ w => op[x].taken = b /\ (~ b /\ i.k \in Likely => op[x].npc = Unsigned(op[x].pc + 8))
    BY <1>6, <2>3 DEF Mispredicted
  <2>7. target = IF b THEN BranchTarget(i, op[x].pc) ELSE Unsigned(op[x].pc + 8)
    BY <1>5, <1>6, <1>10, <2>1
  <2> QED
    BY <1>3, <1>10, <2>2, <2>5, <2>6, <2>7 DEF FlowsFrom, e, i, Control
<1>11. CASE SigOf(x).cls \notin {"load", "store"} /\ i.k \notin Control
  <2>1. Same(monitor) /\ monitor.slot = op[x].slot
    BY <1>6 DEF Fields
  <2> HIDE DEF monitor
  <2>2. IF i.k = "monitor" THEN e = monitor ELSE e = o
    BY <1>1, <1>11 DEF Control
  <2> QED
    BY <1>6, <1>11, <2>1, <2>2 DEF FlowsFrom, e, i, Control
<1> QED
  BY <1>8, <1>9, <1>10, <1>11 DEF Control

(* A jump reads its target.                                                *)
LEMMA JumpWord ==
    ASSUME TypeInv, NEW x \in Elems(rob), InsnOf(x).k \in Control
    PROVE  /\ InsnOf(x).k \in Jumps => JumpTarget(InsnOf(x), Sources(x)) \in Word
           /\ BranchTarget(InsnOf(x), op[x].pc) \in Word
           /\ Unsigned(op[x].pc + 8) \in Word /\ op[x].pc \in DOMAIN Program /\ op[x].pc \in Nat
<1> DEFINE i == InsnOf(x)
<1>1. op[x].pc \in DOMAIN Program /\ op[x].pc \in Nat /\ i = Program[op[x].pc]
  BY ControlKinds DEF InsnOf, InsnAt
<1>2. i.imm \in Int /\ (i.k \in {"j", "jal"} => i.imm \in Word)
  BY <1>1, FieldsAssumption
<1>3. i.k \in {"jr", "jalr"} => GPR(i.rs) \in SigOf(x).src
  <2>1. SUFFICES ASSUME i.k \in {"jr", "jalr"} PROVE GPR(i.rs) \in decode_insn(i).src
    BY DEF SigOf
  <2> HIDE DEF i
  <2> USE DEF ConstShift, RType, IType, CondMove, LoHi, MultDiv, FpCmp, FpCondMove, FpRegMove, ToSingle, ToDouble, FpArithD, FpArithS, Branches, Likely, NonLikely
  <2>2. CASE i.k = "jr"
    BY <2>2 DEF decode_insn, decode_rtype_insn, Sig, jump_op
  <2>3. CASE i.k = "jalr"
    BY <2>3 DEF decode_insn, decode_rtype_insn, Sig, jump_op
  <2> QED
    BY <2>1, <2>2, <2>3
<1>4. Sources(x) \in [SigOf(x).src -> Word]
  BY SourcesTyped DEF TypeInv, WindowInv, RenameInv, DataInv
<1>5. i.k \in Jumps => JumpTarget(i, Sources(x)) \in Word
  BY <1>2, <1>3, <1>4 DEF JumpTarget, Jumps
<1>6. BranchTarget(i, op[x].pc) \in Word /\ Unsigned(op[x].pc + 8) \in Word
  <2>1. op[x].pc + 4 + 4 * i.imm \in Int /\ op[x].pc + 8 \in Int
    BY <1>1, <1>2
  <2> QED
    BY <2>1, UnsignedWord DEF BranchTarget
<1> QED
  BY <1>1, <1>5, <1>6

(* A step that changes one operation.                                      *)
LEMMA ControlledOneOp ==
    ASSUME WindowInv, \A y \in Live : Controlled(op[y]), NEW x, NEW o, op' = [op EXCEPT ![x] = o],
           Controlled(o)
    PROVE  \A y \in Live' : Controlled(op'[y])
<1> SUFFICES ASSUME NEW y \in Live' PROVE Controlled(op'[y])
  OBVIOUS
<1>1. y \in Ids
  BY DEF Live
<1>2. CASE y = x
  <2>1. op'[y] = o
    BY <1>1, <1>2, OneOp
  <2> QED
    BY <2>1
<1>3. CASE y # x
  <2>1. y \in Live /\ op'[y] = op[y]
    BY <1>3, OneOp
  <2> QED
    BY <2>1
<1> QED
  BY <1>2, <1>3

(* A step that changes nothing of this.                                    *)
LEMMA ControlledKept ==
    ASSUME WindowInv, Shape', \A y \in Live : Controlled(op[y]),
           \A y \in Live' : y \in Live /\ Keeps(y, FlowFields)
    PROVE  \A y \in Live' : Controlled(op'[y])
<1> SUFFICES ASSUME NEW y \in Live' PROVE Controlled(op'[y])
  OBVIOUS
<1>1. y \in Live /\ \A f \in FlowFields : op'[y][f] = op[y][f]
  BY DEF Keeps
<1>2. PICK e : e = op'[y]
  OBVIOUS
<1>3. PICK o : o = op[y]
  OBVIOUS
<1>4. /\ e.pc = o.pc /\ e.npc = o.npc /\ e.taken = o.taken /\ e.slot = o.slot
      /\ e.issued = o.issued /\ e.exc = o.exc /\ e.target = o.target
  BY <1>1, <1>2, <1>3 DEF FlowFields
<1>5. Controlled(o)
  BY <1>1, <1>3
<1>6. Controlled(e)
  BY <1>4, <1>5 DEF Controlled, Resolved, BranchResolved
<1> QED
  BY <1>2, <1>6

(* Every step keeps the operations controlled.                             *)
LEMMA NextControlled ==
    ASSUME TypeInv, WindowInv', \A y \in Live : Controlled(op[y]), [Next]_vars
    PROVE  \A y \in Live' : Controlled(op'[y])
<1>0. WindowInv /\ MarkInv
  BY DEF TypeInv
<1>1. CASE FetchSlot \/ FetchInsn
  <2>1. PICK pc, npc, taken : FetchMore /\ PushFetch(pc, npc, taken)
    BY <1>1 DEF FetchSlot, FetchInsn
  <2>2. PICK x, o : x = FreeId /\ o = NewOp(pc, npc, taken)
    OBVIOUS
  <2>3. op' = [op EXCEPT ![x] = o] /\ ~ o.slot /\ ~ o.issued /\ ~ o.exc
    BY <2>1, <2>2 DEF PushFetch, NewOp
  <2> QED
    BY <1>0, <2>3, ControlledOneOp DEF Controlled
<1>2. CASE DecodeOne
  <2>1. PICK x, a : op' = [op EXCEPT ![x].age = 0, ![x].slot = a] /\ x = Head(fetch_queue)
                    /\ a = (InsnOf(x).k \in Jumps)
    BY <1>2 DEF DecodeOne
  <2>2. op' = [op EXCEPT ![x] = [op[x] EXCEPT !.age = 0, !.slot = a]]
    BY <2>1
  <2>3. x \in Elems(fetch_queue) /\ x \in Live /\ DOMAIN op[x] = Fields
    BY <1>0, <1>2, <2>1, TailElems, QueuesLive, LiveFields DEF WindowInv, Shape, DecodeOne, DecodeMore
  <2>4. ~ op[x].issued
    BY <1>0, <2>3 DEF WindowInv, Unissued, OnePlace
  <2> DEFINE o == [op[x] EXCEPT !.age = 0, !.slot = a]
  <2>5. o.slot = a /\ o.pc = op[x].pc /\ o.issued = op[x].issued /\ o.exc = op[x].exc
    BY <2>3 DEF Fields
  <2> HIDE DEF o
  <2>6. a => InsnOf(x).k \in Control
    BY <2>1 DEF Control
  <2>7. Controlled(op[x])
    BY <2>3
  <2>8. Controlled(o)
    BY <2>4, <2>5, <2>6, <2>7 DEF Controlled, InsnOf
  <2> QED
    BY <1>0, <2>2, <2>8, ControlledOneOp DEF o
<1>3. CASE ExecuteOne
  <2>1. PICK x, v, w : v = Sources(x) /\ ExecuteSays(x, v, w)
    BY <1>0, <1>3, ExecuteData
  <2>2. PICK lat : op'[x] = Executed(x, v, lat)
    BY <2>1 DEF ExecuteSays
  <2>3. x \in Elems(rob) /\ ~ op[x].issued /\ x \in Live /\ DOMAIN op[x] = Fields
    BY <1>0, <2>1, LoadsLive, LiveFields DEF ExecuteSays
  <2>4. ~ op[x].exc
    BY <1>0, <2>3 DEF WindowInv, Unissued
  <2> DEFINE e == Executed(x, v, lat)
  <2>5. FlowsFrom(e, op[x], InsnOf(x), v)
    BY <2>3, <2>4, ExecutedFlow
  <2>6. Controlled(op[x])
    BY <2>3
  <2> HIDE DEF e
  <2>7. InsnAt(e.pc) = InsnOf(x)
    BY <2>5 DEF FlowsFrom, InsnOf
  <2>8. InsnOf(x).k \in Jumps => e.target \in Word /\ (~ e.exc => e.npc = e.target)
    <3>1. InsnOf(x).k \in Jumps => JumpTarget(InsnOf(x), v) \in Word
      BY <2>1, <2>3, JumpWord DEF Control
    <3> QED
      BY <2>5, <3>1 DEF FlowsFrom
  <2>9. InsnOf(x).k \in Branches => BranchResolved(InsnOf(x), e)
    <3> SUFFICES ASSUME InsnOf(x).k \in Branches PROVE BranchResolved(InsnOf(x), e)
      OBVIOUS
    <3>1. BranchTarget(InsnOf(x), op[x].pc) \in Word /\ Unsigned(op[x].pc + 8) \in Word
      BY <2>3, JumpWord DEF Control
    <3>2. PICK b \in BOOLEAN :
             /\ e.target = IF b THEN BranchTarget(InsnOf(x), op[x].pc) ELSE Unsigned(op[x].pc + 8)
             /\ e.slot <=> b \/ InsnOf(x).k \notin Likely
             /\ ~ e.exc => op[x].taken = b
                           /\ (~ b /\ InsnOf(x).k \in Likely => op[x].npc = Unsigned(op[x].pc + 8))
      BY <2>5 DEF FlowsFrom
    <3>3. e.pc = op[x].pc /\ e.npc = op[x].npc /\ e.taken = op[x].taken
      BY <2>5 DEF FlowsFrom
    <3>4. CASE b
      BY <3>1, <3>2, <3>3, <3>4 DEF BranchResolved
    <3>5. CASE ~ b
      BY <3>1, <3>2, <3>3, <3>5 DEF BranchResolved
    <3> QED
      BY <3>4, <3>5
  <2>10. e.slot => InsnOf(x).k \in Control
    BY <2>5, <2>6 DEF FlowsFrom, Controlled, InsnOf, Control
  <2>11. e.exc => InsnOf(x).k \in Control \cup {"monitor"}
    BY <2>5 DEF FlowsFrom
  <2>12. Controlled(e)
    BY <2>7, <2>8, <2>9, <2>10, <2>11 DEF Controlled, Resolved
  <2>13. op' = [op EXCEPT ![x] = e]
    BY <2>1, <2>2 DEF ExecuteSays, e
  <2> QED
    BY <1>0, <2>12, <2>13, ControlledOneOp
<1>4. CASE ~ (FetchSlot \/ FetchInsn \/ DecodeOne \/ ExecuteOne)
  BY <1>0, <1>4, FlowKept, ControlledKept, StepKinds DEF QuietStep, QuietFront, WindowInv
<1> QED
  BY <1>1, <1>2, <1>3, <1>4

(* Past decode() operations only move on, or leave.                        *)
LEMMA BackKept ==
    ASSUME WindowInv, MarkInv,
           \/ AllocateOne \/ CompleteOne \/ CacheTick \/ NextCycle \/ RetireStep \/ Nuke \/ RecoverySleep
           \/ QuietRetire \/ ThreadYield \/ Terminated \/ UNCHANGED vars
    PROVE  Elems(rob') \cup Elems(decode_queue') \subseteq Elems(rob) \cup Elems(decode_queue)
<1>1. CASE AllocateOne
  <2>1. rob' = Append(rob, Head(decode_queue)) /\ decode_queue' = Tail(decode_queue) /\ decode_queue # <<>>
    BY <1>1 DEF AllocateOne, AllocateMore
  <2>2. /\ Head(decode_queue) \in Elems(decode_queue) /\ Head(decode_queue) \in Ids
        /\ Elems(Tail(decode_queue)) \subseteq Elems(decode_queue)
    BY <2>1, TailElems, QueuesLive DEF WindowInv, Shape
  <2>3. Elems(Append(rob, Head(decode_queue))) = Elems(rob) \cup {Head(decode_queue)}
    BY <2>2, AppendElems DEF WindowInv, Shape
  <2> QED
    BY <2>1, <2>2, <2>3
<1>2. CASE RetireStep
  <2>1. PICK x : x = Head(rob) /\ rob # <<>> /\ rob' = Tail(rob) /\ RetireOp(x)
    BY <1>2, RetireHead, RetireData
  <2>2. decode_queue' = decode_queue
    BY <2>1 DEF RetireOp
  <2>3. Elems(Tail(rob)) \subseteq Elems(rob)
    BY <2>1, TailElems DEF WindowInv, Shape
  <2> QED
    BY <2>1, <2>2, <2>3
<1>3. CASE Nuke \/ RecoverySleep
  <2>1. rob' = <<>>
    BY <1>3, RecoveryData
  <2>2. decode_queue' \in {<<>>, decode_queue}
    BY <1>3 DEF Nuke, RecoverySleep, ClearWindow
  <2>3. Elems(<<>>) = {}
    BY DEF Elems
  <2> QED
    BY <2>1, <2>2, <2>3
<1>4. CASE CompleteOne \/ CacheTick \/ NextCycle \/ QuietRetire \/ ThreadYield \/ Terminated \/ UNCHANGED vars
  <2>1. UNCHANGED <<rob, decode_queue>>
    <3>1. CASE QuietRetire
      BY <3>1 DEF QuietRetire, RetireIdle, RetireException, RetireWaitSlot, ExceptionBegin,
         ExceptionWaitSlot, DelaySlotException, RetireEnd, RetireMoves, queueVars
    <3>2. CASE CompleteOne \/ CacheTick \/ NextCycle \/ ThreadYield \/ Terminated \/ UNCHANGED vars
      BY <3>2 DEF CompleteOne, CacheTick, NextCycle, ThreadYield, Terminated, vars, queueVars
    <3> QED
      BY <1>4, <3>1, <3>2
  <2> QED
    BY <2>1
<1> QED
  BY <1>1, <1>2, <1>3, <1>4

(* The back end holds live operations.                                     *)
LEMMA BackLive == WindowInv => Elems(rob) \cup Elems(decode_queue) \subseteq Live
BY QueuesLive DEF WindowInv

(* Every step keeps the jumps marked.                                      *)
LEMMA NextJumps ==
    ASSUME TypeInv, WindowInv', \A y \in Live : Controlled(op[y]), JumpsMarked, [Next]_vars
    PROVE  JumpsMarked'
<1>0. WindowInv /\ MarkInv
  BY DEF TypeInv
<1>1. Elems(rob) \cup Elems(decode_queue) \subseteq Live /\ Elems(fetch_queue) \subseteq Live /\ Live \subseteq Ids
  BY <1>0, QueuesLive DEF WindowInv
<1>2. Elems(rob') \cup Elems(decode_queue') \subseteq Live'
  <2>1. (WindowInv => Elems(rob) \cup Elems(decode_queue) \subseteq Live)'
    BY BackLive, PTL
  <2> QED
    BY <2>1 DEF Elems
<1>3. JumpsMarked' <=> \A y \in Elems(rob') \cup Elems(decode_queue') :
                          InsnAt(op'[y].pc).k \in Jumps => op'[y].slot
  BY DEF JumpsMarked, InsnOf, Elems
<1>4. SUFFICES ASSUME NEW y \in Elems(rob') \cup Elems(decode_queue'), InsnAt(op'[y].pc).k \in Jumps
               PROVE  op'[y].slot
  BY <1>3
<1>5. ASSUME y \in Elems(rob) \cup Elems(decode_queue), op'[y].pc = op[y].pc, op'[y].slot = op[y].slot
      PROVE  op'[y].slot
  BY <1>4, <1>5 DEF JumpsMarked, InsnOf
<1>6. CASE FetchSlot \/ FetchInsn
  <2>1. PICK pc, npc, taken : FetchMore /\ PushFetch(pc, npc, taken)
    BY <1>6 DEF FetchSlot, FetchInsn
  <2>2. y \in Elems(rob) \cup Elems(decode_queue)
    BY <1>4, <2>1 DEF PushFetch
  <2>3. y # FreeId
    BY <1>0, <1>1, <2>1, <2>2, FreeIdFresh DEF FetchMore, WindowInv
  <2>4. op'[y] = op[y]
    BY <1>1, <2>1, <2>2, <2>3 DEF PushFetch, WindowInv, Shape
  <2> QED
    BY <1>5, <2>2, <2>4
<1>7. CASE DecodeOne
  <2>1. PICK x, a : op' = [op EXCEPT ![x].age = 0, ![x].slot = a] /\ x = Head(fetch_queue)
                    /\ a = (InsnOf(x).k \in Jumps)
    BY <1>7 DEF DecodeOne
  <2>2. op' = [op EXCEPT ![x] = [op[x] EXCEPT !.age = 0, !.slot = a]]
    BY <2>1
  <2>3. fetch_queue # <<>> /\ rob' = rob /\ decode_queue' = Append(decode_queue, x)
    BY <1>7, <2>1 DEF DecodeOne, DecodeMore
  <2>4. x \in Elems(fetch_queue) /\ x \in Live /\ DOMAIN op[x] = Fields
    BY <1>0, <2>1, <2>3, TailElems, QueuesLive, LiveFields DEF WindowInv, Shape
  <2>5. Elems(decode_queue') = Elems(decode_queue) \cup {x}
    <3>1. x \in Ids /\ decode_queue \in Seq(Ids)
      BY <1>0, <1>1, <2>4 DEF WindowInv, Shape
    <3> QED
      BY <2>3, <3>1, AppendElems
  <2>6. CASE y = x
    <3>1. op'[x].pc = op[x].pc /\ op'[x].slot = a
      BY <1>0, <1>1, <2>2, <2>4 DEF Fields, WindowInv, Shape
    <3> QED
      BY <1>4, <2>1, <2>6, <3>1 DEF InsnOf
  <2>7. CASE y # x
    <3>1. y \in Elems(rob) \cup Elems(decode_queue)
      BY <1>4, <2>3, <2>5, <2>7
    <3>2. op'[y] = op[y]
      BY <1>0, <1>1, <2>2, <2>7, <3>1, OneOp
    <3> QED
      BY <1>5, <3>1, <3>2
  <2> QED
    BY <2>6, <2>7
<1>8. CASE ExecuteOne
  <2>1. PICK x, v, w : v = Sources(x) /\ ExecuteSays(x, v, w)
    BY <1>0, <1>8, ExecuteData
  <2>2. PICK lat : op'[x] = Executed(x, v, lat)
    BY <2>1 DEF ExecuteSays
  <2>3. x \in Elems(rob) /\ ~ op[x].issued /\ x \in Live /\ DOMAIN op[x] = Fields
    BY <1>0, <2>1, LoadsLive, LiveFields DEF ExecuteSays
  <2>4. ~ op[x].exc
    BY <1>0, <2>3 DEF WindowInv, Unissued
  <2>5. FlowsFrom(op'[x], op[x], InsnOf(x), v)
    BY <2>2, <2>3, <2>4, ExecutedFlow
  <2>6. y \in Elems(rob) \cup Elems(decode_queue)
    BY <1>4, <1>8 DEF ExecuteOne, queueVars
  <2>7. CASE y = x
    <3>1. op'[x].pc = op[x].pc
      BY <2>5 DEF FlowsFrom
    <3>2. InsnOf(x).k \notin Branches
      BY <1>4, <2>7, <3>1, ControlKinds DEF InsnOf
    <3>3. op'[x].slot = op[x].slot
      BY <2>5, <3>2 DEF FlowsFrom
    <3> QED
      BY <1>5, <2>6, <2>7, <3>1, <3>3
  <2>8. CASE y # x
    <3>1. op'[y] = op[y]
      <4>1. PICK e : op' = [op EXCEPT ![x] = e]
        BY <2>1 DEF ExecuteSays
      <4> QED
        BY <1>0, <1>1, <2>6, <2>8, <4>1, OneOp
    <3> QED
      BY <1>5, <2>6, <3>1
  <2> QED
    BY <2>7, <2>8
<1>9. CASE ~ (FetchSlot \/ FetchInsn \/ DecodeOne \/ ExecuteOne)
  <2>1. y \in Elems(rob) \cup Elems(decode_queue)
    BY <1>0, <1>4, <1>9, BackKept, StepKinds DEF QuietStep, QuietFront
  <2>2. Keeps(y, FlowFields)
    BY <1>0, <1>2, <1>4, <1>9, FlowKept, StepKinds DEF QuietStep, QuietFront
  <2> QED
    BY <1>5, <2>1, <2>2 DEF Keeps, FlowFields
<1> QED
  BY <1>6, <1>7, <1>8, <1>9

(* What retired branches have left: their targets.                         *)
TargetsInv ==
    \A a \in DOMAIN branch_target_map :
        /\ InsnAt(a).k \in Control
        /\ InsnAt(a).k \in Branches => branch_target_map[a] = BranchTarget(InsnAt(a), a)

(* Retirement adds branches and jumps.                                     *)
LEMMA NextTargets ==
    ASSUME WindowInv, MarkInv, TargetsInv, [Next]_vars
    PROVE  TargetsInv'
<1>1. CASE branch_target_map' = branch_target_map
  BY <1>1 DEF TargetsInv
<1>2. CASE RetireStep
  <2>1. PICK x : x = Head(rob) /\ RetireOp(x)
    BY <1>2, RetireHead
  <2>2. CASE SigOf(x).cls = "jmp"
    <3>1. PICK o, i : o = op[x] /\ i = InsnOf(x)
      OBVIOUS
    <3>2. branch_target_map' = [a \in DOMAIN branch_target_map \cup {o.pc} |->
                        IF a # o.pc THEN branch_target_map[a]
                        ELSE IF i.k \in Branches THEN BranchTarget(i, a) ELSE o.target]
      BY <2>1, <2>2, <3>1 DEF RetireOp
    <3>3. i = InsnAt(o.pc) /\ i.k \in Control
      BY <2>2, <3>1, ControlKinds DEF SigOf, InsnOf
    <3> QED
      BY <3>2, <3>3 DEF TargetsInv
  <2>3. CASE SigOf(x).cls # "jmp"
    BY <1>1, <2>1, <2>3 DEF RetireOp
  <2> QED
    BY <2>2, <2>3
<1>3. CASE ~ RetireStep
  BY <1>1, <1>3, StepKinds, QuietData, AllocateData, ExecuteData, CompleteData, RecoveryData
<1> QED
  BY <1>2, <1>3

-----------------------------------------------------------------------------
(* The path that is fetched                                                *)

(* The address after a branch or a jump.                                   *)
InSlot(b) == \E a \in DOMAIN Program : Program[a].k \in Control /\ b = Unsigned(a + 4)

(* No delay slot holds a branch, a jump, a break or a host call, and none  *)
(* is at address 0, which delay_slot_npc uses for none.                    *)
PlainSlots ==
    \A a \in DOMAIN Program : Program[a].k \in Control =>
        /\ Unsigned(a + 4) # 0
        /\ InsnAt(Unsigned(a + 4)).k \notin Control \cup {"break", "monitor"}

(* o was fetched with fetch_pc f and delay_slot_npc d, and left g and e.   *)
FetchedAt(o, f, d, g, e) ==
    \/ d # 0 /\ o.pc = d /\ g = f /\ e = 0
    \/ /\ d = 0 /\ o.pc = f /\ g = o.npc /\ e \in {0, Unsigned(f + 4)}
       /\ e = 0 => o.npc = Unsigned(f + 4)
       /\ InsnAt(o.pc).k \notin Control => e = 0
       /\ InsnAt(o.pc).k \in Branches =>
            (o.taken <=> e # 0) /\ (o.taken => o.npc = BranchTarget(InsnAt(o.pc), f))
       /\ InsnAt(o.pc).k \in {"j", "jal", "jr"} => e # 0

(* F and D are what fetch_pc and delay_slot_npc were before each operation *)
(* of s was fetched, and after the last one.                               *)
Linked(s, O, F, D) ==
    /\ \A j \in 1 .. Len(s) : FetchedAt(O[s[j]], F[j], D[j], F[j + 1], D[j + 1])
    /\ \A j \in 1 .. Len(s) + 1 : D[j] # 0 => InSlot(D[j])

(* A program at p continues with what is fetched from f and d.             *)
Fits(p, f, d) ==
    IF p.pend = -1 THEN f = p.pc /\ d = 0
    ELSE \/ f = p.pend /\ d = p.pc
         \/ f = p.pc /\ d = 0 /\ p.pend = Unsigned(p.pc + 4)

(* A program at p is fetched with s, then from f and d.                    *)
Streamed(s, O, p, f, d) ==
    \E F, D : /\ Linked(s, O, F, D)
              /\ Fits(p, F[1], D[1])
              /\ F[Len(s) + 1] = f /\ D[Len(s) + 1] = d

(* Only the addresses and the prediction of an operation count.            *)
SameFetch(e, o) == e.pc = o.pc /\ e.npc = o.npc /\ e.taken = o.taken

(* The same addresses and prediction were fetched alike.                   *)
LEMMA FetchedSame ==
    ASSUME NEW o, NEW o2, SameFetch(o2, o), NEW f, NEW d, NEW g, NEW e, FetchedAt(o, f, d, g, e)
    PROVE  FetchedAt(o2, f, d, g, e)
BY DEF FetchedAt, SameFetch

(* What changes no address and no prediction leaves the stream alone.      *)
LEMMA StreamedKept ==
    ASSUME NEW S, NEW s \in Seq(S), NEW O, NEW O2, \A x \in Elems(s) : SameFetch(O2[x], O[x]),
           NEW p, NEW f, NEW d, Streamed(s, O, p, f, d)
    PROVE  Streamed(s, O2, p, f, d)
<1>1. PICK F, D : Linked(s, O, F, D) /\ Fits(p, F[1], D[1]) /\ F[Len(s) + 1] = f /\ D[Len(s) + 1] = d
  BY DEF Streamed
<1>2. ASSUME NEW j \in 1 .. Len(s) PROVE FetchedAt(O2[s[j]], F[j], D[j], F[j + 1], D[j + 1])
  <2>1. FetchedAt(O[s[j]], F[j], D[j], F[j + 1], D[j + 1])
    BY <1>1 DEF Linked
  <2>2. SameFetch(O2[s[j]], O[s[j]])
    BY DEF Elems
  <2> QED
    BY <2>1, <2>2, FetchedSame
<1>3. Linked(s, O2, F, D)
  BY <1>1, <1>2 DEF Linked
<1> QED
  BY <1>1, <1>3 DEF Streamed

(* One more operation was fetched.                                         *)
LEMMA StreamedAppend ==
    ASSUME NEW S, NEW s \in Seq(S), NEW x \in S, NEW O, NEW O2,
           \A y \in Elems(s) : SameFetch(O2[y], O[y]),
           NEW p, NEW f, NEW d, NEW g, NEW e, Streamed(s, O, p, f, d),
           FetchedAt(O2[x], f, d, g, e), e # 0 => InSlot(e)
    PROVE  Streamed(Append(s, x), O2, p, g, e)
<1>0. Streamed(s, O2, p, f, d)
  BY StreamedKept
<1>1. PICK F, D : Linked(s, O2, F, D) /\ Fits(p, F[1], D[1]) /\ F[Len(s) + 1] = f /\ D[Len(s) + 1] = d
  BY <1>0 DEF Streamed
<1> DEFINE n == Len(s)
           t == Append(s, x)
           G == [j \in 1 .. n + 2 |-> IF j = n + 2 THEN g ELSE F[j]]
           E == [j \in 1 .. n + 2 |-> IF j = n + 2 THEN e ELSE D[j]]
<1>2. n \in Nat /\ Len(t) = n + 1 /\ t[n + 1] = x /\ \A j \in 1 .. n : t[j] = s[j]
  OBVIOUS
<1> HIDE DEF n, t
<1>3. /\ \A j \in 1 .. n + 1 : G[j] = F[j] /\ E[j] = D[j]
      /\ G[n + 2] = g /\ E[n + 2] = e
  BY <1>2
<1> HIDE DEF G, E
<1>4. ASSUME NEW j \in 1 .. n PROVE FetchedAt(O2[t[j]], G[j], E[j], G[j + 1], E[j + 1])
  <2>1. FetchedAt(O2[s[j]], F[j], D[j], F[j + 1], D[j + 1])
    BY <1>1 DEF Linked, n
  <2>2. j \in 1 .. n + 1 /\ j + 1 \in 1 .. n + 1
    BY <1>2
  <2>3. G[j] = F[j] /\ E[j] = D[j] /\ G[j + 1] = F[j + 1] /\ E[j + 1] = D[j + 1] /\ t[j] = s[j]
    BY <1>2, <1>3, <2>2
  <2> QED
    BY <2>1, <2>3
<1>5. FetchedAt(O2[t[n + 1]], G[n + 1], E[n + 1], G[n + 1 + 1], E[n + 1 + 1])
  <2>1. n + 1 \in 1 .. n + 1 /\ n + 1 + 1 = n + 2
    BY <1>2
  <2>2. G[n + 1] = f /\ E[n + 1] = d
    BY <1>1, <1>3, <2>1 DEF n
  <2> QED
    BY <1>2, <1>3, <2>1, <2>2
<1>6. \A j \in 1 .. Len(t) : FetchedAt(O2[t[j]], G[j], E[j], G[j + 1], E[j + 1])
  <2>1. \A j \in 1 .. Len(t) : j \in 1 .. n \/ j = n + 1
    BY <1>2
  <2> QED
    BY <1>4, <1>5, <2>1
<1>7. \A j \in 1 .. Len(t) + 1 : E[j] # 0 => InSlot(E[j])
  <2>1. \A j \in 1 .. Len(t) + 1 : j \in 1 .. n + 1 \/ j = n + 2
    BY <1>2
  <2>2. \A j \in 1 .. n + 1 : D[j] # 0 => InSlot(D[j])
    BY <1>1 DEF Linked, n
  <2> QED
    BY <1>3, <2>1, <2>2
<1>8. Linked(t, O2, G, E)
  BY <1>6, <1>7 DEF Linked
<1>9. Fits(p, G[1], E[1])
  BY <1>1, <1>2, <1>3
<1>10. Len(t) + 1 = n + 2
  BY <1>2
<1>11. G[Len(t) + 1] = g /\ E[Len(t) + 1] = e
  BY <1>3, <1>10
<1>12. Streamed(t, O2, p, g, e)
  BY <1>8, <1>9, <1>11 DEF Streamed
<1> QED
  BY <1>12 DEF t

(* The oldest operation has left.                                          *)
LEMMA StreamedTail ==
    ASSUME NEW S, NEW s \in Seq(S), s # <<>>, NEW O, NEW O2,
           \A y \in Elems(Tail(s)) : SameFetch(O2[y], O[y]),
           NEW F, NEW D, Linked(s, O, F, D), NEW q, Fits(q, F[2], D[2])
    PROVE  Streamed(Tail(s), O2, q, F[Len(s) + 1], D[Len(s) + 1])
<1> DEFINE n == Len(s)
           t == Tail(s)
           G == [j \in 1 .. n |-> F[j + 1]]
           E == [j \in 1 .. n |-> D[j + 1]]
<1>1. n \in Nat /\ n >= 1 /\ Len(t) = n - 1 /\ t \in Seq(S) /\ \A j \in 1 .. n - 1 : t[j] = s[j + 1]
  OBVIOUS
<1> HIDE DEF n, t
<1>2. \A j \in 1 .. n : G[j] = F[j + 1] /\ E[j] = D[j + 1]
  OBVIOUS
<1> HIDE DEF G, E
<1>3. ASSUME NEW j \in 1 .. Len(t) PROVE FetchedAt(O[t[j]], G[j], E[j], G[j + 1], E[j + 1])
  <2>1. j \in 1 .. n /\ j + 1 \in 1 .. n /\ t[j] = s[j + 1]
    BY <1>1
  <2>2. FetchedAt(O[s[j + 1]], F[j + 1], D[j + 1], F[j + 1 + 1], D[j + 1 + 1])
    BY <2>1 DEF Linked, n
  <2>3. G[j] = F[j + 1] /\ E[j] = D[j + 1] /\ G[j + 1] = F[j + 1 + 1] /\ E[j + 1] = D[j + 1 + 1]
    BY <1>2, <2>1
  <2> QED
    BY <2>1, <2>2, <2>3
<1>4. ASSUME NEW j \in 1 .. Len(t) + 1, E[j] # 0 PROVE InSlot(E[j])
  <2>1. j \in 1 .. n /\ j + 1 \in 1 .. n + 1
    BY <1>1
  <2>2. E[j] = D[j + 1]
    BY <1>2, <2>1
  <2> QED
    BY <1>4, <2>1, <2>2 DEF Linked, n
<1>5. Linked(t, O, G, E)
  BY <1>3, <1>4 DEF Linked
<1>6. G[1] = F[2] /\ E[1] = D[2]
  <2>1. 1 \in 1 .. n /\ 1 + 1 = 2
    BY <1>1
  <2> QED
    BY <1>2, <2>1
<1>7. G[Len(t) + 1] = F[n + 1] /\ E[Len(t) + 1] = D[n + 1]
  <2>1. n \in 1 .. n /\ Len(t) + 1 = n
    BY <1>1
  <2> QED
    BY <1>2, <2>1
<1>8. Streamed(t, O, q, F[n + 1], D[n + 1])
  BY <1>5, <1>6, <1>7 DEF Streamed
<1>9. Streamed(t, O2, q, F[n + 1], D[n + 1])
  BY <1>1, <1>8, StreamedKept DEF t
<1> QED
  BY <1>9 DEF t, n

(* An empty window.                                                        *)
LEMMA StreamedEmpty ==
    ASSUME NEW O, NEW p, p.pend = -1 PROVE Streamed(<<>>, O, p, p.pc, 0)
<1> DEFINE F == [j \in {1} |-> p.pc]
           D == [j \in {1} |-> 0]
<1>1. F[1] = p.pc /\ D[1] = 0 /\ Len(<<>>) = 0
  OBVIOUS
<1> HIDE DEF F, D
<1>2. Linked(<<>>, O, F, D)
  BY <1>1 DEF Linked
<1> QED
  BY <1>1, <1>2 DEF Streamed, Fits

(* A delay slot is plain.                                                  *)
LEMMA SlotPlain ==
    ASSUME PlainSlots, NEW b, InSlot(b)
    PROVE  b # 0 /\ InsnAt(b).k \notin Control \cup {"break", "monitor"}
BY DEF PlainSlots, InSlot

(* The window as the program order of what was fetched (see Stream).       *)
InOrderOf(s, O, p) ==
    /\ s # <<>> => O[s[1]].pc = p.pc
    /\ \A j \in 2 .. Len(s) :
        \/ O[s[j]].pc = Unsigned(O[s[j - 1]].pc + 4)
        \/ j = 2 /\ O[s[j]].pc = p.pend
        \/ /\ j > 2 /\ O[s[j - 1]].pc = Unsigned(O[s[j - 2]].pc + 4)
           /\ O[s[j]].pc = O[s[j - 2]].npc
    /\ \A j \in 1 .. Len(s) - 1 :
        O[s[j]].slot => O[s[j + 1]].pc = Unsigned(O[s[j]].pc + 4)

LEMMA StreamedInOrder ==
    ASSUME PlainSlots, NEW S, NEW s \in Seq(S), NEW O, NEW p, NEW f, NEW d, Streamed(s, O, p, f, d),
           p.pend # -1 => InSlot(p.pc),
           \A x \in Elems(s) : O[x].slot => InsnAt(O[x].pc).k \in Control
    PROVE  InOrderOf(s, O, p)
<1>1. PICK F, D : Linked(s, O, F, D) /\ Fits(p, F[1], D[1])
  BY DEF Streamed
<1>2. \A j \in 1 .. Len(s) + 1 : D[j] # 0 => InSlot(D[j])
  BY <1>1 DEF Linked
<1>3. \A j \in 1 .. Len(s) : FetchedAt(O[s[j]], F[j], D[j], F[j + 1], D[j + 1])
  BY <1>1 DEF Linked
<1>4. ASSUME s # <<>> PROVE O[s[1]].pc = p.pc
  <2>1. 1 \in 1 .. Len(s)
    BY <1>4
  <2>2. FetchedAt(O[s[1]], F[1], D[1], F[1 + 1], D[1 + 1])
    BY <1>3, <2>1
  <2>3. p.pend # -1 => p.pc # 0
    BY SlotPlain
  <2> QED
    BY <1>1, <2>2, <2>3 DEF FetchedAt, Fits
<1>5. ASSUME NEW j \in 2 .. Len(s)
      PROVE  \/ O[s[j]].pc = Unsigned(O[s[j - 1]].pc + 4)
             \/ j = 2 /\ O[s[j]].pc = p.pend
             \/ /\ j > 2 /\ O[s[j - 1]].pc = Unsigned(O[s[j - 2]].pc + 4)
                /\ O[s[j]].pc = O[s[j - 2]].npc
  <2>1. j \in 1 .. Len(s) /\ j - 1 \in 1 .. Len(s) /\ (j - 1) + 1 = j /\ j \in Int
    OBVIOUS
  <2>2. FetchedAt(O[s[j]], F[j], D[j], F[j + 1], D[j + 1])
    BY <1>3, <2>1
  <2>3. FetchedAt(O[s[j - 1]], F[j - 1], D[j - 1], F[j], D[j])
    BY <1>3, <2>1
  <2>4. CASE D[j - 1] = 0
    <3>1. O[s[j]].pc = Unsigned(O[s[j - 1]].pc + 4)
      BY <2>2, <2>3, <2>4 DEF FetchedAt
    <3> QED
      BY <3>1
  <2>5. CASE D[j - 1] # 0
    <3>1. O[s[j]].pc = F[j - 1]
      BY <2>2, <2>3, <2>5 DEF FetchedAt
    <3>2. CASE j = 2
      <4>1. j - 1 = 1
        BY <3>2
      <4>2. F[1] = p.pend
        BY <1>1, <2>5, <4>1 DEF Fits
      <4> QED
        BY <3>1, <3>2, <4>1, <4>2
    <3>3. CASE j # 2
      <4>1. j - 2 \in 1 .. Len(s) /\ (j - 2) + 1 = j - 1 /\ j > 2
        BY <3>3
      <4>2. FetchedAt(O[s[j - 2]], F[j - 2], D[j - 2], F[j - 1], D[j - 1])
        BY <1>3, <4>1
      <4>3. O[s[j - 1]].pc = D[j - 1]
        BY <2>3, <2>5 DEF FetchedAt
      <4>4. D[j - 1] = Unsigned(O[s[j - 2]].pc + 4) /\ F[j - 1] = O[s[j - 2]].npc
        BY <2>5, <4>2 DEF FetchedAt
      <4> QED
        BY <3>1, <4>1, <4>3, <4>4
    <3> QED
      BY <3>2, <3>3
  <2> QED
    BY <2>4, <2>5
<1>6. ASSUME NEW j \in 1 .. Len(s) - 1, O[s[j]].slot
      PROVE  O[s[j + 1]].pc = Unsigned(O[s[j]].pc + 4)
  <2>1. j \in 1 .. Len(s) /\ j + 1 \in 1 .. Len(s)
    OBVIOUS
  <2>2. FetchedAt(O[s[j]], F[j], D[j], F[j + 1], D[j + 1])
    BY <1>3, <2>1
  <2>3. FetchedAt(O[s[j + 1]], F[j + 1], D[j + 1], F[j + 1 + 1], D[j + 1 + 1])
    BY <1>3, <2>1
  <2>4. InsnAt(O[s[j]].pc).k \in Control
    BY <1>6, <2>1 DEF Elems
  <2>5. D[j] = 0
    <3>1. SUFFICES ASSUME D[j] # 0 PROVE FALSE
      OBVIOUS
    <3>2. O[s[j]].pc = D[j]
      BY <2>2, <3>1 DEF FetchedAt
    <3>3. j \in 1 .. Len(s) + 1
      BY <2>1
    <3>4. InSlot(D[j])
      BY <1>2, <3>1, <3>3
    <3> QED
      BY <2>4, <3>2, <3>4, SlotPlain
  <2> QED
    BY <2>2, <2>3, <2>5 DEF FetchedAt
<1> QED
  BY <1>4, <1>5, <1>6 DEF InOrderOf

(* The elements of a concatenation.                                        *)
LEMMA QueueElems ==
    ASSUME NEW S, NEW a \in Seq(S), NEW b \in Seq(S), NEW c \in Seq(S)
    PROVE  a \o b \o c \in Seq(S) /\ Elems(a \o b \o c) = Elems(a) \cup Elems(b) \cup Elems(c)
<1>1. a \o b \o c \in Seq(S)
  OBVIOUS
<1> DEFINE m == Len(a)
           n == Len(b)
           k == Len(c)
           w == a \o b \o c
<1>2. /\ m \in Nat /\ n \in Nat /\ k \in Nat /\ Len(w) = m + n + k
      /\ \A j \in 1 .. m : w[j] = a[j]
      /\ \A j \in m + 1 .. m + n : w[j] = b[j - m]
      /\ \A j \in m + n + 1 .. m + n + k : w[j] = c[j - m - n]
  OBVIOUS
<1>3. Elems(w) = Elems(a) \cup Elems(b) \cup Elems(c)
  <2>1. DOMAIN w = 1 .. m + n + k /\ DOMAIN a = 1 .. m /\ DOMAIN b = 1 .. n /\ DOMAIN c = 1 .. k
    BY <1>1, <1>2
  <2> HIDE DEF w, m, n, k
  <2>2. \A j \in DOMAIN w : w[j] \in Elems(a) \cup Elems(b) \cup Elems(c)
    <3>1. SUFFICES ASSUME NEW j \in DOMAIN w PROVE w[j] \in Elems(a) \cup Elems(b) \cup Elems(c)
      OBVIOUS
    <3>2. \/ j \in 1 .. m
          \/ j \in m + 1 .. m + n /\ j - m \in 1 .. n
          \/ j \in m + n + 1 .. m + n + k /\ j - m - n \in 1 .. k
      BY <1>2, <2>1
    <3> QED
      BY <1>2, <2>1, <3>2 DEF Elems
  <2>3. \A j \in DOMAIN a : a[j] \in Elems(w)
    <3>1. \A j \in 1 .. m : j \in 1 .. m + n + k
      BY <1>2
    <3> QED
      BY <1>2, <2>1, <3>1 DEF Elems
  <2>4. \A j \in DOMAIN b : b[j] \in Elems(w)
    <3>1. SUFFICES ASSUME NEW j \in 1 .. n PROVE b[j] \in Elems(w)
      BY <2>1
    <3>2. m + j \in 1 .. m + n + k /\ m + j \in m + 1 .. m + n /\ (m + j) - m = j
      BY <1>2
    <3>3. w[m + j] = b[j]
      BY <1>2, <3>2
    <3> QED
      BY <2>1, <3>2, <3>3 DEF Elems
  <2>5. \A j \in DOMAIN c : c[j] \in Elems(w)
    <3>1. SUFFICES ASSUME NEW j \in 1 .. k PROVE c[j] \in Elems(w)
      BY <2>1
    <3>2. m + n + j \in 1 .. m + n + k /\ m + n + j \in m + n + 1 .. m + n + k /\ (m + n + j) - m - n = j
      BY <1>2
    <3>3. w[m + n + j] = c[j]
      BY <1>2, <3>2
    <3> QED
      BY <2>1, <3>2, <3>3 DEF Elems
  <2> QED
    BY <2>2, <2>3, <2>4, <2>5 DEF Elems
<1> QED
  BY <1>1, <1>3

(* What is fetched is last.                                                *)
LEMMA QueueFetch ==
    ASSUME NEW S, NEW a \in Seq(S), NEW b \in Seq(S), NEW c \in Seq(S), NEW x \in S
    PROVE  a \o b \o Append(c, x) = Append(a \o b \o c, x)
<1>1. a \o b \in Seq(S) /\ <<x>> \in Seq(S)
  OBVIOUS
<1>2. (a \o b) \o (c \o <<x>>) = ((a \o b) \o c) \o <<x>>
  BY <1>1, ConcatAssociative
<1>3. Append(c, x) = c \o <<x>>
  BY AppendIsConcat
<1>4. Append((a \o b) \o c, x) = ((a \o b) \o c) \o <<x>>
  <2>1. (a \o b) \o c \in Seq(S)
    BY <1>1
  <2> QED
    BY <2>1, AppendIsConcat
<1> QED
  BY <1>2, <1>3, <1>4

(* What moves from one queue to the next stays in its place.               *)
LEMMA QueueMove ==
    ASSUME NEW S, NEW a \in Seq(S), NEW b \in Seq(S), b # <<>>
    PROVE  Append(a, Head(b)) \o Tail(b) = a \o b
<1>1. b = <<Head(b)>> \o Tail(b) /\ Head(b) \in S /\ Tail(b) \in Seq(S)
  BY HeadTailAppend
<1>2. Append(a, Head(b)) = a \o <<Head(b)>>
  BY <1>1, AppendIsConcat
<1>3. (a \o <<Head(b)>>) \o Tail(b) = a \o (<<Head(b)>> \o Tail(b))
  BY <1>1, ConcatAssociative
<1> QED
  BY <1>1, <1>2, <1>3

(* What leaves was first.                                                  *)
LEMMA QueueLeave ==
    ASSUME NEW S, NEW a \in Seq(S), NEW b \in Seq(S), a # <<>>
    PROVE  a \o b # <<>> /\ (a \o b)[1] = Head(a) /\ Tail(a) \o b = Tail(a \o b)
<1>1. a = <<Head(a)>> \o Tail(a) /\ Head(a) \in S /\ Tail(a) \in Seq(S)
  BY HeadTailAppend
<1>2. Len(a) \in Nat /\ Len(a) >= 1 /\ Len(a \o b) = Len(a) + Len(b) /\ (a \o b)[1] = a[1]
  OBVIOUS
<1>3. a \o b # <<>> /\ (a \o b)[1] = Head(a)
  BY <1>2
<1> DEFINE y == Tail(a) \o b
<1>4. y \in Seq(S)
  BY <1>1
<1>5. (<<Head(a)>> \o Tail(a)) \o b = <<Head(a)>> \o y
  BY <1>1, ConcatAssociative
<1> HIDE DEF y
<1>6. Tail(<<Head(a)>> \o y) = y
  BY <1>1, <1>4
<1> QED
  BY <1>1, <1>3, <1>5, <1>6 DEF y

(* A remainder is unique.                                                  *)
LEMMA Remainder ==
    ASSUME NEW w \in Nat \ {0}, NEW q \in Int, NEW r \in 0 .. w - 1 PROVE (q * w + r) % w = r
<1> DEFINE n == q * w + r
           p == n \div w
           s == n % w
<1>1. p \in Int /\ s \in 0 .. w - 1 /\ n = p * w + s
  OBVIOUS
<1> HIDE DEF p, s
<1>2. (q - p) * w = s - r
  BY <1>1
<1>3. s - r < w /\ r - s < w
  BY <1>1
<1>4. q - p < 1
  <2>1. SUFFICES ASSUME q - p >= 1 PROVE FALSE
    BY <1>1
  <2>2. (q - p) * w >= w
    BY <1>1, <2>1
  <2> QED
    BY <1>1, <1>2, <1>3, <2>2
<1>5. q - p > -1
  <2>1. SUFFICES ASSUME q - p <= -1 PROVE FALSE
    BY <1>1
  <2>2. (p - q) * w >= w
    BY <1>1, <2>1
  <2>3. (p - q) * w = r - s
    BY <1>1
  <2> QED
    BY <1>1, <1>3, <2>2, <2>3
<1>6. q = p
  BY <1>1, <1>4, <1>5
<1>7. s = r
  BY <1>1, <1>6
<1> QED
  BY <1>7 DEF s

(* The address of a delay slot, and the one behind it.                     *)
LEMMA SlotAddress ==
    ASSUME NEW a \in Nat
    PROVE  Unsigned(Unsigned(a + 4) + 4) = Unsigned(a + 8) /\ Unsigned(a + 4) # Unsigned(a + 8)
<1>1. PICK w : w = WordSize
  OBVIOUS
<1>2. w \in Nat \ {0} /\ w > 4
  BY <1>1, WordFacts, ByteBitsAssumption DEF WordBits
<1>3. PICK q, r : q = (a + 4) \div w /\ r = (a + 4) % w
  OBVIOUS
<1>4. q \in Int /\ r \in 0 .. w - 1 /\ a + 4 = q * w + r
  BY <1>2, <1>3
<1>5. Unsigned(a + 4) = r /\ Unsigned(a + 8) = (a + 8) % w /\ Unsigned(r + 4) = (r + 4) % w
  BY <1>1, <1>3 DEF Unsigned
<1>6. CASE r + 4 < w
  <2>1. r + 4 \in 0 .. w - 1 /\ a + 8 = q * w + (r + 4) /\ r + 4 = 0 * w + (r + 4)
    BY <1>2, <1>4, <1>6
  <2>2. (a + 8) % w = r + 4
    BY <1>2, <1>4, <2>1, Remainder
  <2>3. (r + 4) % w = r + 4
    BY <1>2, <2>1, Remainder
  <2> QED
    BY <1>4, <1>5, <2>2, <2>3
<1>7. CASE r + 4 >= w
  <2>1. r + 4 - w \in 0 .. w - 1 /\ a + 8 = (q + 1) * w + (r + 4 - w) /\ r + 4 = 1 * w + (r + 4 - w)
    BY <1>2, <1>4, <1>7
  <2>2. (a + 8) % w = r + 4 - w
    <3>1. PICK k, t : k = q + 1 /\ t = r + 4 - w
      OBVIOUS
    <3>2. k \in Int /\ t \in 0 .. w - 1 /\ a + 8 = k * w + t
      BY <1>4, <2>1, <3>1
    <3>3. (k * w + t) % w = t
      BY <1>2, <3>2, Remainder
    <3> QED
      BY <3>1, <3>2, <3>3
  <2>3. (r + 4) % w = r + 4 - w
    BY <1>2, <2>1, Remainder
  <2> QED
    BY <1>2, <1>4, <1>5, <2>2, <2>3
<1> QED
  BY <1>2, <1>4, <1>6, <1>7

(* Where a jump or a branch without exception goes is what was fetched     *)
(* behind it, and the rest of the program follows in order.                *)
LEMMA AdvanceFits ==
    ASSUME PlainSlots, NEW x, NEW f, NEW d, NEW g, NEW e,
           FetchedAt(op[x], f, d, g, e), Fits(path, f, d), path.pend # -1 => InSlot(path.pc),
           Controlled(op[x]), op[x].issued, ~ op[x].exc,
           InsnOf(x).k \in Jumps => op[x].slot, InsnOf(x).k \notin {"break", "monitor"},
           InsnOf(x).k = "jalr" => op[x].target # Unsigned(op[x].pc + 4)
    PROVE  /\ Fits(Advance(x), g, e)
           /\ Advance(x).pend # -1 => InSlot(Advance(x).pc) /\ op[x].slot
<1>1. PICK o, i : o = op[x] /\ i = InsnAt(o.pc) /\ i = InsnOf(x)
  BY DEF InsnOf
<1>2. o.pc = path.pc
  <2>1. path.pend # -1 => path.pc # 0
    BY SlotPlain
  <2> QED
    BY <1>1, <2>1 DEF FetchedAt, Fits
<1>3. CASE i.k \notin Control
  <2>1. ~ o.slot
    BY <1>1, <1>3 DEF Controlled
  <2>2. i.k \notin Branches \cup {"monitor"} /\ i.k # "break"
    BY <1>1, <1>3 DEF Control
  <2>3. Advance(x) = [pc |-> IF path.pend = -1 THEN Unsigned(o.pc + 4) ELSE path.pend, pend |-> -1]
    BY <1>1, <2>1, <2>2 DEF Advance
  <2>4. e = 0 /\ g = IF path.pend = -1 THEN Unsigned(o.pc + 4) ELSE path.pend
    <3>1. path.pend # -1 => path.pc # 0
      BY SlotPlain
    <3>2. CASE d # 0 /\ o.pc = d /\ g = f /\ e = 0
      BY <3>2 DEF Fits
    <3>3. CASE d = 0 /\ e = 0 /\ g = Unsigned(f + 4)
      BY <1>2, <3>1, <3>3 DEF Fits
    <3> QED
      BY <1>1, <1>3, <3>2, <3>3 DEF FetchedAt
  <2> QED
    BY <2>3, <2>4 DEF Fits
<1>4. CASE i.k \in Control
  <2>1. path.pend = -1
    BY <1>1, <1>2, <1>4, SlotPlain
  <2>2. d = 0 /\ f = o.pc
    BY <1>2, <2>1 DEF Fits
  <2>3. /\ g = o.npc /\ e \in {0, Unsigned(f + 4)}
        /\ e = 0 => o.npc = Unsigned(f + 4)
        /\ i.k \in Branches => (o.taken <=> e # 0) /\ (o.taken => o.npc = BranchTarget(i, f))
        /\ i.k \in {"j", "jal", "jr"} => e # 0
    BY <1>1, <2>2 DEF FetchedAt
  <2>4. o.pc \in DOMAIN Program /\ o.pc \in Nat /\ Program[o.pc] = i
    BY <1>1, <1>4, ControlKinds DEF InsnAt
  <2>5. InSlot(Unsigned(o.pc + 4))
    BY <1>4, <2>4 DEF InSlot
  <2>6. Unsigned(o.pc + 4) # 0
    BY <2>5, SlotPlain
  <2>7. Resolved(i, o)
    BY <1>1 DEF Controlled
  <2>8. o.slot => Advance(x) = [pc |-> Unsigned(o.pc + 4), pend |-> o.target]
    BY <1>1 DEF Advance
  <2>9. CASE i.k \in Jumps
    <3>1. o.slot /\ o.target \in Word /\ o.npc = o.target
      BY <1>1, <2>7, <2>9 DEF Resolved
    <3>2. o.target # -1
      BY <3>1, WordFacts
    <3>3. e # 0
      BY <1>1, <2>2, <2>3, <2>9, <3>1 DEF Jumps
    <3>4. e = Unsigned(o.pc + 4)
      BY <2>2, <2>3, <3>3
    <3> QED
      BY <1>1, <2>3, <2>5, <2>8, <3>1, <3>2, <3>4 DEF Fits
  <2>10. CASE i.k \in Branches
    <3>1. BranchResolved(i, o)
      BY <2>7, <2>10 DEF Resolved
    <3>2. o.target # -1
      BY <3>1, WordFacts DEF BranchResolved
    <3>3. CASE o.target = BranchTarget(i, o.pc) /\ o.slot /\ o.taken
      <4>1. e = Unsigned(o.pc + 4) /\ g = o.target
        BY <2>2, <2>3, <2>10, <3>3
      <4> QED
        BY <1>1, <2>5, <2>8, <3>2, <3>3, <4>1 DEF Fits
    <3>4. CASE o.target = Unsigned(o.pc + 8) /\ (o.slot <=> i.k \notin Likely) /\ ~ o.taken
               /\ (i.k \in Likely => o.npc = Unsigned(o.pc + 8))
      <4>1. e = 0 /\ g = Unsigned(o.pc + 4)
        BY <2>2, <2>3, <2>10, <3>4
      <4>2. Unsigned(Unsigned(o.pc + 4) + 4) = o.target /\ Unsigned(o.pc + 4) # Unsigned(o.pc + 8)
        BY <2>4, <3>4, SlotAddress
      <4>3. o.slot
        BY <2>3, <3>4, <4>1, <4>2
      <4> QED
        BY <1>1, <2>5, <2>8, <3>2, <4>1, <4>2, <4>3 DEF Fits
    <3> QED
      BY <1>1, <3>1, <3>3, <3>4 DEF BranchResolved
  <2> QED
    BY <1>4, <2>9, <2>10 DEF Control
<1> QED
  BY <1>3, <1>4

-----------------------------------------------------------------------------
(* The path and the retired program                                        *)

(* Nothing is thrown away, and the program goes on.                        *)
Following == rpc \notin {"excuu", "nuke", "sleep", "done"} /\ ~ ret.stop

(* The window is what was fetched on the path of the program.              *)
InStream ==
    Following => Streamed(rob \o decode_queue \o fetch_queue, op, path, fetch_pc, delay_slot_npc)

(* Between a branch or jump and its delay slot, which is complete.         *)
SlotNext ==
    /\ path.pend # -1 => InSlot(path.pc)
    /\ Following /\ path.pend # -1 =>
         rob # <<>> /\ op[Head(rob)].done /\ ~ op[Head(rob)].lexc

(* What retire() knows of the head, and where the recovery restarts.       *)
RetirePoint ==
    /\ rpc = "slot" => op[Head(rob)].slot
    /\ rpc = "exc" => op[Head(rob)].exc \/ op[Head(rob)].lexc \/ op[Head(rob)].slot
    /\ rpc = "excslot" => ret.restart = path.pc
    /\ rpc = "excuu" => op[Head(rob)].pc = path.pc /\ path.pend = ret.restart /\ path.pend # -1
    /\ rpc = "nuke" => ret.restart = path.pc /\ path.pend = -1
    /\ rpc = "sleep" => fetch_pc = path.pc /\ path.pend = -1
    /\ ret.stop => rpc \in {"loop", "end"}
    /\ DOMAIN ret = {"amt", "stop", "sleep", "restart"}

(* Where the program and the window meet.                                  *)
PathInv == InStream /\ SlotNext /\ RetirePoint

(* The next state under names of its own.                                  *)
LEMMA InStreamAfter ==
    ASSUME NEW s, s = rob' \o decode_queue' \o fetch_queue', NEW O, O = op', NEW p, p = path',
           NEW f, f = fetch_pc', NEW d, d = delay_slot_npc',
           Following' => Streamed(s, O, p, f, d)
    PROVE  InStream'
BY DEF InStream

(* The same for SlotNext.                                                  *)
LEMMA SlotNextAfter ==
    ASSUME NEW p, p = path', p.pend # -1 => InSlot(p.pc),
           Following' /\ p.pend # -1 =>
              rob' # <<>> /\ op'[Head(rob')].done /\ ~ op'[Head(rob')].lexc
    PROVE  SlotNext'
BY DEF SlotNext

(* The steps of the other threads keep what retire() knows.                *)
LEMMA PointKept ==
    ASSUME WindowInv, SlotNext, RetirePoint, path' = path, rpc' = rpc, ret' = ret,
           rob # <<>> => rob' # <<>> /\ Head(rob') = Head(rob),
           rpc = "sleep" => fetch_pc' = fetch_pc,
           \A y \in Elems(rob) : op[y].done =>
                /\ op'[y].done /\ op'[y].pc = op[y].pc /\ op'[y].slot = op[y].slot
                /\ op'[y].exc = op[y].exc /\ op'[y].lexc = op[y].lexc
    PROVE  SlotNext' /\ RetirePoint'
<1>1. rob # <<>> => Head(rob) \in Elems(rob)
  BY TailElems DEF WindowInv, Shape
<1>2. PICK h : h = Head(rob)
  OBVIOUS
<1>3. rob # <<>> /\ op[h].done =>
        /\ Head(rob') = h /\ rob' # <<>>
        /\ op'[h].done /\ op'[h].pc = op[h].pc /\ op'[h].slot = op[h].slot
        /\ op'[h].exc = op[h].exc /\ op'[h].lexc = op[h].lexc
  BY <1>1, <1>2
<1>4. rpc \in {"slot", "exc", "excslot", "excuu"} => rob # <<>> /\ op[h].done
  BY <1>2 DEF WindowInv, HeadDone
<1>5. RetirePoint'
  BY <1>2, <1>3, <1>4 DEF RetirePoint
<1>6. PICK p : p = path'
  OBVIOUS
<1>7. p.pend # -1 => InSlot(p.pc)
  BY <1>6 DEF SlotNext
<1>8. Following' /\ p.pend # -1 =>
        rob' # <<>> /\ op'[Head(rob')].done /\ ~ op'[Head(rob')].lexc
  <2>1. SUFFICES ASSUME Following', p.pend # -1
                 PROVE  rob' # <<>> /\ op'[Head(rob')].done /\ ~ op'[Head(rob')].lexc
    OBVIOUS
  <2>2. Following
    BY <2>1 DEF Following
  <2>3. rob # <<>> /\ op[h].done /\ ~ op[h].lexc
    BY <1>2, <1>6, <2>1, <2>2 DEF SlotNext
  <2> QED
    BY <1>3, <2>3
<1> QED
  BY <1>5, <1>6, <1>7, <1>8, SlotNextAfter

(* The live operations are those of the three queues.                      *)
LEMMA LiveQueued ==
    WindowInv => /\ rob \o decode_queue \o fetch_queue \in Seq(Ids)
                 /\ Live = Elems(rob \o decode_queue \o fetch_queue)
<1> SUFFICES ASSUME WindowInv
             PROVE  /\ rob \o decode_queue \o fetch_queue \in Seq(Ids)
                    /\ Live = Elems(rob \o decode_queue \o fetch_queue)
  OBVIOUS
<1>1. rob \in Seq(Ids) /\ decode_queue \in Seq(Ids) /\ fetch_queue \in Seq(Ids)
  BY DEF WindowInv, Shape
<1>2. Live = Elems(fetch_queue) \cup Elems(decode_queue) \cup Elems(rob)
  BY DEF WindowInv, OnePlace
<1>3. PICK a, b, c : a = rob /\ b = decode_queue /\ c = fetch_queue
  OBVIOUS
<1>4. a \in Seq(Ids) /\ b \in Seq(Ids) /\ c \in Seq(Ids)
  BY <1>1, <1>3
<1>5. a \o b \o c \in Seq(Ids) /\ Elems(a \o b \o c) = Elems(a) \cup Elems(b) \cup Elems(c)
  BY <1>4, QueueElems
<1> QED
  BY <1>2, <1>3, <1>5

(* A step that fetches nothing and retires nothing.                        *)
LEMMA StreamStays ==
    ASSUME WindowInv, InStream, Following' => Following, path' = path,
           NEW s, s = rob' \o decode_queue' \o fetch_queue', s = rob \o decode_queue \o fetch_queue,
           UNCHANGED <<fetch_pc, delay_slot_npc>>,
           \A y \in Elems(s) : Keeps(y, {"pc", "npc", "taken"})
    PROVE  InStream'
<1>1. PICK O, O2, p, f, d : O = op /\ O2 = op' /\ p = path /\ f = fetch_pc /\ d = delay_slot_npc
  OBVIOUS
<1>2. s \in Seq(Ids)
  BY LiveQueued
<1>3. \A y \in Elems(s) : SameFetch(O2[y], O[y])
  BY <1>1 DEF Keeps, SameFetch
<1>4. Following => Streamed(s, O, p, f, d)
  BY <1>1 DEF InStream
<1>5. Following' => Streamed(s, O2, p, f, d)
  BY <1>2, <1>3, <1>4, StreamedKept
<1> QED
  BY <1>1, <1>5, InStreamAfter

(* What fetch() predicts is where the next instruction is fetched.         *)
LEMMA PredictionFetched ==
    ASSUME PlainSlots, TargetsInv, NEW f, NEW i, i = InsnAt(f), NEW p \in Predictions(i, f),
           NEW o, o = NewOp(f, p.npc, p.taken),
           NEW e, e = IF p.redirect THEN Unsigned(f + 4) ELSE 0
    PROVE  FetchedAt(o, f, 0, p.npc, e) /\ (e # 0 => InSlot(e))
<1>1. o.pc = f /\ o.npc = p.npc /\ o.taken = p.taken
  BY DEF NewOp
<1>2. i.k \in Control => /\ f \in DOMAIN Program /\ Program[f] = i
                         /\ InSlot(Unsigned(f + 4)) /\ Unsigned(f + 4) # 0
  <2>1. SUFFICES ASSUME i.k \in Control
                 PROVE  /\ f \in DOMAIN Program /\ Program[f] = i
                        /\ InSlot(Unsigned(f + 4)) /\ Unsigned(f + 4) # 0
    OBVIOUS
  <2>2. f \in DOMAIN Program /\ Program[f] = i
    BY <2>1, ControlKinds DEF InsnAt
  <2>3. InSlot(Unsigned(f + 4))
    BY <2>1, <2>2 DEF InSlot
  <2> QED
    BY <2>2, <2>3, SlotPlain
<1>3. /\ is_likely_branch(i) => i.k \in Branches /\ i.k \notin Jumps
      /\ is_nonlikely_branch(i) => i.k \in Branches /\ i.k \notin Jumps
      /\ i.k \in {"jr", "j", "jal"} => i.k \notin Branches /\ i.k \in Jumps
      /\ ~ (is_likely_branch(i) /\ is_nonlikely_branch(i))
      /\ is_likely_branch(i) \/ is_nonlikely_branch(i) => i.k \notin {"jr", "j", "jal"}
  BY DEF is_likely_branch, is_nonlikely_branch, Branches, Likely, NonLikely, Jumps
<1>4. f \in DOMAIN branch_target_map =>
        i.k \in Control /\ (i.k \in Branches => branch_target_map[f] = BranchTarget(i, f))
  BY DEF TargetsInv
<1>5. p = PredictNext(f) \/ p.redirect
  BY <1>3 DEF Predictions, PredictTaken, PredictReturn
<1>6. p.redirect => i.k \in Control
  BY <1>3, <1>4 DEF Predictions, PredictNext, Control
<1>7. i.k \in Branches => (p.taken <=> p.redirect) /\ (p.taken => p.npc = BranchTarget(i, f))
  BY <1>3, <1>4 DEF Predictions, PredictNext, PredictTaken
<1>8. i.k \in {"j", "jal", "jr"} => p.redirect
  BY <1>3 DEF Predictions, PredictTaken, PredictReturn
<1>9. p.npc = Unsigned(f + 4) \/ p.redirect
  BY <1>5 DEF PredictNext
<1>10. e # 0 <=> p.redirect
  BY <1>2, <1>6
<1>11. e # 0 => InSlot(e)
  BY <1>2, <1>6
<1>12. FetchedAt(o, f, 0, p.npc, e)
  BY <1>1, <1>6, <1>7, <1>8, <1>9, <1>10 DEF FetchedAt
<1> QED
  BY <1>11, <1>12

(* fetch() follows the path it predicted.                                  *)
LEMMA FetchPath ==
    ASSUME PlainSlots, WindowInv, TargetsInv, PathInv, FetchSlot \/ FetchInsn
    PROVE  PathInv'
<1>0. InStream /\ SlotNext /\ RetirePoint
  BY DEF PathInv
<1>1. PICK pc, npc, taken : FetchMore /\ PushFetch(pc, npc, taken)
  BY DEF FetchSlot, FetchInsn
<1>2. PICK x, w : x = FreeId /\ w = NewOp(pc, npc, taken)
  OBVIOUS
<1>3. op' = [op EXCEPT ![x] = w] /\ fetch_queue' = Append(fetch_queue, x)
      /\ UNCHANGED <<rpc, ret, decode_queue, rob, path>>
  BY <1>1, <1>2 DEF PushFetch, archVars
<1>4. x \in Ids /\ x \notin Live
  BY <1>1, <1>2, FreeIdFresh DEF WindowInv, FetchMore
<1>5. op'[x] = w /\ \A y \in Live : op'[y] = op[y]
  BY <1>3, <1>4, OneOp
<1>6. rpc # "sleep"
  BY <1>1 DEF FetchMore, WindowInv, Recovery
<1>7. SlotNext' /\ RetirePoint'
  <2>1. \A y \in Elems(rob) : op'[y] = op[y]
    BY <1>5, LoadsLive
  <2> QED
    BY <1>0, <1>3, <1>6, <2>1, PointKept
<1>8. PICK s, O, O2, p, f, d, g, e :
        /\ s = rob \o decode_queue \o fetch_queue /\ O = op /\ O2 = op' /\ p = path
        /\ f = fetch_pc /\ d = delay_slot_npc /\ g = fetch_pc' /\ e = delay_slot_npc'
  OBVIOUS
<1>9. FetchedAt(w, f, d, g, e) /\ (e # 0 => InSlot(e))
  <2>1. CASE FetchSlot
    <3>1. d # 0 /\ op'[x] = NewOp(d, Unsigned(d + 4), FALSE) /\ g = f /\ e = 0
      <4>1. op' = [op EXCEPT ![x] = NewOp(d, Unsigned(d + 4), FALSE)]
        BY <1>2, <1>8, <2>1 DEF FetchSlot, PushFetch
      <4>2. op'[x] = NewOp(d, Unsigned(d + 4), FALSE)
        BY <1>4, <4>1, OneOp
      <4> QED
        BY <1>8, <2>1, <4>2 DEF FetchSlot
    <3>2. w.pc = d
      BY <1>5, <3>1 DEF NewOp
    <3> QED
      BY <3>1, <3>2 DEF FetchedAt
  <2>2. CASE FetchInsn
    <3>1. PICK i, q : /\ i = InsnAt(f) /\ q \in Predictions(i, f) /\ PushFetch(f, q.npc, q.taken)
                      /\ g = q.npc /\ e = IF q.redirect THEN Unsigned(f + 4) ELSE 0
      BY <1>8, <2>2 DEF FetchInsn
    <3>2. d = 0
      BY <1>8, <2>2 DEF FetchInsn
    <3>3. PICK z : z = NewOp(f, q.npc, q.taken)
      OBVIOUS
    <3>4. op' = [op EXCEPT ![x] = z]
      BY <1>2, <3>1, <3>3 DEF PushFetch
    <3>5. op'[x] = z
      BY <1>4, <3>4, OneOp
    <3>6. FetchedAt(z, f, 0, q.npc, e) /\ (e # 0 => InSlot(e))
      BY <3>1, <3>3, PredictionFetched
    <3> QED
      BY <1>5, <3>1, <3>2, <3>5, <3>6
  <2> QED
    BY <2>1, <2>2
<1>10. Following' => Streamed(Append(s, x), O2, p, g, e)
  <2>1. SUFFICES ASSUME Following' PROVE Streamed(Append(s, x), O2, p, g, e)
    OBVIOUS
  <2>2. Streamed(s, O, p, f, d)
    BY <1>0, <1>3, <1>8, <2>1 DEF InStream, Following
  <2>3. s \in Seq(Ids) /\ Live = Elems(s)
    BY <1>8, LiveQueued
  <2>4. \A y \in Elems(s) : SameFetch(O2[y], O[y])
    BY <1>5, <1>8, <2>3 DEF SameFetch
  <2>5. FetchedAt(O2[x], f, d, g, e)
    BY <1>5, <1>8, <1>9
  <2> QED
    BY <1>4, <1>9, <2>2, <2>3, <2>4, <2>5, StreamedAppend
<1>11. Append(s, x) = rob' \o decode_queue' \o fetch_queue'
  <2>1. PICK a, b, c : a = rob /\ b = decode_queue /\ c = fetch_queue
    OBVIOUS
  <2>2. a \in Seq(Ids) /\ b \in Seq(Ids) /\ c \in Seq(Ids)
    BY <2>1 DEF WindowInv, Shape
  <2>3. a \o b \o Append(c, x) = Append(a \o b \o c, x)
    BY <1>4, <2>2, QueueFetch
  <2> QED
    BY <1>3, <1>8, <2>1, <2>3
<1>12. InStream'
  <2>1. p = path'
    BY <1>3, <1>8
  <2> QED
    BY <1>8, <1>10, <1>11, <2>1, InStreamAfter
<1> QED
  BY <1>7, <1>12 DEF PathInv

(* The other threads leave what was fetched alone.                         *)
LEMMA WindowPath ==
    ASSUME WindowInv, WindowInv', MarkInv, PathInv,
           \/ DecodeOne \/ AllocateOne \/ ExecuteOne \/ CompleteOne \/ CacheTick \/ NextCycle
           \/ ThreadYield \/ Terminated \/ UNCHANGED vars
    PROVE  PathInv'
<1>0. InStream /\ SlotNext /\ RetirePoint
  BY DEF PathInv
<1>1. UNCHANGED <<path, rpc, ret, fetch_pc, delay_slot_npc>>
  <2>1. CASE DecodeOne \/ AllocateOne \/ ExecuteOne \/ CompleteOne
    BY <2>1 DEF DecodeOne, AllocateOne, ExecuteOne, CompleteOne, fetchVars, archVars
  <2>2. CASE CacheTick \/ NextCycle \/ ThreadYield \/ Terminated \/ UNCHANGED vars
    BY <2>2 DEF CacheTick, NextCycle, ThreadYield, Terminated, vars, fetchVars, archVars
  <2> QED
    BY <2>1, <2>2
<1>2. PICK a, b, c : a = rob /\ b = decode_queue /\ c = fetch_queue
  OBVIOUS
<1>3. a \in Seq(Ids) /\ b \in Seq(Ids) /\ c \in Seq(Ids)
  BY <1>2 DEF WindowInv, Shape
<1>4. PICK s : s = rob' \o decode_queue' \o fetch_queue'
  OBVIOUS
<1>5. s = a \o b \o c /\ (a # <<>> => rob' # <<>> /\ Head(rob') = Head(a))
  <2>1. CASE DecodeOne
    <3>1. rob' = a /\ decode_queue' = Append(b, Head(c)) /\ fetch_queue' = Tail(c) /\ c # <<>>
      BY <1>2, <2>1 DEF DecodeOne, DecodeMore
    <3>2. a \o b \in Seq(Ids) /\ <<Head(c)>> \in Seq(Ids)
      BY <1>3, <3>1
    <3>3. Append(a \o b, Head(c)) \o Tail(c) = a \o b \o c
      BY <1>3, <3>1, <3>2, QueueMove
    <3>4. Append(a \o b, Head(c)) = a \o Append(b, Head(c))
      <4>1. Append(b, Head(c)) = b \o <<Head(c)>> /\ Append(a \o b, Head(c)) = a \o b \o <<Head(c)>>
        BY <1>3, <3>1, <3>2, AppendIsConcat
      <4>2. (a \o b) \o <<Head(c)>> = a \o (b \o <<Head(c)>>)
        BY <1>3, <3>2, ConcatAssociative
      <4> QED
        BY <4>1, <4>2
    <3> QED
      BY <1>4, <3>1, <3>3, <3>4
  <2>2. CASE AllocateOne
    <3>1. rob' = Append(a, Head(b)) /\ decode_queue' = Tail(b) /\ fetch_queue' = c /\ b # <<>>
      BY <1>2, <2>2 DEF AllocateOne, AllocateMore
    <3>2. Head(b) \in Ids
      BY <1>3, <3>1
    <3>3. Append(a, Head(b)) \o Tail(b) = a \o b
      BY <1>3, <3>1, QueueMove
    <3>4. a # <<>> => Append(a, Head(b)) # <<>> /\ Head(Append(a, Head(b))) = Head(a)
      BY <1>3, <3>2, AppendElems
    <3> QED
      BY <1>4, <3>1, <3>3, <3>4
  <2>3. CASE ExecuteOne \/ CompleteOne \/ CacheTick \/ NextCycle \/ ThreadYield \/ Terminated
             \/ UNCHANGED vars
    <3>1. UNCHANGED <<rob, decode_queue, fetch_queue>>
      <4>1. CASE ExecuteOne \/ CompleteOne
        BY <4>1 DEF ExecuteOne, CompleteOne, queueVars
      <4>2. CASE CacheTick \/ NextCycle \/ ThreadYield \/ Terminated \/ UNCHANGED vars
        BY <4>2 DEF CacheTick, NextCycle, ThreadYield, Terminated, vars, queueVars
      <4> QED
        BY <2>3, <4>1, <4>2
    <3> QED
      BY <1>2, <1>4, <3>1
  <2> QED
    BY <2>1, <2>2, <2>3
<1>6. Live = Elems(s) /\ Live' = Elems(s)
  <2>1. Live = Elems(s)
    BY <1>2, <1>5, LiveQueued
  <2>2. (WindowInv => /\ rob \o decode_queue \o fetch_queue \in Seq(Ids)
                      /\ Live = Elems(rob \o decode_queue \o fetch_queue))'
    BY LiveQueued, PTL
  <2>3. Live' = Elems(rob' \o decode_queue' \o fetch_queue')
    BY <2>2 DEF Elems
  <2> QED
    BY <1>4, <2>1, <2>3
<1>7. \A y \in Live : Keeps(y, {"pc", "npc", "taken"})
  <2>1. CASE AllocateOne \/ CompleteOne \/ CacheTick \/ NextCycle \/ ThreadYield \/ Terminated
             \/ UNCHANGED vars
    <3>1. \A y \in Live' : y \in Live /\ Keeps(y, FlowFields)
      BY <2>1, FlowKept
    <3> QED
      BY <1>6, <3>1 DEF Keeps, FlowFields
  <2>2. CASE DecodeOne
    <3>1. PICK x, z : op' = [op EXCEPT ![x].age = 0, ![x].slot = z] /\ x = Head(fetch_queue)
      BY <2>2 DEF DecodeOne
    <3>2. op' = [op EXCEPT ![x] = [op[x] EXCEPT !.age = 0, !.slot = z]]
      BY <3>1
    <3>3. x \in Live /\ DOMAIN op[x] = Fields
      BY <2>2, <3>1, TailElems, QueuesLive, LiveFields DEF WindowInv, Shape, DecodeOne, DecodeMore
    <3> DEFINE o == [op[x] EXCEPT !.age = 0, !.slot = z]
    <3>4. o.pc = op[x].pc /\ o.npc = op[x].npc /\ o.taken = op[x].taken
      BY <3>3 DEF Fields
    <3> HIDE DEF o
    <3>5. op'[x] = o /\ \A y \in Live : y # x => op'[y] = op[y]
      BY <3>2, <3>3, OneOp DEF o
    <3> QED
      BY <3>4, <3>5 DEF Keeps
  <2>3. CASE ExecuteOne
    <3>1. PICK x, v, w : v = Sources(x) /\ ExecuteSays(x, v, w)
      BY <2>3, ExecuteData
    <3>2. PICK lat : op'[x] = Executed(x, v, lat)
      BY <3>1 DEF ExecuteSays
    <3>3. x \in Elems(rob) /\ ~ op[x].issued /\ x \in Live /\ DOMAIN op[x] = Fields
      BY <3>1, LoadsLive, LiveFields DEF ExecuteSays
    <3>4. ~ op[x].exc
      BY <3>3 DEF WindowInv, Unissued
    <3>5. FlowsFrom(op'[x], op[x], InsnOf(x), v)
      BY <3>2, <3>3, <3>4, ExecutedFlow
    <3>6. PICK e : op' = [op EXCEPT ![x] = e]
      BY <3>1 DEF ExecuteSays
    <3>7. \A y \in Live : y # x => op'[y] = op[y]
      BY <3>6, OneOp
    <3> QED
      BY <3>5, <3>7 DEF Keeps, FlowsFrom
  <2> QED
    BY <2>1, <2>2, <2>3
<1>8. \A y \in Elems(rob) : op[y].done =>
        /\ op'[y].done /\ op'[y].pc = op[y].pc /\ op'[y].slot = op[y].slot
        /\ op'[y].exc = op[y].exc /\ op'[y].lexc = op[y].lexc
  <2>1. CASE DecodeOne \/ CacheTick \/ NextCycle \/ ThreadYield \/ Terminated \/ UNCHANGED vars
    <3>1. \A y \in Elems(rob) : Keeps(y, Outcome)
      BY <2>1, QuietData DEF QuietStep, QuietFront
    <3> QED
      BY <3>1 DEF Keeps, Outcome, Fields
  <2>2. CASE AllocateOne
    <3>1. \A y \in Elems(rob) : op'[y] = op[y]
      BY <2>2, AllocateData
    <3> QED
      BY <3>1
  <2>3. CASE ExecuteOne
    <3>1. \A y \in Elems(rob) : op[y].done => op'[y] = op[y]
      BY <2>3, ExecuteData DEF ExecuteSays
    <3> QED
      BY <3>1
  <2>4. CASE CompleteOne
    <3>1. \A y \in Elems(rob) : op[y].done => op'[y] = op[y]
      BY <2>4, CompleteData DEF CompleteSays
    <3> QED
      BY <3>1
  <2> QED
    BY <2>1, <2>2, <2>3, <2>4
<1>9. SlotNext' /\ RetirePoint'
  BY <1>0, <1>1, <1>2, <1>5, <1>8, PointKept
<1>10. InStream'
  <2>1. Following' => Following
    BY <1>1 DEF Following
  <2>2. s = rob \o decode_queue \o fetch_queue
    BY <1>2, <1>5
  <2>3. \A y \in Elems(s) : Keeps(y, {"pc", "npc", "taken"})
    BY <1>6, <1>7
  <2> QED
    BY <1>0, <1>1, <1>4, <2>1, <2>2, <2>3, StreamStays
<1> QED
  BY <1>9, <1>10 DEF PathInv

(* The head is where the program is.                                       *)
LEMMA HeadOnPath ==
    ASSUME PlainSlots, WindowInv, \A y \in Live : Controlled(op[y]), PathInv, Following, rob # <<>>
    PROVE  /\ op[Head(rob)].pc = path.pc
           /\ path.pend # -1 =>
                InsnOf(Head(rob)).k \notin Control \cup {"break", "monitor"} /\ ~ op[Head(rob)].slot
           /\ Len(rob) >= 2 /\ op[Head(rob)].slot => op[rob[2]].pc = Unsigned(op[Head(rob)].pc + 4)
<1>1. PICK s, t, O, p, f, d : /\ s = rob \o decode_queue \o fetch_queue /\ O = op /\ p = path
                              /\ f = fetch_pc /\ d = delay_slot_npc /\ t = decode_queue \o fetch_queue
  OBVIOUS
<1>2. Streamed(s, O, p, f, d)
  BY <1>1 DEF PathInv, InStream
<1>3. s \in Seq(Ids) /\ Live = Elems(s)
  BY <1>1, LiveQueued
<1>4. p.pend # -1 => InSlot(p.pc)
  BY <1>1 DEF PathInv, SlotNext
<1>5. \A x \in Elems(s) : O[x].slot => InsnAt(O[x].pc).k \in Control
  BY <1>1, <1>3 DEF Controlled
<1>6. InOrderOf(s, O, p)
  BY <1>2, <1>3, <1>4, <1>5, StreamedInOrder
<1>7. PICK a, b, c : a = rob /\ b = decode_queue /\ c = fetch_queue
  OBVIOUS
<1>8. a \in Seq(Ids) /\ b \in Seq(Ids) /\ c \in Seq(Ids) /\ a # <<>> /\ s = a \o b \o c
  BY <1>1, <1>7 DEF WindowInv, Shape
<1>9. Len(a) >= 1 /\ Len(s) >= Len(a) /\ s # <<>> /\ \A j \in 1 .. Len(a) : s[j] = a[j]
  BY <1>8
<1>10. s[1] = Head(rob)
  BY <1>7, <1>8, <1>9
<1>11. op[Head(rob)].pc = path.pc
  BY <1>1, <1>6, <1>9, <1>10 DEF InOrderOf
<1>12. ASSUME Len(rob) >= 2, op[Head(rob)].slot
       PROVE  op[rob[2]].pc = Unsigned(op[Head(rob)].pc + 4)
  <2>1. 1 \in 1 .. Len(s) - 1 /\ 1 + 1 = 2 /\ 2 \in 1 .. Len(a)
    BY <1>7, <1>8, <1>9, <1>12
  <2>2. s[2] = rob[2]
    BY <1>7, <1>9, <2>1
  <2>3. O[s[1]].slot => O[s[1 + 1]].pc = Unsigned(O[s[1]].pc + 4)
    BY <1>6, <2>1 DEF InOrderOf
  <2> QED
    BY <1>1, <1>10, <1>12, <2>1, <2>2, <2>3
<1>13. ASSUME path.pend # -1
       PROVE  InsnOf(Head(rob)).k \notin Control \cup {"break", "monitor"} /\ ~ op[Head(rob)].slot
  <2>1. InSlot(path.pc)
    BY <1>1, <1>4, <1>13
  <2>2. InsnOf(Head(rob)).k \notin Control \cup {"break", "monitor"}
    BY <1>11, <2>1, SlotPlain DEF InsnOf
  <2>3. Head(rob) \in Live
    BY <1>8, <1>7, LoadsLive, TailElems
  <2>4. op[Head(rob)].slot => InsnOf(Head(rob)).k \in Control
    BY <2>3 DEF Controlled, InsnOf
  <2> QED
    BY <2>2, <2>4
<1> QED
  BY <1>11, <1>12, <1>13

(* The steps of retire() that only move on.                                *)
LEMMA RetireMovesPath ==
    ASSUME PlainSlots, WindowInv, MarkInv, HeadSlot, \A y \in Live : Controlled(op[y]), PathInv,
           QuietRetire
    PROVE  PathInv'
<1>0. InStream /\ SlotNext /\ RetirePoint /\ HeadDone /\ HeadMarks
  BY DEF PathInv, WindowInv, MarkInv
<1> USE DEF u, uu
<1>1. UNCHANGED <<op, rob, decode_queue, fetch_queue, fetch_pc, delay_slot_npc, path>>
  BY DEF QuietRetire, RetireIdle, RetireException, RetireWaitSlot, ExceptionBegin,
     ExceptionWaitSlot, DelaySlotException, RetireEnd, RetireMoves, queueVars, fetchVars, archVars
<1>2. rpc \in {"slot", "exc", "excslot"} => Following
  BY <1>0 DEF Following, RetirePoint
<1>3. (Following' => Following) /\ RetirePoint'
  <2>1. CASE RetireIdle
    BY <1>0, <1>1, <2>1 DEF RetireIdle, RetirePoint, Following
  <2>2. CASE RetireException
    <3>1. CASE rpc = "loop" /\ RetireMore /\ (u.exc \/ u.lexc)
      BY <1>0, <1>1, <2>2, <3>1 DEF RetireException, RetirePoint, Following, RetireMore
    <3>2. CASE rpc = "slot" \/ (rpc = "loop" /\ RetireMore /\ ~ u.exc /\ ~ u.lexc /\ u.slot)
      <4>1. op[Head(rob)].slot /\ ~ ret.stop
        BY <1>0, <3>2 DEF RetirePoint, RetireMore
      <4> QED
        BY <1>0, <1>1, <2>2, <3>2, <4>1 DEF RetireException, RetirePoint, Following
    <3> QED
      BY <2>2, <3>1, <3>2 DEF RetireException
  <2>3. CASE RetireWaitSlot
    <3>1. op[Head(rob)].slot /\ ~ ret.stop
      BY <1>0, <2>3 DEF RetireWaitSlot, RetirePoint, RetireMore
    <3> QED
      BY <1>0, <1>1, <2>3, <3>1 DEF RetireWaitSlot, RetirePoint, Following
  <2>4. CASE ExceptionBegin
    <3>1. rob # <<>> /\ rpc = "exc" /\ op[Head(rob)].done
      BY <1>0, <2>4 DEF ExceptionBegin, HeadDone
    <3>2. op[Head(rob)].pc = path.pc /\ (path.pend # -1 => ~ op[Head(rob)].slot)
      BY <1>2, <3>1, HeadOnPath
    <3>3. path.pend # -1 => ~ op[Head(rob)].lexc
      BY <1>0, <1>2, <3>1 DEF SlotNext
    <3>4. ~ op[Head(rob)].exc => path.pend = -1
      BY <1>0, <3>1, <3>2, <3>3 DEF RetirePoint
    <3>5. ret'.restart = path.pc /\ ret'.stop = ret.stop /\ ~ ret.stop /\ DOMAIN ret' = DOMAIN ret
      BY <1>0, <2>4, <3>1, <3>2 DEF ExceptionBegin, RetirePoint
    <3>6. rpc' = IF op[Head(rob)].exc THEN "excslot" ELSE "nuke"
      BY <2>4 DEF ExceptionBegin
    <3>7. RetirePoint'
      BY <1>0, <1>1, <3>4, <3>5, <3>6 DEF RetirePoint
    <3> QED
      BY <1>2, <3>1, <3>7
  <2>5. CASE ExceptionWaitSlot
    BY <1>0, <1>1, <2>5 DEF ExceptionWaitSlot, RetirePoint, Following
  <2>6. CASE DelaySlotException
    <3>1. rob # <<>> /\ rpc = "excslot" /\ op[Head(rob)].slot
      BY <1>0, <2>6 DEF DelaySlotException, HeadDone, HeadSlot
    <3>2. path.pend = -1
      BY <1>2, <3>1, HeadOnPath
    <3> QED
      BY <1>0, <1>1, <2>6, <3>1, <3>2 DEF DelaySlotException, RetirePoint, Following
  <2>7. CASE RetireEnd
    BY <1>0, <1>1, <2>7 DEF RetireEnd, RetirePoint, Following, NoRetire
  <2> QED
    BY <2>1, <2>2, <2>3, <2>4, <2>5, <2>6, <2>7 DEF QuietRetire
<1>4. InStream'
  <2>1. PICK s, O, p, f, d : /\ s = rob \o decode_queue \o fetch_queue /\ O = op /\ p = path
                             /\ f = fetch_pc /\ d = delay_slot_npc
    OBVIOUS
  <2>2. Following => Streamed(s, O, p, f, d)
    BY <1>0, <2>1 DEF InStream
  <2>3. s = rob' \o decode_queue' \o fetch_queue' /\ O = op' /\ p = path' /\ f = fetch_pc'
        /\ d = delay_slot_npc'
    BY <1>1, <2>1
  <2> QED
    BY <1>3, <2>2, <2>3, InStreamAfter
<1>5. SlotNext'
  <2>1. PICK p : p = path
    OBVIOUS
  <2>2. p.pend # -1 => InSlot(p.pc)
    BY <1>0, <2>1 DEF SlotNext
  <2>3. Following' /\ p.pend # -1 =>
           rob' # <<>> /\ op'[Head(rob')].done /\ ~ op'[Head(rob')].lexc
    BY <1>0, <1>1, <1>3, <2>1 DEF SlotNext
  <2>4. p = path'
    BY <1>1, <2>1
  <2> QED
    BY <2>2, <2>3, <2>4, SlotNextAfter
<1> QED
  BY <1>3, <1>4, <1>5 DEF PathInv

(* The recovery restarts where the retired program is.                     *)
LEMMA RecoveryPath ==
    ASSUME WindowInv, PathInv, Nuke \/ RecoverySleep
    PROVE  PathInv'
<1>0. RetirePoint /\ Recovery
  BY DEF PathInv, WindowInv
<1>1. path.pend = -1 /\ path' = path /\ fetch_pc' = path.pc /\ rob' = <<>> /\ DOMAIN ret' = DOMAIN ret
      /\ ret'.stop = ret.stop /\ ~ ret.stop
  <2>1. CASE Nuke
    BY <1>0, <2>1 DEF Nuke, ClearWindow, RetirePoint, archVars
  <2>2. CASE RecoverySleep
    BY <1>0, <2>2 DEF RecoverySleep, RetirePoint, Recovery, archVars
  <2> QED
    BY <2>1, <2>2
<1>2. rpc' = "sleep" \/ (rpc' = "end" /\ decode_queue' = <<>> /\ fetch_queue' = <<>> /\ delay_slot_npc' = 0)
  <2>1. CASE Nuke
    BY <2>1 DEF Nuke, ClearWindow, ClearSlot
  <2>2. CASE RecoverySleep
    BY <2>2 DEF RecoverySleep, ClearWindow, ClearSlot
  <2> QED
    BY <2>1, <2>2
<1>3. RetirePoint'
  BY <1>0, <1>1, <1>2 DEF RetirePoint
<1>4. PICK s, O, p, f, d : /\ s = rob' \o decode_queue' \o fetch_queue' /\ O = op' /\ p = path'
                           /\ f = fetch_pc' /\ d = delay_slot_npc'
  OBVIOUS
<1>5. Following' => Streamed(s, O, p, f, d)
  <2>1. SUFFICES ASSUME rpc' # "sleep" PROVE Streamed(s, O, p, f, d)
    BY DEF Following
  <2>2. decode_queue' = <<>> /\ fetch_queue' = <<>> /\ d = 0 /\ f = p.pc /\ p.pend = -1
    BY <1>1, <1>2, <1>4, <2>1
  <2>3. s = <<>>
    BY <1>1, <1>4, <2>2
  <2>4. Streamed(<<>>, O, p, p.pc, 0)
    BY <2>2, StreamedEmpty
  <2> QED
    BY <2>2, <2>3, <2>4
<1>6. InStream'
  BY <1>4, <1>5, InStreamAfter
<1>7. SlotNext'
  BY <1>1, <1>4, SlotNextAfter
<1> QED
  BY <1>3, <1>6, <1>7 DEF PathInv

(* An unpredicted jump through a register does not lead to its own delay   *)
(* slot: fetch() went on behind the jump, retirement could not tell the    *)
(* target from the delay slot.                                             *)
LinksAway ==
    rob # <<>> /\ op[Head(rob)].done /\ InsnOf(Head(rob)).k = "jalr"
        => op[Head(rob)].target # Unsigned(op[Head(rob)].pc + 4)

(* What retirement does to the window.                                     *)
RetiredWindow(x, q) ==
    /\ path' = q /\ q = Advance(x)
    /\ UNCHANGED <<decode_queue, fetch_queue, fetch_pc, delay_slot_npc>>
    /\ \A y \in Live' : y \in Live /\ Keeps(y, FlowFields)

(* It does that.                                                           *)
LEMMA RetireWindow ==
    ASSUME WindowInv, MarkInv, RetireStep, NEW x, x = Head(rob), NEW q, q = Advance(x)
    PROVE  RetiredWindow(x, q)
<1>1. RetireOp(x)
  BY RetireHead
<1>2. path' = q /\ UNCHANGED <<decode_queue, fetch_queue, fetch_pc, delay_slot_npc>>
  BY <1>1 DEF RetireOp
<1> QED
  BY <1>2, FlowKept DEF RetiredWindow

(* A retired operation was fetched where the program is, and the others    *)
(* were fetched behind it.                                                 *)
LEMMA RetireStream ==
    ASSUME PlainSlots, WindowInv, WindowInv', MarkInv, ControlInv, PathInv, LinksAway, RetireStep,
           Following, NEW x, x = Head(rob), ~ op[x].exc, InsnOf(x).k \notin {"break", "monitor"}
    PROVE  /\ InStream'
           /\ Advance(x).pend # -1 => InSlot(Advance(x).pc) /\ op[x].slot
<1>0. InStream /\ SlotNext
  BY DEF PathInv
<1>1. /\ x \in Elems(rob) /\ op[x].done /\ op[x].issued /\ ~ op[x].lexc
      /\ rob # <<>> /\ rob' = Tail(rob) /\ x \in Live
  BY RetireData, LoadsLive
<1>2. PICK q : q = Advance(x)
  OBVIOUS
<1>3. RetiredWindow(x, q)
  BY <1>2, RetireWindow
<1>4. PICK a, b, c, s, t, O, O2, p, f, d :
        /\ a = rob /\ b = decode_queue /\ c = fetch_queue /\ s = a \o b \o c /\ t = Tail(s)
        /\ O = op /\ O2 = op' /\ p = path /\ f = fetch_pc /\ d = delay_slot_npc
  OBVIOUS
<1>5. a \in Seq(Ids) /\ b \in Seq(Ids) /\ c \in Seq(Ids) /\ a # <<>> /\ s \in Seq(Ids)
  BY <1>1, <1>4 DEF WindowInv, Shape
<1>6. t = rob' \o decode_queue' \o fetch_queue' /\ s # <<>> /\ s[1] = x
  <2>1. a \o b # <<>> /\ (a \o b)[1] = Head(a) /\ Tail(a) \o b = Tail(a \o b) /\ a \o b \in Seq(Ids)
    BY <1>5, QueueLeave
  <2>2. (a \o b) \o c # <<>> /\ ((a \o b) \o c)[1] = Head(a \o b) /\ Tail(a \o b) \o c = Tail((a \o b) \o c)
    BY <1>5, <2>1, QueueLeave
  <2>3. Head(a \o b) = (a \o b)[1]
    BY <2>1
  <2> QED
    BY <1>1, <1>3, <1>4, <2>1, <2>2, <2>3 DEF RetiredWindow
<1>7. PICK F, D : Linked(s, O, F, D) /\ Fits(p, F[1], D[1]) /\ F[Len(s) + 1] = f /\ D[Len(s) + 1] = d
  BY <1>0, <1>4 DEF InStream, Streamed
<1>8. FetchedAt(op[x], F[1], D[1], F[2], D[2])
  <2>1. 1 \in 1 .. Len(s) /\ 1 + 1 = 2
    BY <1>5, <1>6
  <2>2. FetchedAt(O[s[1]], F[1], D[1], F[1 + 1], D[1 + 1])
    BY <1>7, <2>1 DEF Linked
  <2> QED
    BY <1>4, <1>6, <2>1, <2>2
<1>9. Fits(q, F[2], D[2]) /\ (q.pend # -1 => InSlot(q.pc) /\ op[x].slot)
  <2>1. Controlled(op[x]) /\ (InsnOf(x).k \in Jumps => op[x].slot)
    BY <1>1 DEF ControlInv, JumpsMarked
  <2>2. InsnOf(x).k = "jalr" => op[x].target # Unsigned(op[x].pc + 4)
    BY <1>1 DEF LinksAway
  <2>3. Fits(path, F[1], D[1]) /\ (path.pend # -1 => InSlot(path.pc))
    BY <1>0, <1>4, <1>7 DEF SlotNext
  <2> QED
    BY <1>1, <1>2, <1>8, <2>1, <2>2, <2>3, AdvanceFits
<1>10. \A y \in Elems(t) : SameFetch(O2[y], O[y])
  <2>1. (WindowInv => /\ rob \o decode_queue \o fetch_queue \in Seq(Ids)
                      /\ Live = Elems(rob \o decode_queue \o fetch_queue))'
    BY LiveQueued, PTL
  <2>2. Live' = Elems(rob' \o decode_queue' \o fetch_queue')
    BY <2>1 DEF Elems
  <2>3. Live' = Elems(t)
    BY <1>6, <2>2
  <2> QED
    BY <1>3, <1>4, <2>3 DEF RetiredWindow, Keeps, FlowFields, SameFetch
<1>11. Streamed(t, O2, q, f, d)
  <2>1. Streamed(Tail(s), O2, q, F[Len(s) + 1], D[Len(s) + 1])
    BY <1>4, <1>5, <1>6, <1>7, <1>9, <1>10, StreamedTail
  <2> QED
    BY <1>4, <1>7, <2>1
<1>12. InStream'
  BY <1>3, <1>4, <1>6, <1>11, InStreamAfter DEF RetiredWindow
<1> QED
  BY <1>2, <1>9, <1>12

(* What retires with the head waits complete behind it.                    *)
LEMMA SecondStays ==
    ASSUME WindowInv, MarkInv, RetireStep, NEW x, x = Head(rob), Len(rob) >= 2,
           NEW y, y = rob[2], op[y].done, SigOf(x).cls # "store"
    PROVE  /\ rob' # <<>> /\ Head(rob') = y /\ op'[y].pc = op[y].pc /\ op'[y].done
           /\ ~ op[y].lexc => ~ op'[y].lexc
<1>1. rob' = Tail(rob) /\ rob # <<>> /\ Elems(rob)' = Elems(rob) \ {x} /\ RetireOp(x) /\ Elems(rob) \subseteq Live
  BY RetireData, RetireHead, LoadsLive
<1>2. Head(rob') = y
  BY <1>1, TailHead DEF WindowInv, Shape
<1>3. rob' # <<>>
  <2>1. PICK a : a = rob
    OBVIOUS
  <2>2. a \in Seq(Ids) /\ Len(a) >= 2
    BY <2>1 DEF WindowInv, Shape
  <2>3. PICK w : w = Tail(a)
    OBVIOUS
  <2>4. w \in Seq(Ids) /\ Len(w) >= 1
    BY <2>2, <2>3
  <2>5. w # <<>>
    BY <2>4
  <2> QED
    BY <1>1, <2>1, <2>3, <2>5
<1>4. y \in Elems(rob) /\ y # x
  <2>1. rob \in Seq(Ids) /\ 2 \in DOMAIN rob /\ 1 \in DOMAIN rob /\ x = rob[1]
    BY <1>1 DEF WindowInv, Shape
  <2> QED
    BY <2>1 DEF Elems, WindowInv, OnePlace, NoRepeat
<1>5. Keeps(y, Outcome \ {"lexc"})
  BY <1>1, <1>4, RetireData
<1>6. op'[y].pc = op[y].pc /\ op'[y].done
  BY <1>5 DEF Keeps, Outcome, Fields
<1>7. ~ op[y].lexc => ~ op'[y].lexc
  BY <1>1, <1>4, RetireNames
<1> QED
  BY <1>2, <1>3, <1>6, <1>7

(* A branch or jump is no store.                                           *)
LEMMA SlotNoStore ==
    ASSUME NEW x, InsnOf(x).k \in Control PROVE SigOf(x).cls # "store"
BY ControlKinds DEF SigOf, InsnOf

(* Retirement follows the path.                                            *)
LEMMA RetirePath ==
    ASSUME PlainSlots, WindowInv, WindowInv', MarkInv, MonitorsMarked, HeadSlot, ControlInv, PathInv,
           LinksAway, RetireStep
    PROVE  PathInv'
<1>0. /\ InStream /\ SlotNext /\ RetirePoint /\ HeadDone /\ \A y \in Live : Controlled(op[y])
  BY DEF PathInv, WindowInv, ControlInv
<1>1. PICK x, q : x = Head(rob) /\ q = Advance(x)
  OBVIOUS
<1>2. /\ x \in Elems(rob) /\ op[x].done /\ op[x].issued /\ ~ op[x].lexc
      /\ rob # <<>> /\ rob' = Tail(rob) /\ x \in Live
  BY <1>1, RetireData, LoadsLive
<1>3. RetiredWindow(x, q)
  BY <1>1, RetireWindow
<1>4. path' = q /\ q = Advance(x)
  BY <1>3 DEF RetiredWindow
<1>5. Controlled(op[x]) /\ (InsnOf(x).k \in Jumps => op[x].slot)
      /\ (InsnOf(x).k = "monitor" => ~ op[x].slot /\ op[x].exc)
  BY <1>2 DEF ControlInv, JumpsMarked, MonitorsMarked
<1>6. /\ op[x].slot => q = [pc |-> Unsigned(op[x].pc + 4), pend |-> op[x].target]
      /\ ~ op[x].slot /\ InsnOf(x).k = "break" => q = path
      /\ ~ op[x].slot /\ InsnOf(x).k \in Branches \cup {"monitor"} => q = [pc |-> op[x].target, pend |-> -1]
      /\ ~ op[x].slot /\ InsnOf(x).k \notin Control \cup {"break", "monitor"} /\ path.pend # -1
            => q = [pc |-> path.pend, pend |-> -1]
  <2>1. "break" \notin Branches \cup {"monitor"}
    BY DEF Branches, Likely, NonLikely
  <2>2. ASSUME op[x].slot PROVE q = [pc |-> Unsigned(op[x].pc + 4), pend |-> op[x].target]
    <3>1. "break" \notin Control
      BY DEF Control, Branches, Likely, NonLikely, Jumps
    <3>2. InsnOf(x).k # "break"
      BY <1>5, <2>2, <3>1 DEF Controlled, InsnOf
    <3> QED
      BY <1>4, <2>2, <3>2 DEF Advance
  <2>3. ASSUME ~ op[x].slot, InsnOf(x).k = "break" PROVE q = path
    BY <1>4, <2>1, <2>3 DEF Advance
  <2>4. ASSUME ~ op[x].slot, InsnOf(x).k \in Branches \cup {"monitor"}
        PROVE  q = [pc |-> op[x].target, pend |-> -1]
    BY <1>4, <2>1, <2>4 DEF Advance
  <2>5. ASSUME ~ op[x].slot, InsnOf(x).k \notin Control \cup {"break", "monitor"}, path.pend # -1
        PROVE  q = [pc |-> path.pend, pend |-> -1]
    BY <1>4, <2>5 DEF Advance, Control
  <2> QED
    BY <2>2, <2>3, <2>4, <2>5
<1> USE DEF u, uu
<1>7. CASE RetireOne
  <2>1. Following /\ ~ op[x].exc /\ (op[x].slot => Len(rob) >= 2 /\ op[rob[2]].done /\ ~ op[rob[2]].lexc)
    BY <1>0, <1>1, <1>7 DEF RetireOne, RetireMore, Following, RetirePoint, HeadDone, SlotDone
  <2>2. ret' = [ret EXCEPT !.amt = @ + 1, !.stop = (InsnOf(x).k = "break")] /\ rpc' = "loop"
    BY <1>1, <1>7 DEF RetireOne
  <2>3. RetirePoint'
    <3>1. DOMAIN ret' = DOMAIN ret
      BY <2>2
    <3> QED
      BY <1>0, <2>2, <3>1 DEF RetirePoint
  <2>4. InsnOf(x).k # "monitor"
    BY <1>5, <2>1
  <2>5. CASE InsnOf(x).k = "break"
    <3>1. ~ op[x].slot
      <4>1. "break" \notin Control
        BY DEF Control, Branches, Likely, NonLikely, Jumps
      <4> QED
        BY <1>5, <2>5, <4>1 DEF Controlled, InsnOf
    <3>2. ret'.stop
      BY <1>0, <2>2, <2>5 DEF RetirePoint
    <3>3. ~ Following'
      BY <3>2 DEF Following
    <3>4. InStream'
      BY <3>3 DEF InStream
    <3>5. q.pend # -1 => InSlot(q.pc)
      BY <1>0, <1>6, <2>5, <3>1 DEF SlotNext
    <3>6. SlotNext'
      BY <1>4, <3>3, <3>5, SlotNextAfter
    <3> QED
      BY <2>3, <3>4, <3>6 DEF PathInv
  <2>6. CASE InsnOf(x).k # "break"
    <3>1. InStream' /\ (q.pend # -1 => InSlot(q.pc) /\ op[x].slot)
      BY <1>1, <2>1, <2>4, <2>6, RetireStream
    <3>2. ASSUME q.pend # -1
          PROVE  rob' # <<>> /\ op'[Head(rob')].done /\ ~ op'[Head(rob')].lexc
      <4>1. op[x].slot /\ InsnOf(x).k \in Control
        BY <1>5, <3>1, <3>2 DEF Controlled, InsnOf
      <4>2. PICK y : y = rob[2]
        OBVIOUS
      <4>3. Len(rob) >= 2 /\ op[y].done /\ ~ op[y].lexc
        BY <2>1, <4>1, <4>2
      <4>4. rob' # <<>> /\ Head(rob') = y /\ op'[y].done /\ ~ op'[y].lexc
        BY <1>1, <4>1, <4>2, <4>3, SlotNoStore, SecondStays
      <4> QED
        BY <4>4
    <3>3. SlotNext'
      BY <1>4, <3>1, <3>2, SlotNextAfter
    <3> QED
      BY <2>3, <3>1, <3>3 DEF PathInv
  <2> QED
    BY <2>5, <2>6
<1>8. CASE ExceptionNoSlot
  <2>1. rpc = "exc" /\ op[x].exc /\ ~ op[x].slot /\ rpc' = "nuke"
        /\ ret' = [ret EXCEPT !.amt = 0, !.restart = op[x].target]
    BY <1>1, <1>8 DEF ExceptionNoSlot
  <2>2. InsnOf(x).k \in Branches \cup {"monitor"}
    BY <1>5, <2>1 DEF Controlled, Control, InsnOf
  <2>3. q = [pc |-> op[x].target, pend |-> -1]
    BY <1>6, <2>1, <2>2
  <2>4. ret'.restart = op[x].target /\ ret'.stop = ret.stop /\ DOMAIN ret' = DOMAIN ret /\ ~ ret.stop
    BY <1>0, <2>1 DEF RetirePoint
  <2>5. RetirePoint'
    BY <1>0, <1>4, <2>1, <2>3, <2>4 DEF RetirePoint
  <2>6. ~ Following'
    BY <2>1 DEF Following
  <2>7. InStream'
    BY <2>6 DEF InStream
  <2>8. SlotNext'
    BY <1>4, <2>3, <2>6, SlotNextAfter
  <2> QED
    BY <2>5, <2>7, <2>8 DEF PathInv
<1>9. CASE ExceptionBranch
  <2>1. rpc = "excslot" /\ rpc' = "excuu" /\ ret' = [ret EXCEPT !.restart = op[x].target]
        /\ Len(rob) >= 2 /\ op[rob[2]].done
    BY <1>1, <1>9 DEF ExceptionBranch, SlotDone
  <2>2. op[x].slot /\ Following
    BY <1>0, <1>1, <2>1 DEF HeadSlot, Following, RetirePoint
  <2>3. InsnOf(x).k \in Control /\ op[x].pc \in DOMAIN Program /\ InsnOf(x) = Program[op[x].pc]
    BY <1>5, <2>2, ControlKinds DEF Controlled, InsnOf, InsnAt
  <2>4. op[rob[2]].pc = Unsigned(op[x].pc + 4)
    BY <1>0, <1>1, <1>2, <2>1, <2>2, HeadOnPath
  <2>5. PICK y : y = rob[2]
    OBVIOUS
  <2>6. Head(rob') = y /\ op'[y].pc = op[y].pc
    BY <1>1, <2>1, <2>3, <2>5, SlotNoStore, SecondStays
  <2>7. q = [pc |-> Unsigned(op[x].pc + 4), pend |-> op[x].target]
    BY <1>6, <2>2
  <2>8. op[x].target # -1
    <3>1. op[x].target \in Word
      BY <1>2, <1>5, <2>3 DEF Controlled, Resolved, BranchResolved, Control, InsnOf
    <3> QED
      BY <3>1, WordFacts
  <2>9. InSlot(q.pc)
    BY <2>3, <2>7 DEF InSlot
  <2>10. ret'.restart = op[x].target /\ ret'.stop = ret.stop /\ DOMAIN ret' = DOMAIN ret /\ ~ ret.stop
    BY <1>0, <2>1 DEF RetirePoint
  <2>11. RetirePoint'
    BY <1>0, <1>4, <2>1, <2>4, <2>5, <2>6, <2>7, <2>8, <2>10 DEF RetirePoint
  <2>12. ~ Following'
    BY <2>1 DEF Following
  <2>13. InStream'
    BY <2>12 DEF InStream
  <2>14. SlotNext'
    BY <1>4, <2>9, <2>12, SlotNextAfter
  <2> QED
    BY <2>11, <2>13, <2>14 DEF PathInv
<1>10. CASE ExceptionSlot
  <2>1. rpc = "excuu" /\ rpc' = "nuke" /\ ret' = ret
    BY <1>10 DEF ExceptionSlot
  <2>2. op[x].pc = path.pc /\ path.pend = ret.restart /\ path.pend # -1 /\ ~ ret.stop
    BY <1>0, <1>1, <2>1 DEF RetirePoint
  <2>3. InSlot(path.pc)
    BY <1>0, <2>2 DEF SlotNext
  <2>4. InsnOf(x).k \notin Control \cup {"break", "monitor"}
    BY <2>2, <2>3, SlotPlain DEF InsnOf
  <2>5. ~ op[x].slot
    BY <1>5, <2>4 DEF Controlled, InsnOf
  <2>6. q = [pc |-> path.pend, pend |-> -1]
    BY <1>6, <2>2, <2>4, <2>5
  <2>7. RetirePoint'
    BY <1>0, <1>4, <2>1, <2>2, <2>6 DEF RetirePoint
  <2>8. ~ Following'
    BY <2>1 DEF Following
  <2>9. InStream'
    BY <2>8 DEF InStream
  <2>10. SlotNext'
    BY <1>4, <2>6, <2>8, SlotNextAfter
  <2> QED
    BY <2>7, <2>9, <2>10 DEF PathInv
<1> QED
  BY <1>7, <1>8, <1>9, <1>10 DEF RetireStep

(* The path says what Stream says.                                         *)
LEMMA PathStream ==
    ASSUME PlainSlots, WindowInv, ControlInv, PathInv
    PROVE  Stream
<1> SUFFICES ASSUME ~ nuke, rpc \notin {"excuu", "nuke", "done"}, ~ ret.stop
             PROVE  LET s == rob \o decode_queue \o fetch_queue
                        p(j) == op[s[j]].pc
                    IN  /\ s # <<>> => p(1) = path.pc
                        /\ \A j \in 2 .. Len(s) :
                            \/ p(j) = Unsigned(p(j - 1) + 4)
                            \/ j = 2 /\ p(j) = path.pend
                            \/ j > 2 /\ p(j - 1) = Unsigned(p(j - 2) + 4) /\ p(j) = op[s[j - 2]].npc
                        /\ \A j \in 1 .. Len(s) - 1 : op[s[j]].slot => p(j + 1) = Unsigned(p(j) + 4)
  BY DEF Stream
<1>1. Following
  BY DEF Following, WindowInv, Recovery
<1>2. PICK s, O, p, f, d : /\ s = rob \o decode_queue \o fetch_queue /\ O = op /\ p = path
                           /\ f = fetch_pc /\ d = delay_slot_npc
  OBVIOUS
<1>3. Streamed(s, O, p, f, d)
  BY <1>1, <1>2 DEF PathInv, InStream
<1>4. s \in Seq(Ids) /\ Live = Elems(s)
  BY <1>2, LiveQueued
<1>5. p.pend # -1 => InSlot(p.pc)
  BY <1>2 DEF PathInv, SlotNext
<1>6. \A x \in Elems(s) : O[x].slot => InsnAt(O[x].pc).k \in Control
  BY <1>2, <1>4 DEF ControlInv, Controlled
<1>7. InOrderOf(s, O, p)
  BY <1>3, <1>4, <1>5, <1>6, StreamedInOrder
<1> QED
  BY <1>2, <1>7 DEF InOrderOf

(* Every step follows the path.                                            *)
LEMMA NextPath ==
    ASSUME PlainSlots, WindowInv, WindowInv', MarkInv, MonitorsMarked, HeadSlot, ControlInv, TargetsInv,
           PathInv, LinksAway, [Next]_vars
    PROVE  PathInv'
<1>1. \A y \in Live : Controlled(op[y])
  BY DEF ControlInv
<1>2. CASE FetchSlot \/ FetchInsn
  BY <1>2, FetchPath
<1>3. CASE \/ DecodeOne \/ AllocateOne \/ ExecuteOne \/ CompleteOne \/ CacheTick \/ NextCycle
           \/ ThreadYield \/ Terminated \/ UNCHANGED vars
  BY <1>3, WindowPath
<1>4. CASE QuietRetire
  BY <1>1, <1>4, RetireMovesPath
<1>5. CASE RetireStep
  BY <1>5, RetirePath
<1>6. CASE Nuke \/ RecoverySleep
  BY <1>6, RecoveryPath
<1> QED
  BY <1>2, <1>3, <1>4, <1>5, <1>6, StepKinds DEF QuietStep, QuietFront

(* Initially nothing has been fetched, and the program is at fetch_pc.     *)
LEMMA InitPath == Init => ControlInv /\ TargetsInv /\ PathInv
<1> SUFFICES ASSUME Init PROVE ControlInv /\ TargetsInv /\ PathInv
  OBVIOUS
<1>1. Live = {} /\ Elems(rob) \cup Elems(decode_queue) = {}
  BY DEF Init, Live, Elems
<1>2. ControlInv
  BY <1>1 DEF ControlInv, JumpsMarked
<1>3. TargetsInv
  <2>1. DOMAIN branch_target_map = {}
    BY DEF Init
  <2> QED
    BY <2>1 DEF TargetsInv
<1>4. path.pend = -1 /\ path.pc = fetch_pc
  BY DEF Init
<1>5. InStream
  <2>1. PICK O, p : O = op /\ p = path
    OBVIOUS
  <2>2. Streamed(<<>>, O, p, p.pc, 0)
    BY <1>4, <2>1, StreamedEmpty
  <2>3. rob \o decode_queue \o fetch_queue = <<>>
    BY DEF Init
  <2> QED
    BY <1>4, <2>1, <2>2, <2>3 DEF InStream, Init
<1>6. SlotNext
  BY <1>4 DEF SlotNext
<1>7. RetirePoint
  BY DEF Init, RetirePoint, NoRetire
<1> QED
  BY <1>2, <1>3, <1>5, <1>6, <1>7 DEF PathInv

(* The oldest operation is the one the program executes next, and behind a *)
(* branch or jump comes its delay slot, whatever was predicted and however *)
(* often the window was thrown away.                                       *)
THEOREM StreamHolds ==
    WordOps /\ FpWords /\ PlainSlots =>
        (Spec /\ []StoresAligned /\ []LinksAway => []Stream)
<1> SUFFICES ASSUME WordOps /\ FpWords /\ PlainSlots
             PROVE  Spec /\ []StoresAligned /\ []LinksAway => []Stream
  OBVIOUS
<1> DEFINE I == TypeInv /\ MonitorsMarked /\ HeadSlot /\ ControlInv /\ TargetsInv /\ PathInv
           H == StoresAligned /\ LinksAway
<1>1. Init => I
  BY InitTypes, InitFresh, InitPath DEF BlockInv
<1>2. I /\ H /\ [Next]_vars => I'
  <2> SUFFICES ASSUME I, H, [Next]_vars PROVE I'
    OBVIOUS
  <2>1. TypeInv'
    BY NextTyped
  <2>2. WindowInv /\ WindowInv' /\ MarkInv
    BY <2>1 DEF TypeInv
  <2>3. MonitorsMarked' /\ HeadSlot'
    BY <2>2, NextMonitors, NextHeadSlot
  <2>4. ControlInv'
    <3>1. (\A y \in Live : Controlled(op[y])) /\ JumpsMarked
      BY DEF ControlInv
    <3>2. JumpsMarked'
      BY <2>2, <3>1, NextJumps
    <3>3. \A y \in Live' : Controlled(op'[y])
      BY <2>2, <3>1, NextControlled
    <3> QED
      BY <3>2, <3>3 DEF ControlInv
  <2>5. TargetsInv'
    BY <2>2, NextTargets
  <2>6. PathInv'
    BY <2>2, NextPath
  <2> QED
    BY <2>1, <2>3, <2>4, <2>5, <2>6
<1>3. I => Stream
  BY PathStream DEF TypeInv
<1> HIDE DEF I, H
<1> QED
  BY <1>1, <1>2, <1>3, PTL DEF Spec, H

-----------------------------------------------------------------------------
(* The steps of the core are steps of RegRename                            *)

(* The rob, the registers and the signatures as RegRename sees them.       *)
Entries == [j \in DOMAIN rob |-> RenameEntry(rob[j])]
Retired == [r \in Regs |-> prf[rat_retire[r]]]
SrcIn == [a \in Pcs |-> decode_insn(InsnAt(a)).src]
DstIn == [a \in Pcs |-> DstOf(a)]
AtIn == [a \in Pcs |-> decode_insn(InsnAt(a)).at]

(* What an operation has done, as the st of its entry says it.             *)
Phase(x, s) ==
    s = CASE ~ op[x].issued                  -> "allocated"
          [] op[x].issued /\ ~ op[x].done    -> "executed"
          [] SigOf(x).cls = "load" /\ op[x].done /\ ~ Taken(x) \subseteq valid
                                             -> "faulted"
          [] OTHER                           -> "complete"

(* An entry by its fields.                                                 *)
LEMMA EntryFields ==
    \A x, s : Phase(x, s) =>
        RenameEntry(x) = [op |-> OpOf(x), st |-> s, src |-> op[x].src,
                          new |-> ByReg(x, op[x].new), prev |-> ByReg(x, op[x].prev)]
<1> SUFFICES ASSUME NEW x, NEW s, Phase(x, s)
             PROVE  RenameEntry(x) = [op |-> OpOf(x), st |-> s, src |-> op[x].src,
                                      new |-> ByReg(x, op[x].new), prev |-> ByReg(x, op[x].prev)]
  OBVIOUS
<1>1. Taken(x) = RangeSet(op[x].new)
  BY DEF Taken, RangeOf, RangeSet
<1> QED
  BY <1>1 DEF Phase, RenameEntry

(* The signature its op stands for.                                        *)
LEMMA EntrySig ==
    ASSUME NEW x
    PROVE  /\ SrcIn[OpOf(x)] = SigOf(x).src
           /\ DstIn[OpOf(x)] = RangeSet(SigOf(x).dst)
           /\ AtIn[OpOf(x)] = SigOf(x).at
           /\ OpOf(x) \in Pcs
<1>1. OpOf(x) \in Pcs /\ decode_insn(InsnAt(OpOf(x))) = SigOf(x)
  BY EntryOp
<1> QED
  BY <1>1 DEF SrcIn, DstIn, AtIn, DstOf

(* An operation that keeps its names, and its phase or a new one.          *)
LEMMA EntryAfter ==
    ASSUME NEW x, Keeps(x, Names), NEW s, Phase(x, s)'
    PROVE  RenameEntry(x)' = [RenameEntry(x) EXCEPT !.st = s]
<1>1. /\ op'[x].pc = op[x].pc /\ op'[x].src = op[x].src
      /\ op'[x].new = op[x].new /\ op'[x].prev = op[x].prev
  BY DEF Keeps, Names
<1>2. SigOf(x)' = SigOf(x)
  BY SigKept
<1>3. /\ OpOf(x)' = OpOf(x)
      /\ ByReg(x, op[x].new)' = ByReg(x, op[x].new)
      /\ ByReg(x, op[x].prev)' = ByReg(x, op[x].prev)
  BY <1>1, <1>2 DEF OpOf, ByReg
<1>4. RenameEntry(x)' = [op |-> OpOf(x)', st |-> s, src |-> op'[x].src,
                         new |-> ByReg(x, op[x].new)', prev |-> ByReg(x, op[x].prev)']
  <2>1. Taken(x)' = RangeSet(op'[x].new)
    BY DEF Taken, RangeOf, RangeSet
  <2> QED
    BY <2>1 DEF Phase, RenameEntry
<1>5. PICK t : Phase(x, t)
  BY DEF Phase
<1>6. RenameEntry(x) = [op |-> OpOf(x), st |-> t, src |-> op[x].src,
                        new |-> ByReg(x, op[x].new), prev |-> ByReg(x, op[x].prev)]
  BY <1>5, EntryFields
<1> QED
  BY <1>1, <1>3, <1>4, <1>6

(* An operation whose phase does not change: no valid bit of its own       *)
(* registers does.                                                         *)
LEMMA EntryKept ==
    ASSUME NEW x, Keeps(x, Names), op'[x].issued = op[x].issued, op'[x].done = op[x].done,
           \A p \in Taken(x) : p \in valid' <=> p \in valid
    PROVE  RenameEntry(x)' = RenameEntry(x)
<1>1. PICK t : Phase(x, t)
  BY DEF Phase
<1>2. SigOf(x)' = SigOf(x) /\ Taken(x)' = Taken(x)
  BY RenamedKept
<1>3. Phase(x, t)'
  BY <1>1, <1>2 DEF Phase
<1>4. RenameEntry(x)' = [RenameEntry(x) EXCEPT !.st = t]
  BY <1>3, EntryAfter
<1>5. RenameEntry(x) = [op |-> OpOf(x), st |-> t, src |-> op[x].src,
                        new |-> ByReg(x, op[x].new), prev |-> ByReg(x, op[x].prev)]
  BY <1>1, EntryFields
<1> QED
  BY <1>4, <1>5

(* The entries by their positions.                                         *)
LEMMA EntriesShape ==
    ASSUME Shape
    PROVE  /\ Len(rob) \in Nat /\ DOMAIN rob = 1 .. Len(rob)
           /\ Entries = [j \in 1 .. Len(rob) |-> RenameEntry(rob[j])]
           /\ DOMAIN Entries = 1 .. Len(rob) /\ Len(Entries) = Len(rob)
           /\ \A j \in 1 .. Len(rob) : Entries[j] = RenameEntry(rob[j])
<1>1. Len(rob) \in Nat /\ DOMAIN rob = 1 .. Len(rob)
  BY RobElems
<1>2. Entries = [j \in 1 .. Len(rob) |-> RenameEntry(rob[j])]
  BY <1>1 DEF Entries
<1>3. DOMAIN Entries = 1 .. Len(rob) /\ \A j \in 1 .. Len(rob) : Entries[j] = RenameEntry(rob[j])
  BY <1>2
<1>4. Len(Entries) = Len(rob)
  BY <1>1, <1>2
<1> QED
  BY <1>1, <1>2, <1>3, <1>4

(* The rob stays and one entry changes.                                    *)
LEMMA OneEntry ==
    ASSUME WindowInv, NEW j \in DOMAIN rob, NEW x, x = rob[j], rob' = rob, NEW s,
           RenameEntry(x)' = [RenameEntry(x) EXCEPT !.st = s],
           \A y \in Elems(rob) : y # x => RenameEntry(y)' = RenameEntry(y)
    PROVE  Entries' = [Entries EXCEPT ![j].st = s]
<1>1. Shape /\ NoRepeat(rob)
  BY DEF WindowInv, OnePlace
<1>2. \A k \in DOMAIN rob : rob[k] \in Elems(rob) /\ (k # j => rob[k] # x)
  BY <1>1 DEF NoRepeat, Elems
<1>3. DOMAIN Entries = DOMAIN rob /\ \A k \in DOMAIN rob : Entries[k] = RenameEntry(rob[k])
  BY DEF Entries
<1>4. Entries' = [k \in DOMAIN rob |-> RenameEntry(rob[k])']
  BY DEF Entries
<1>5. \A k \in DOMAIN rob : RenameEntry(rob[k])' =
          IF k = j THEN [Entries[k] EXCEPT !.st = s] ELSE Entries[k]
  <2> SUFFICES ASSUME NEW k \in DOMAIN rob
               PROVE  RenameEntry(rob[k])' =
                        IF k = j THEN [Entries[k] EXCEPT !.st = s] ELSE Entries[k]
    OBVIOUS
  <2>1. PICK y : y = rob[k]
    OBVIOUS
  <2>2. RenameEntry(y)' = IF k = j THEN [RenameEntry(y) EXCEPT !.st = s] ELSE RenameEntry(y)
    BY <1>2, <2>1
  <2> QED
    BY <1>3, <2>1, <2>2
<1>6. [Entries EXCEPT ![j].st = s] =
        [k \in DOMAIN rob |-> IF k = j THEN [Entries[k] EXCEPT !.st = s] ELSE Entries[k]]
  BY <1>3, Zenon
<1> QED
  BY <1>4, <1>5, <1>6

(* What x writes register by register is what RegRename writes.            *)
LEMMA EntryWrites ==
    ASSUME NEW x, op[x].new \in [DOMAIN SigOf(x).dst -> Pregs], Injective(op[x].new), NEW w
    PROVE  Rename!Write(RenameEntry(x), ByReg(x, w)) = WritePrf(x, w)
<1> DEFINE d == SigOf(x).dst
           n == op[x].new
           e == RenameEntry(x)
           res == ByReg(x, w)
<1>1. e.op = OpOf(x) /\ e.new = ByReg(x, n)
  BY DEF RenameEntry
<1>2. NoRepeat(d)
  BY SigOfShaped DEF SigShape
<1>3. ASSUME NEW k \in DOMAIN d
      PROVE  d[k] \in RangeSet(d) /\ e.new[d[k]] = n[k] /\ res[d[k]] = w[k]
  <2>1. d[k] \in RangeSet(d)
    BY DEF RangeSet
  <2>2. (CHOOSE j \in DOMAIN d : d[j] = d[k]) = k
    BY <1>2 DEF NoRepeat
  <2>3. \A v : ByReg(x, v) =
                [r \in RangeSet(d) |-> v[CHOOSE j \in DOMAIN d : d[j] = r]]
    BY Zenon DEF ByReg, d
  <2>4. \A v : ByReg(x, v)[d[k]] = v[CHOOSE j \in DOMAIN d : d[j] = d[k]]
    <3> HIDE DEF d
    <3> QED
      BY <2>1, <2>3
  <2>5. \A v : ByReg(x, v)[d[k]] = v[k]
    BY <2>2, <2>4, Zenon
  <2>6. e.new[d[k]] = n[k] /\ res[d[k]] = w[k]
    BY <1>1, <2>5, Zenon
  <2> QED
    BY <2>1, <2>6
<1>4. \A r \in RangeSet(d) : \E k \in DOMAIN d : r = d[k]
  BY DEF RangeSet
<1>5. DstIn[e.op] = RangeSet(d)
  BY <1>1, EntrySig
<1>6. DOMAIN n = DOMAIN d /\ \A j, k \in DOMAIN d : n[j] = n[k] => j = k
  BY DEF Injective
<1> HIDE DEF d, n, e, res
<1>7. ASSUME NEW p \in Pregs
      PROVE  (IF \E r \in DstIn[e.op] : e.new[r] = p
              THEN res[CHOOSE r \in DstIn[e.op] : e.new[r] = p] ELSE prf[p])
             = (IF \E k \in DOMAIN n : n[k] = p
                THEN w[CHOOSE k \in DOMAIN n : n[k] = p] ELSE prf[p])
  <2>1. CASE \E k \in DOMAIN n : n[k] = p
    <3>1. PICK k \in DOMAIN n : n[k] = p
      BY <2>1
    <3>2. (CHOOSE j \in DOMAIN n : n[j] = p) = k
      BY <1>6, <3>1
    <3>3. d[k] \in DstIn[e.op] /\ e.new[d[k]] = p
      BY <1>3, <1>5, <1>6, <3>1
    <3>4. \A r \in DstIn[e.op] : e.new[r] = p => r = d[k]
      BY <1>3, <1>4, <1>5, <1>6, <3>1
    <3>5. (CHOOSE r \in DstIn[e.op] : e.new[r] = p) = d[k]
      BY <3>3, <3>4
    <3>6. res[d[k]] = w[k]
      BY <1>3, <1>6, <3>1
    <3> QED
      BY <2>1, <3>2, <3>3, <3>5, <3>6
  <2>2. CASE ~ \E k \in DOMAIN n : n[k] = p
    <3>1. ~ \E r \in DstIn[e.op] : e.new[r] = p
      BY <1>3, <1>4, <1>5, <1>6, <2>2
    <3> QED
      BY <2>2, <3>1
  <2> QED
    BY <2>1, <2>2
<1>8. Rename!Write(e, res) =
        [p \in Pregs |-> IF \E r \in DstIn[e.op] : e.new[r] = p
                         THEN res[CHOOSE r \in DstIn[e.op] : e.new[r] = p] ELSE prf[p]]
  BY DEF Rename!Write, DstIn
<1>9. WritePrf(x, w) = [p \in Pregs |-> IF \E k \in DOMAIN n : n[k] = p
                                        THEN w[CHOOSE k \in DOMAIN n : n[k] = p] ELSE prf[p]]
  BY DEF WritePrf, n
<1>10. Rename!Write(e, res) = WritePrf(x, w)
  <2> DEFINE f(p) == IF \E r \in DstIn[e.op] : e.new[r] = p
                     THEN res[CHOOSE r \in DstIn[e.op] : e.new[r] = p] ELSE prf[p]
             g(p) == IF \E k \in DOMAIN n : n[k] = p
                     THEN w[CHOOSE k \in DOMAIN n : n[k] = p] ELSE prf[p]
  <2>1. \A p \in Pregs : f(p) = g(p)
    BY <1>7, Zenon
  <2>2. Rename!Write(e, res) = [p \in Pregs |-> f(p)]
    BY <1>8, Zenon
  <2>3. WritePrf(x, w) = [p \in Pregs |-> g(p)]
    BY <1>9, Zenon
  <2> HIDE DEF f, g
  <2>4. [p \in Pregs |-> f(p)] = [p \in Pregs |-> g(p)]
    BY <2>1
  <2> QED
    BY <2>2, <2>3, <2>4, Zenon
<1> QED
  BY <1>10, Zenon DEF e, res

(* Words by register are words.                                            *)
LEMMA ByRegTyped ==
    ASSUME NEW x, NEW S, NEW w, \A k \in DOMAIN SigOf(x).dst : w[k] \in S
    PROVE  ByReg(x, w) \in [DstOf(OpOf(x)) -> S]
<1> DEFINE d == SigOf(x).dst
<1>1. DstOf(OpOf(x)) = RangeSet(d)
  BY EntryOp DEF DstOf
<1>2. ASSUME NEW r \in RangeSet(d) PROVE w[CHOOSE k \in DOMAIN d : d[k] = r] \in S
  BY DEF RangeSet
<1> QED
  BY <1>1, <1>2 DEF ByReg

(* Only a division by zero depends on what the new registers held.         *)
LEMMA ValueFresh ==
    ASSUME NEW i, NEW a, NEW v, NEW old, ~ (i.k \in {"div", "divu"} /\ v[GPR(i.rt)] = 0)
    PROVE  \A any : Value(i, a, v, any) = Value(i, a, v, old)
<1> SUFFICES ASSUME NEW any PROVE Value(i, a, v, any) = Value(i, a, v, old)
  OBVIOUS
<1>1. i.k \in MultDiv \cup {"madd", "msub"} => MultDivValue(i, v, any) = MultDivValue(i, v, old)
  BY DEF MultDivValue, MultDiv
<1> QED
  BY <1>1, SMT DEF Value

(* What execute() may leave, whatever the new registers held.              *)
ComputedBy(a, i, s, v) ==
    IF i.k \in {"div", "divu"} /\ v[GPR(i.rt)] = 0 THEN [DstOf(a) -> Word]
    ELSE {[r \in DstOf(a) |-> Value(i, a, v, [j \in DOMAIN s.dst |-> 0])
                                [CHOOSE j \in DOMAIN s.dst : s.dst[j] = r]]}

(* The results that RegRename allows, by the method that writes them.      *)
LEMMA EvalCases ==
    ASSUME NEW a, NEW v
    PROVE  LET at == decode_insn(InsnAt(a)).at
           IN  /\ at = "complete" => EvalOf(a, v) = [DstOf(a) -> LoadVals]
               /\ at = "retire" => EvalOf(a, v) = [DstOf(a) -> HostResults \cup {0}]
               /\ at = "execute" =>
                    EvalOf(a, v) = ComputedBy(a, InsnAt(a), decode_insn(InsnAt(a)), v)
<1> DEFINE i == InsnAt(a)
           s == decode_insn(i)
           L == [DstOf(a) -> LoadVals]
           M == [DstOf(a) -> HostResults \cup {0}]
           D == [DstOf(a) -> Word]
           w == Value(i, a, v, [j \in DOMAIN s.dst |-> 0])
           O == {[r \in DstOf(a) |-> w[CHOOSE j \in DOMAIN s.dst : s.dst[j] = r]]}
           byZero == i.k \in {"div", "divu"} /\ v[GPR(i.rt)] = 0
<1>1. EvalOf(a, v) = CASE s.at = "complete"             -> L
                       [] s.at = "retire"               -> M
                       [] s.at = "execute" /\ byZero    -> D
                       [] s.at = "execute" /\ ~ byZero  -> O
  BY DEF EvalOf
<1>2. ComputedBy(a, i, s, v) = IF byZero THEN D ELSE O
  BY DEF ComputedBy
<1> HIDE DEF D, O, byZero
<1> QED
  BY <1>1, <1>2

(* What execute() computes is a result RegRename allows.                   *)
LEMMA ExecuteEval ==
    ASSUME NEW x, SigOf(x).at = "execute", SigOf(x).dst # <<>>, NEW v, NEW old,
           Words(SigOf(x), old), NEW w, w = Value(InsnOf(x), op[x].pc, v, old)
    PROVE  ByReg(x, w) \in EvalOf(OpOf(x), v)
<1> DEFINE a == OpOf(x)
           i == InsnOf(x)
           s == SigOf(x)
           z == [j \in DOMAIN s.dst |-> 0]
<1>1. op[x].pc = a
  <2> SUFFICES ASSUME op[x].pc \notin Pcs PROVE FALSE
    BY DEF OpOf
  <2>1. i = Nop
    BY DEF InsnOf, InsnAt, Pcs
  <2>2. decode_insn(Nop).dst = <<>>
    <3>1. decode_insn(Nop) = decode_rtype_insn(Nop)
      BY DEF decode_insn, ConstShift, RType, CondMove, LoHi, MultDiv, FpCmp, FpCondMove, FpRegMove,
         ToSingle, ToDouble, FpArithD, FpArithS, Nop, Insn
    <3>2. decode_rtype_insn(Nop) = rtype_const_shift_alu_op(Nop)
      BY DEF decode_rtype_insn, ConstShift, Nop, Insn, RType, CondMove, LoHi, MultDiv
    <3> QED
      BY <3>1, <3>2 DEF rtype_const_shift_alu_op, Alu, Sig, Nop, Insn
  <2> QED
    BY <2>1, <2>2 DEF SigOf
<1>2. InsnAt(a) = i /\ decode_insn(i) = s
  BY <1>1 DEF InsnOf, SigOf
<1>3. s.at = "execute"
  OBVIOUS
<1>4. DstOf(a) = RangeSet(s.dst)
  BY <1>2 DEF DstOf
<1> HIDE DEF a, i, s
<1>5. CASE i.k \in {"div", "divu"} /\ v[GPR(i.rt)] = 0
  <2>1. w = old
    BY <1>5 DEF Value, MultDivValue, MultDiv, ConstShift, RType, IType, CondMove, FpCondMove,
       FpRegMove, FpCmp, i
  <2>2. EvalOf(a, v) = [DstOf(a) -> Word]
    BY <1>2, <1>3, <1>5, EvalCases DEF ComputedBy
  <2> QED
    BY <2>1, <2>2, ByRegTyped DEF Words, a
<1>6. CASE ~ (i.k \in {"div", "divu"} /\ v[GPR(i.rt)] = 0)
  <2>1. w = Value(i, a, v, z)
    BY <1>1, <1>6, ValueFresh DEF i
  <2>4. EvalOf(a, v) = ComputedBy(a, i, s, v)
    BY <1>2, <1>3, EvalCases
  <2>2. EvalOf(a, v) = {[r \in DstOf(a) |-> Value(i, a, v, z)[CHOOSE j \in DOMAIN s.dst : s.dst[j] = r]]}
    BY <1>6, <2>4, Zenon DEF ComputedBy
  <2>3. ByReg(x, w) = [r \in RangeSet(s.dst) |-> w[CHOOSE j \in DOMAIN s.dst : s.dst[j] = r]]
    BY DEF ByReg, s
  <2> QED
    BY <1>4, <2>1, <2>2, <2>3 DEF a
<1> QED
  BY <1>5, <1>6

(* What complete() loads, and what the host returns.                       *)
LEMMA LoadEval ==
    ASSUME Word \subseteq LoadVals, NEW x, SigOf(x).cls = "load", NEW w, Words(SigOf(x), w), NEW v
    PROVE  ByReg(x, w) \in EvalOf(OpOf(x), v)
<1>1. EvalOf(OpOf(x), v) = [DstOf(OpOf(x)) -> LoadVals]
  BY EntryOp, EvalCases, SigOfShaped DEF SigShape
<1>2. \A k \in DOMAIN SigOf(x).dst : w[k] \in LoadVals
  BY DEF Words
<1> QED
  BY <1>1, <1>2, ByRegTyped

LEMMA MonitorSig == ASSUME NEW i, i.k = "monitor" PROVE decode_insn(i) = monitor_op(i)
<1>1. decode_insn(i) = decode_rtype_insn(i)
  BY DEF decode_insn, ConstShift, RType, CondMove, LoHi, MultDiv, FpCmp, FpCondMove,
     FpRegMove, ToSingle, ToDouble, FpArithD, FpArithS
<1>2. decode_rtype_insn(i) = monitor_op(i)
  BY DEF decode_rtype_insn, ConstShift, RType, CondMove, LoHi, MultDiv
<1> QED
  BY <1>1, <1>2

LEMMA MonitorEval ==
    ASSUME NEW x, InsnOf(x).k = "monitor", NEW h \in HostResults \cup {0}, NEW v
    PROVE  ByReg(x, <<h>>) \in EvalOf(OpOf(x), v)
<1>1. SigOf(x).at = "retire"
  BY MonitorAt
<1>3. EvalOf(OpOf(x), v) = [DstOf(OpOf(x)) -> HostResults \cup {0}]
  BY <1>1, EntryOp, EvalCases
<1>4. SigOf(x).dst = <<GPR(2)>>
  BY MonitorSig DEF SigOf, monitor_op, Sig
<1>5. \A k \in DOMAIN SigOf(x).dst : <<h>>[k] \in HostResults \cup {0}
  BY <1>4
<1> QED
  BY <1>3, <1>5, ByRegTyped

(* Each action of RegRename, from what it asks of an entry.                *)
Results(e) == EvalOf(e.op, [r \in SrcIn[e.op] |-> prf[e.src[r]]])

LEMMA ExecuteMatches ==
    ASSUME NEW j, NEW e, Entries[j] = e, e.st = "allocated",
           \A r \in SrcIn[e.op] : e.src[r] \in valid,
           Entries' = [Entries EXCEPT ![j].st = "executed"],
           IF AtIn[e.op] = "execute" THEN \E res \in Results(e) : prf' = Rename!Write(e, res)
                                     ELSE prf' = prf,
           UNCHANGED <<rat, rat_retire, freevec, freevec_retire, valid>>, Retired' = Retired
    PROVE  Rename!Execute(j)
<1>1. IF AtIn[Entries[j].op] = "execute"
      THEN \E res \in Results(Entries[j]) : prf' = Rename!Write(Entries[j], res) ELSE prf' = prf
  OBVIOUS
<1>2. Entries[j].st = "allocated" /\ \A r \in SrcIn[Entries[j].op] : Entries[j].src[r] \in valid
  OBVIOUS
<1> QED
  BY <1>1, <1>2, Zenon DEF Rename!Execute, Rename!Ready, Rename!SrcVals, Entries, Retired, SrcIn, AtIn, Results

LEMMA CompleteMatches ==
    ASSUME NEW j, NEW e, Entries[j] = e, e.st = "executed",
           Entries' = [Entries EXCEPT ![j].st = "complete"],
           IF AtIn[e.op] = "complete" THEN \E res \in Results(e) : prf' = Rename!Write(e, res)
                                      ELSE prf' = prf,
           valid' = IF AtIn[e.op] = "retire" THEN valid ELSE valid \cup RangeOf(e.new),
           UNCHANGED <<rat, rat_retire, freevec, freevec_retire>>, Retired' = Retired
    PROVE  Rename!Complete(j)
<1>1. IF AtIn[Entries[j].op] = "complete"
      THEN \E res \in Results(Entries[j]) : prf' = Rename!Write(Entries[j], res) ELSE prf' = prf
  OBVIOUS
<1>2. Entries[j].st = "executed"
  OBVIOUS
<1>3. valid' = IF AtIn[Entries[j].op] = "retire" THEN valid ELSE valid \cup RangeOf(Entries[j].new)
  OBVIOUS
<1> QED
  BY <1>1, <1>2, <1>3, Zenon
     DEF Rename!Complete, Rename!RangeOf, RangeOf, Rename!SrcVals, Entries, Retired, SrcIn, AtIn, Results

LEMMA FaultMatches ==
    ASSUME NEW j, NEW e, Entries[j] = e, e.st = "executed", AtIn[e.op] = "complete",
           Entries' = [Entries EXCEPT ![j].st = "faulted"],
           UNCHANGED <<rat, rat_retire, freevec, freevec_retire, valid, prf>>, Retired' = Retired
    PROVE  Rename!CompleteFaulted(j)
BY DEF Rename!CompleteFaulted, Entries, Retired, AtIn

LEMMA AllocateMatches ==
    ASSUME NEW a, ~ (Len(Entries) >= RobSize), NEW new \in [DstIn[a] -> Pregs \ freevec],
           \A r, s \in DstIn[a] : new[r] = new[s] => r = s,
           Entries' = Append(Entries, [op |-> a, st |-> "allocated",
                                       src |-> [r \in SrcIn[a] |-> rat[r]], new |-> new,
                                       prev |-> [r \in DstIn[a] |-> rat[r]]]),
           rat' = [r \in Regs |-> IF r \in DstIn[a] THEN new[r] ELSE rat[r]],
           freevec' = freevec \cup RangeOf(new), valid' = valid \ RangeOf(new),
           UNCHANGED <<rat_retire, freevec_retire, prf>>, Retired' = Retired
    PROVE  Rename!Allocate(a)
BY Zenon DEF Rename!Allocate, Rename!RobFull, Rename!NewEntry, Rename!RangeOf, RangeOf, Entries, Retired,
   SrcIn, DstIn

LEMMA RetireMatches ==
    ASSUME Entries # <<>>, NEW e, Head(Entries) = e, e.st = "complete", AtIn[e.op] # "retire",
           prf' = prf, Entries' = Tail(Entries), rat' = rat,
           freevec' = freevec \ RangeOf(e.prev),
           freevec_retire' = (freevec_retire \cup RangeOf(e.new)) \ RangeOf(e.prev),
           rat_retire' = [r \in Regs |-> IF r \in DstIn[e.op] THEN e.new[r] ELSE rat_retire[r]],
           valid' = valid \ RangeOf(e.prev),
           Retired' = [r \in Regs |-> IF r \in DstIn[e.op] THEN prf[e.new[r]] ELSE Retired[r]]
    PROVE  Rename!Retire
<1> DEFINE h == Head(Entries)
<1>1. h.st = "complete" /\ AtIn[h.op] # "retire"
  OBVIOUS
<1>2. /\ freevec' = freevec \ RangeOf(h.prev) /\ valid' = valid \ RangeOf(h.prev)
      /\ freevec_retire' = (freevec_retire \cup RangeOf(h.new)) \ RangeOf(h.prev)
  OBVIOUS
<1>3. /\ rat_retire' = [r \in Regs |-> IF r \in DstIn[h.op] THEN h.new[r] ELSE rat_retire[r]]
      /\ Retired' = [r \in Regs |-> IF r \in DstIn[h.op] THEN prf[h.new[r]] ELSE Retired[r]]
  OBVIOUS
<1> QED
  BY <1>1, <1>2, <1>3, Zenon DEF Rename!Retire, Rename!RetireTables, Rename!Released, Rename!Committed, Rename!RangeOf, RangeOf,
   Entries, Retired, DstIn, AtIn

LEMMA MonitorMatches ==
    ASSUME Entries # <<>>, NEW e, Head(Entries) = e, e.st = "complete", AtIn[e.op] = "retire",
           NEW res \in Results(e), prf' = Rename!Write(e, res),
           Entries' = Tail(Entries), rat' = rat,
           freevec' = freevec \ RangeOf(e.prev),
           freevec_retire' = (freevec_retire \cup RangeOf(e.new)) \ RangeOf(e.prev),
           rat_retire' = [r \in Regs |-> IF r \in DstIn[e.op] THEN e.new[r] ELSE rat_retire[r]],
           valid' = valid \cup RangeOf(e.new),
           Retired' = [r \in Regs |-> IF r \in DstIn[e.op] THEN prf'[e.new[r]] ELSE Retired[r]]
    PROVE  Rename!RetireMonitor
<1> DEFINE h == Head(Entries)
<1>1. h.st = "complete" /\ AtIn[h.op] = "retire" /\ res \in Results(h) /\ prf' = Rename!Write(h, res)
  OBVIOUS
<1>2. /\ freevec' = freevec \ RangeOf(h.prev) /\ valid' = valid \cup RangeOf(h.new)
      /\ freevec_retire' = (freevec_retire \cup RangeOf(h.new)) \ RangeOf(h.prev)
  OBVIOUS
<1>3. /\ rat_retire' = [r \in Regs |-> IF r \in DstIn[h.op] THEN h.new[r] ELSE rat_retire[r]]
      /\ Retired' = [r \in Regs |-> IF r \in DstIn[h.op] THEN Rename!Write(h, res)[h.new[r]]
                                     ELSE Retired[r]]
  OBVIOUS
<1> QED
  BY <1>1, <1>2, <1>3, Zenon DEF Rename!RetireMonitor, Rename!RetireTables, Rename!Released, Rename!Committed, Rename!RangeOf,
   RangeOf, Rename!SrcVals, Entries, Retired, SrcIn, DstIn, AtIn, Results

LEMMA NukeMatches ==
    ASSUME rob' = <<>>, rat' = rat_retire, freevec' = freevec_retire, valid' = RangeOf(rat_retire),
           UNCHANGED <<rat_retire, freevec_retire, prf>>
    PROVE  Rename!Nuke
BY DEF Rename!Nuke, Rename!RangeOf, RangeOf, Retired

(* RegRename sees nothing happen.                                          *)
LEMMA StutterMatches ==
    ASSUME Entries' = Entries, Retired' = Retired,
           UNCHANGED <<rat, rat_retire, freevec, freevec_retire, valid, prf>>
    PROVE  UNCHANGED Rename!vars
BY DEF Rename!vars, Entries, Retired

(* A write to a register of the window leaves the retired registers.       *)
LEMMA RetiredSame ==
    ASSUME Shape, Chained, OneOwner, rat_retire' = rat_retire, NEW x \in Elems(rob), NEW w,
           prf' = prf \/ prf' = WritePrf(x, w)
    PROVE  Retired' = Retired
<1>1. PICK T : IsChain(T)
  BY DEF Chained
<1>2. rat_retire \in [Regs -> Pregs]
  BY <1>1, RobElems DEF IsChain
<1>3. ASSUME NEW r \in Regs PROVE prf'[rat_retire'[r]] = prf[rat_retire[r]]
  <2>1. rat_retire[r] \in Pregs /\ rat_retire[r] \in RangeOf(rat_retire)
    BY <1>2 DEF RangeOf
  <2>2. ~ \E j \in DOMAIN op[x].new : op[x].new[j] = rat_retire[r]
    BY <2>1 DEF OneOwner, Taken, RangeOf
  <2> QED
    BY <2>1, <2>2 DEF WritePrf
<1> QED
  BY <1>3 DEF Retired

(* The fields and the signature of an entry of the rob.                    *)
LEMMA EntryIs ==
    ASSUME WindowInv, Chained, NEW x \in Elems(rob)
    PROVE  /\ RenameEntry(x).op = OpOf(x) /\ RenameEntry(x).src = op[x].src
           /\ RenameEntry(x).new = ByReg(x, op[x].new)
           /\ RangeOf(RenameEntry(x).new) = Taken(x)
           /\ SrcIn[OpOf(x)] = SigOf(x).src /\ AtIn[OpOf(x)] = SigOf(x).at
           /\ Results(RenameEntry(x)) = EvalOf(OpOf(x), Sources(x))
           /\ op[x].new \in [DOMAIN SigOf(x).dst -> Pregs]
           /\ \E j \in DOMAIN rob : x = rob[j]
<1>1. op[x].new \in [DOMAIN SigOf(x).dst -> Pregs]
  BY Operands DEF WindowInv
<1>2. /\ RenameEntry(x).op = OpOf(x) /\ RenameEntry(x).src = op[x].src
      /\ RenameEntry(x).new = ByReg(x, op[x].new)
  BY DEF RenameEntry
<1>3. RangeOf(ByReg(x, op[x].new)) = Taken(x)
  BY <1>1, ByRegIs DEF Taken
<1>4. SrcIn[OpOf(x)] = SigOf(x).src /\ AtIn[OpOf(x)] = SigOf(x).at
  BY EntrySig
<1>5. Results(RenameEntry(x)) = EvalOf(OpOf(x), Sources(x))
  BY <1>2, <1>4 DEF Results, Sources
<1>6. \E j \in DOMAIN rob : x = rob[j]
  BY DEF Elems
<1> QED
  BY <1>1, <1>2, <1>3, <1>4, <1>5, <1>6

(* An operation without destinations has one result.                       *)
LEMMA NoResultEval ==
    ASSUME NEW x, SigOf(x).at = "execute", SigOf(x).dst = <<>>, NEW v, NEW w
    PROVE  ByReg(x, w) \in EvalOf(OpOf(x), v)
<1> DEFINE a == OpOf(x)
           i == InsnAt(a)
           s == SigOf(x)
<1>1. decode_insn(i) = s
  BY EntryOp
<1>2. DstOf(a) = {} /\ RangeSet(s.dst) = {}
  BY <1>1 DEF DstOf, RangeSet
<1>3. EvalOf(a, v) = ComputedBy(a, i, s, v)
  BY <1>1, EvalCases
<1>4. ByReg(x, w) = [r \in {} |-> 0]
  BY <1>2 DEF ByReg
<1>5. PICK byZero \in BOOLEAN : byZero = (i.k \in {"div", "divu"} /\ v[GPR(i.rt)] = 0)
  OBVIOUS
<1> HIDE DEF a, i, s
<1>6. CASE byZero
  <2>1. ComputedBy(a, i, s, v) = [DstOf(a) -> Word]
    BY <1>5, <1>6 DEF ComputedBy
  <2> QED
    BY <1>2, <1>3, <1>4, <2>1 DEF a
<1>7. CASE ~ byZero
  <2>1. ComputedBy(a, i, s, v) =
          {[r \in DstOf(a) |-> Value(i, a, v, [j \in DOMAIN s.dst |-> 0])
                                [CHOOSE j \in DOMAIN s.dst : s.dst[j] = r]]}
    BY <1>5, <1>7, Zenon DEF ComputedBy
  <2>2. [r \in DstOf(a) |-> Value(i, a, v, [j \in DOMAIN s.dst |-> 0])
                              [CHOOSE j \in DOMAIN s.dst : s.dst[j] = r]] = [r \in {} |-> 0]
    BY <1>2
  <2> QED
    BY <1>3, <1>4, <2>1, <2>2 DEF a
<1> QED
  BY <1>6, <1>7

(* execute() is RegRename's Execute of that entry.                         *)
LEMMA ExecuteRenames ==
    ASSUME TypeInv, ExecuteOne
    PROVE  \E j \in DOMAIN rob : rob' = rob /\ op'[rob[j]] # op[rob[j]] /\ Rename!Execute(j)
<1>0. WindowInv /\ Shape /\ Chained /\ OneOwner /\ prf \in [Pregs -> Word]
  BY DEF TypeInv, WindowInv, RenameInv, DataInv
<1>1. PICK x, v, w :
        /\ v = Sources(x)
        /\ w = Value(InsnOf(x), op[x].pc, v, [n \in DOMAIN op[x].new |-> prf[op[x].new[n]]])
        /\ ExecuteSays(x, v, w)
  BY <1>0, ExecuteData
<1>2. UNCHANGED <<rob, valid, rat, rat_retire, freevec, freevec_retire>>
  BY DEF ExecuteOne, queueVars
<1>3. /\ x \in Elems(rob) /\ ~ op[x].issued /\ ~ op[x].done /\ Ready(x)
      /\ prf' = IF SigOf(x).at = "execute" /\ op[x].new # <<>> THEN WritePrf(x, w) ELSE prf
      /\ \A y \in Elems(rob) : y # x => op'[y] = op[y]
  BY <1>1 DEF ExecuteSays
<1>4. op'[x].issued /\ ~ op'[x].done /\ Keeps(x, Names) /\ op'[x] # op[x]
  <2>1. PICK lat : op'[x] = Executed(x, v, lat)
    BY <1>1 DEF ExecuteSays
  <2>2. DOMAIN op[x] = Fields
    BY <1>0, <1>3, LoadsLive, LiveFields
  <2>3. op'[x].issued /\ ~ op'[x].done
    BY <1>3, <2>1, <2>2, ExecutedShape DEF SameButIssued
  <2>4. Keeps(x, Names)
    BY <2>1, <2>2, ExecutedMarks DEF ExecutedFrom, Keeps
  <2> QED
    BY <1>3, <2>3, <2>4
<1>5. PICK e : e = RenameEntry(x)
  OBVIOUS
<1>6. /\ e.op = OpOf(x) /\ e.src = op[x].src /\ e.new = ByReg(x, op[x].new)
      /\ SrcIn[OpOf(x)] = SigOf(x).src /\ AtIn[OpOf(x)] = SigOf(x).at
      /\ Results(e) = EvalOf(OpOf(x), v) /\ op[x].new \in [DOMAIN SigOf(x).dst -> Pregs]
  BY <1>0, <1>1, <1>3, <1>5, EntryIs
<1>7. PICK j \in DOMAIN rob : x = rob[j]
  BY <1>3 DEF Elems
<1>8. e.st = "allocated"
  <2>1. Phase(x, "allocated")
    BY <1>3 DEF Phase
  <2> QED
    BY <1>5, <2>1, EntryFields
<1>9. Entries[j] = e /\ Entries' = [Entries EXCEPT ![j].st = "executed"]
  <2>1. Entries[j] = e
    BY <1>5, <1>7 DEF Entries
  <2>2. Phase(x, "executed")'
    BY <1>4 DEF Phase
  <2>3. RenameEntry(x)' = [RenameEntry(x) EXCEPT !.st = "executed"]
    BY <1>4, <2>2, EntryAfter
  <2>4. \A y \in Elems(rob) : y # x => RenameEntry(y)' = RenameEntry(y)
    <3>1. \A y \in Elems(rob) : y # x =>
            /\ Keeps(y, Names) /\ op'[y].issued = op[y].issued /\ op'[y].done = op[y].done
            /\ \A p \in Taken(y) : p \in valid' <=> p \in valid
      BY <1>2, <1>3 DEF Keeps
    <3> QED
      BY <3>1, EntryKept
  <2> QED
    BY <1>0, <1>2, <1>7, <2>1, <2>3, <2>4, OneEntry
<1>10. \A r \in SrcIn[e.op] : e.src[r] \in valid
  <2>1. op[x].src \in [SigOf(x).src -> Pregs]
    BY <1>0, <1>3, Operands
  <2>2. \A r \in SigOf(x).src : op[x].src[r] \in RangeSet(op[x].src)
    BY <2>1 DEF RangeSet
  <2>3. RangeSet(op[x].src) \subseteq valid
    BY <1>3 DEF Ready
  <2> QED
    BY <1>6, <2>2, <2>3
<1>11. IF AtIn[e.op] = "execute" THEN \E res \in Results(e) : prf' = Rename!Write(e, res)
                                 ELSE prf' = prf
  <2>1. CASE SigOf(x).at # "execute"
    BY <1>3, <1>6, <2>1
  <2>2. CASE SigOf(x).at = "execute"
    <3>1. Rename!Write(e, ByReg(x, w)) = WritePrf(x, w)
      <4>1. Injective(op[x].new)
        BY <1>0, <1>3 DEF OneOwner
      <4> QED
        BY <1>5, <1>6, <4>1, EntryWrites
    <3>2. prf' = WritePrf(x, w)
      <4>1. CASE op[x].new = <<>>
        <5>1. WritePrf(x, w) = [p \in Pregs |-> prf[p]]
          BY <4>1 DEF WritePrf
        <5> QED
          BY <1>0, <1>3, <4>1, <5>1
      <4> QED
        BY <1>3, <2>2, <4>1
    <3>3. ByReg(x, w) \in EvalOf(OpOf(x), v)
      <4>1. PICK old : old = [n \in DOMAIN op[x].new |-> prf[op[x].new[n]]]
        OBVIOUS
      <4>2. Words(SigOf(x), old)
        BY <1>0, <1>6, <4>1 DEF Words
      <4> QED
        BY <1>1, <2>2, <4>1, <4>2, ExecuteEval, NoResultEval
    <3> QED
      BY <1>6, <2>2, <3>1, <3>2, <3>3
  <2> QED
    BY <2>1, <2>2
<1>12. Retired' = Retired
  <2>1. prf' = prf \/ prf' = WritePrf(x, w)
    BY <1>3
  <2> QED
    BY <1>0, <1>2, <1>3, <2>1, RetiredSame
<1>13. Rename!Execute(j)
  BY <1>2, <1>8, <1>9, <1>10, <1>11, <1>12, ExecuteMatches
<1> QED
  BY <1>2, <1>4, <1>7, <1>13

(* complete() is RegRename's Complete, or its CompleteFaulted for a load   *)
(* that is to be replayed.                                                 *)
LEMMA CompleteRenames ==
    ASSUME WordOps, Word \subseteq LoadVals, TypeInv, CompleteOne
    PROVE  \E j \in DOMAIN rob : /\ rob' = rob /\ op'[rob[j]] # op[rob[j]]
                                 /\ Rename!Complete(j) \/ Rename!CompleteFaulted(j)
<1>0. /\ WindowInv /\ Shape /\ Chained /\ OneOwner /\ ValidBits /\ Marks
      /\ prf \in [Pregs -> Word] /\ MemWords(mem) /\ \A x \in Elems(rob) : OutcomeTyped(x)
  BY DEF TypeInv, WindowInv, RenameInv, DataInv, MarkInv
<1>1. PICK x, w : w = LoadData(InsnOf(x), op[x].ea, mem, op[x].v) /\ CompleteSays(x, w)
  BY <1>0, CompleteData
<1>2. UNCHANGED <<rob, rat, rat_retire, freevec, freevec_retire>>
  BY DEF CompleteOne, queueVars
<1>3. /\ x \in Elems(rob) /\ op[x].issued /\ ~ op[x].done /\ op'[x].done
      /\ Keeps(x, Outcome \ {"done"})
      /\ prf' = IF SigOf(x).at = "complete" /\ ~ op[x].lexc THEN WritePrf(x, w) ELSE prf
      /\ \A y \in Elems(rob) : y # x => op'[y] = op[y]
  BY <1>1 DEF CompleteSays
<1>4. valid' = IF SigOf(x).at = "retire" \/ op[x].lexc THEN valid ELSE valid \cup Taken(x)
  <2>1. PICK y \in Elems(rob) :
          /\ ~ op[y].done /\ op'[y].done
          /\ valid' = IF SigOf(y).at = "retire" \/ op[y].lexc THEN valid
                      ELSE valid \cup RangeOf(op[y].new)
    BY <1>0, CompleteNames
  <2>2. y = x
    BY <1>3, <2>1
  <2> QED
    BY <2>1, <2>2 DEF Taken
<1>5. op'[x].issued /\ Keeps(x, Names) /\ op'[x] # op[x] /\ op'[x].lexc = op[x].lexc
  BY <1>3 DEF Keeps, Outcome, Names, Fields
<1>6. PICK e : e = RenameEntry(x)
  OBVIOUS
<1>7. /\ e.op = OpOf(x) /\ e.new = ByReg(x, op[x].new) /\ RangeOf(e.new) = Taken(x)
      /\ AtIn[OpOf(x)] = SigOf(x).at
      /\ Results(e) = EvalOf(OpOf(x), Sources(x)) /\ op[x].new \in [DOMAIN SigOf(x).dst -> Pregs]
  BY <1>0, <1>3, <1>6, EntryIs
<1>8. PICK j \in DOMAIN rob : x = rob[j]
  BY <1>3 DEF Elems
<1>9. e.st = "executed" /\ Entries[j] = e
  <2>1. Phase(x, "executed")
    BY <1>3 DEF Phase
  <2> QED
    BY <1>6, <1>8, <2>1, EntryFields DEF Entries
<1>10. SigOf(x)' = SigOf(x) /\ Taken(x)' = Taken(x)
  BY <1>5, RenamedKept
<1>11. SigOf(x).at = "complete" <=> SigOf(x).cls = "load"
  BY SigOfShaped DEF SigShape
<1>12. ASSUME NEW s, Phase(x, s)' PROVE Entries' = [Entries EXCEPT ![j].st = s]
  <2>1. RenameEntry(x)' = [RenameEntry(x) EXCEPT !.st = s]
    BY <1>5, <1>12, EntryAfter
  <2>2. \A y \in Elems(rob) : y # x => RenameEntry(y)' = RenameEntry(y)
    <3>1. \A y \in Elems(rob) : y # x =>
            /\ Keeps(y, Names) /\ op'[y].issued = op[y].issued /\ op'[y].done = op[y].done
            /\ \A p \in Taken(y) : p \in valid' <=> p \in valid
      BY <1>0, <1>3, <1>4 DEF Keeps, OneOwner
    <3> QED
      BY <3>1, EntryKept
  <2>3. WindowInv /\ rob' = rob
    BY <1>0, <1>2, <1>3, Zenon
  <2> QED
    BY <1>8, <2>1, <2>2, <2>3, OneEntry
<1>13. Retired' = Retired
  <2>1. prf' = prf \/ prf' = WritePrf(x, w)
    BY <1>3
  <2> QED
    BY <1>0, <1>2, <1>3, <2>1, RetiredSame
<1>14. CASE op[x].lexc
  <2>1. SigOf(x).cls = "load" /\ SigOf(x).at = "complete" /\ prf' = prf /\ valid' = valid
    BY <1>0, <1>3, <1>4, <1>11, <1>14, LoadsLive DEF Marks
  <2>2. ~ Taken(x) \subseteq valid
    <3>1. Taken(x) \cap valid = {}
      BY <1>0, <1>3 DEF ValidBits, ValidOf
    <3>2. Taken(x) # {}
      <4>1. PICK i, s, a : i = InsnOf(x) /\ s = SigOf(x) /\ a = op[x].pc
        OBVIOUS
      <4>2. s = decode_insn(i) /\ i = InsnAt(a)
        BY <4>1 DEF SigOf, InsnOf
      <4>3. i.k \in LoadOps \cup {"lwc1", "ldc1"}
        BY <2>1, <4>1, <4>2, Decodes, Decode
      <4>4. (\E r : s.dst = <<r>>) \/ (\E r, q : s.dst = <<r, q>>)
        BY <4>2, <4>3, LoadShape
      <4>5. 1 \in DOMAIN s.dst
        BY <4>4
      <4>6. op[x].new[1] \in Taken(x)
        BY <1>7, <4>1, <4>5 DEF Taken, RangeOf
      <4> QED
        BY <4>6
    <3> QED
      BY <3>1, <3>2
  <2>3. Phase(x, "faulted")'
    BY <1>3, <1>5, <1>10, <2>1, <2>2 DEF Phase
  <2>4. Rename!CompleteFaulted(j)
    BY <1>2, <1>7, <1>9, <1>12, <1>13, <2>1, <2>3, FaultMatches
  <2> QED
    BY <1>2, <1>5, <1>8, <2>4
<1>15. CASE ~ op[x].lexc
  <2>1. SigOf(x).cls = "load" => Taken(x) \subseteq valid'
    BY <1>4, <1>11, <1>15
  <2>2. Phase(x, "complete")'
    BY <1>3, <1>5, <1>10, <2>1 DEF Phase
  <2>3. valid' = IF AtIn[e.op] = "retire" THEN valid ELSE valid \cup RangeOf(e.new)
    BY <1>4, <1>7, <1>15
  <2>4. IF AtIn[e.op] = "complete" THEN \E res \in Results(e) : prf' = Rename!Write(e, res)
                                   ELSE prf' = prf
    <3>1. CASE SigOf(x).at # "complete"
      BY <1>3, <1>7, <3>1
    <3>2. CASE SigOf(x).at = "complete"
      <4>1. Rename!Write(e, ByReg(x, w)) = WritePrf(x, w)
        <5>1. Injective(op[x].new)
          BY <1>0, <1>3 DEF OneOwner
        <5> QED
          BY <1>6, <1>7, <5>1, EntryWrites
      <4>2. Words(SigOf(x), w)
        <5>1. PICK s, i, a, ea, v : /\ s = SigOf(x) /\ i = InsnOf(x) /\ a = op[x].pc
                                    /\ ea = op[x].ea /\ v = op[x].v
          OBVIOUS
        <5>2. i = InsnAt(a) /\ s = decode_insn(i)
          BY <5>1 DEF SigOf, InsnOf
        <5>3. s.cls = "load"
          BY <1>11, <3>2, <5>1
        <5>4. v \in [s.src -> Word] /\ ea \in Word /\ ~ Misaligned(i, ea)
          BY <1>0, <1>3, <1>15, <5>1, <5>3 DEF OutcomeTyped
        <5>5. Words(s, w)
          BY <1>0, <1>1, <5>1, <5>2, <5>3, <5>4, LoadTyped
        <5> QED
          BY <5>1, <5>5
      <4>3. ByReg(x, w) \in EvalOf(OpOf(x), Sources(x))
        BY <1>11, <3>2, <4>2, LoadEval
      <4> QED
        BY <1>3, <1>7, <1>15, <3>2, <4>1, <4>3
    <3> QED
      BY <3>1, <3>2
  <2>5. Rename!Complete(j)
    BY <1>2, <1>9, <1>12, <1>13, <2>2, <2>3, <2>4, CompleteMatches
  <2> QED
    BY <1>2, <1>5, <1>8, <2>5
<1> QED
  BY <1>14, <1>15

(* A step that changes no operation of the rob.                            *)
LEMMA QuietRenames ==
    ASSUME TypeInv, QuietStep
    PROVE  UNCHANGED Rename!vars
<1>0. WindowInv /\ Shape
  BY DEF TypeInv, WindowInv
<1>1. /\ \A y \in Live : Keeps(y, RenameFields)
      /\ UNCHANGED <<rob, rat, rat_retire, freevec, freevec_retire, valid, prf>>
  BY <1>0, QuietNames, QuietData
<1>2. \A y \in Elems(rob) : /\ Keeps(y, Names)
                            /\ op'[y].issued = op[y].issued /\ op'[y].done = op[y].done
                            /\ \A p \in Taken(y) : p \in valid' <=> p \in valid
  BY <1>0, <1>1, LoadsLive DEF Keeps, Names, RenameFields
<1>3. \A y \in Elems(rob) : RenameEntry(y)' = RenameEntry(y)
  BY <1>2, EntryKept
<1>4. Entries' = Entries
  <2>1. \A j \in DOMAIN rob : rob[j] \in Elems(rob)
    BY DEF Elems
  <2>2. Entries' = [j \in DOMAIN rob |-> RenameEntry(rob[j])']
    BY <1>1 DEF Entries
  <2>3. \A j \in DOMAIN rob : RenameEntry(rob[j])' = RenameEntry(rob[j])
    <3> SUFFICES ASSUME NEW j \in DOMAIN rob PROVE RenameEntry(rob[j])' = RenameEntry(rob[j])
      OBVIOUS
    <3>1. PICK y : y = rob[j]
      OBVIOUS
    <3>2. RenameEntry(y)' = RenameEntry(y)
      BY <1>3, <2>1, <3>1
    <3> QED
      BY <1>1, <3>1, <3>2
  <2> QED
    BY <2>2, <2>3 DEF Entries
<1>5. Retired' = Retired
  BY <1>1 DEF Retired
<1> QED
  BY <1>1, <1>4, <1>5, StutterMatches

(* The recovery is RegRename's Nuke; then it only waits.                   *)
LEMMA NukeRenames ==
    ASSUME Nuke
    PROVE  rob' = <<>> /\ Rename!Nuke
<1>1. /\ rob' = <<>> /\ rat' = rat_retire /\ freevec' = freevec_retire
      /\ valid' = RangeOf(rat_retire) /\ UNCHANGED <<rat_retire, freevec_retire, prf>>
  BY DEF Nuke, RangeOf, RangeSet
<1> QED
  BY <1>1, NukeMatches

LEMMA SleepRenames ==
    ASSUME TypeInv, RecoverySleep
    PROVE  UNCHANGED Rename!vars
<1>1. UNCHANGED <<rob, rat, rat_retire, freevec, freevec_retire, valid, prf>>
  BY DEF RecoverySleep, renameVars
<1>2. rob = <<>> /\ rob' = <<>>
  BY <1>1, RecoveryData DEF TypeInv
<1>3. Entries' = Entries
  BY <1>2 DEF Entries
<1>4. Retired' = Retired
  BY <1>1 DEF Retired
<1> QED
  BY <1>1, <1>3, <1>4, StutterMatches

(* A table after a renaming, by registers.                                 *)
LEMMA OverByReg ==
    ASSUME NEW x, NEW t, NEW n
    PROVE  Over(t, SigOf(x).dst, n)
           = [r \in Regs |-> IF r \in DstIn[OpOf(x)] THEN ByReg(x, n)[r] ELSE t[r]]
<1> DEFINE d == SigOf(x).dst
<1>1. DstIn[OpOf(x)] = RangeSet(d)
  BY EntrySig
<1>2. \A r \in Regs : r \in RangeSet(d) <=> \E k \in DOMAIN d : d[k] = r
  BY DEF RangeSet
<1>3. \A r \in RangeSet(d) : ByReg(x, n)[r] = n[CHOOSE k \in DOMAIN d : d[k] = r]
  BY DEF ByReg
<1> HIDE DEF d
<1> QED
  BY <1>1, <1>2, <1>3 DEF Over, d

(* What x replaces, by registers.                                          *)
LEMMA PrevByReg ==
    ASSUME NEW x, NEW t, NEW s, s = [k \in DOMAIN SigOf(x).dst |-> t[SigOf(x).dst[k]]]
    PROVE  ByReg(x, s) = [r \in DstIn[OpOf(x)] |-> t[r]]
<1> DEFINE d == SigOf(x).dst
<1>1. DstIn[OpOf(x)] = RangeSet(d)
  BY EntrySig
<1>2. ASSUME NEW r \in RangeSet(d) PROVE s[CHOOSE k \in DOMAIN d : d[k] = r] = t[r]
  <2>1. \E k \in DOMAIN d : d[k] = r
    BY DEF RangeSet
  <2>2. PICK k : k = CHOOSE m \in DOMAIN d : d[m] = r
    OBVIOUS
  <2> QED
    BY <2>1, <2>2
<1>3. ByReg(x, s) = [r \in RangeSet(d) |-> s[CHOOSE k \in DOMAIN d : d[k] = r]]
  BY DEF ByReg
<1> HIDE DEF d
<1> QED
  BY <1>1, <1>2, <1>3

(* allocate() is RegRename's Allocate of that operation.                   *)
LEMMA AllocateRenames ==
    ASSUME TypeInv, AllocateOne
    PROVE  Len(rob') > Len(rob) /\ Rename!Allocate(OpOf(rob'[Len(rob')]))
<1>0. WindowInv /\ Shape /\ Chained /\ OneOwner /\ InUse
  BY DEF TypeInv, WindowInv, RenameInv
<1>1. PICK x, d, n : x = Head(decode_queue) /\ d = SigOf(x).dst /\ n = op'[x].new
  OBVIOUS
<1>2. AllocateFacts(x, d, n) /\ UNCHANGED <<rat_retire, freevec_retire, prf>>
      /\ \A y \in Elems(rob) : op'[y] = op[y]
  BY <1>0, <1>1, AllocateSays, AllocateData
<1>3. /\ op'[x].src = [r \in SigOf(x).src |-> rat[r]]
      /\ op'[x].prev = [j \in DOMAIN d |-> rat[d[j]]]
      /\ n = [j \in DOMAIN d |-> NthFree(d[j][1], j)]
      /\ d # <<>> => Cardinality(Free(d[1][1])) >= Len(d)
      /\ rob' = Append(rob, x) /\ rat' = Over(rat, d, n)
      /\ freevec' = freevec \cup RangeOf(n) /\ valid' = valid \ RangeOf(n)
      /\ ~ op'[x].issued /\ ~ op'[x].done /\ op'[x].pc = op[x].pc
  <2>1. Keeps(x, RenameFields \ {"src", "new", "prev"}) /\ ~ op[x].issued /\ ~ op[x].done
    BY <1>2 DEF AllocateFacts
  <2>2. ~ op'[x].issued /\ ~ op'[x].done /\ op'[x].pc = op[x].pc
    BY <2>1 DEF Keeps, RenameFields, Names
  <2> QED
    BY <1>2, <2>2 DEF AllocateFacts
<1>4. n \in [DOMAIN d -> Pregs] /\ Injective(n) /\ RangeOf(n) \cap freevec = {}
  <2>1. SigShape(SigOf(x))
    BY SigOfShaped
  <2>2. freevec \subseteq Pregs
    BY TypeInvTypeOK DEF TypeOK
  <2>3. d \in Seq(Regs) /\ Len(d) <= 2 /\ \A j, k \in DOMAIN d : d[j][1] = d[k][1]
    BY <1>1, <2>1 DEF SigShape
  <2> QED
    BY <1>3, <2>2, <2>3, NthFreeRegs
<1>5. PICK a, new : a = OpOf(x) /\ new = ByReg(x, n)
  OBVIOUS
<1>6. /\ DstIn[a] = RangeSet(d) /\ SrcIn[a] = SigOf(x).src /\ DstIn[a] = DstOf(a)
      /\ RangeOf(new) = RangeOf(n) /\ \A k \in DOMAIN d : new[d[k]] = n[k]
  <2>1. DstIn[a] = DstOf(a)
    BY <1>5, EntrySig DEF DstIn
  <2>2. RangeOf(new) = RangeOf(n) /\ \A k \in DOMAIN d : new[d[k]] = n[k]
    BY <1>1, <1>4, <1>5, ByRegIs
  <2> QED
    BY <1>1, <1>5, <2>1, <2>2, EntrySig
<1>7. new \in [DstIn[a] -> Pregs \ freevec]
  <2>1. \A k \in DOMAIN SigOf(x).dst : n[k] \in Pregs \ freevec
    BY <1>1, <1>4 DEF RangeOf
  <2> QED
    BY <1>5, <1>6, <2>1, ByRegTyped
<1>8. \A r, s \in DstIn[a] : new[r] = new[s] => r = s
  BY <1>4, <1>6 DEF Injective, RangeSet
<1>9. RenameEntry(x)' = [op |-> a, st |-> "allocated", src |-> [r \in SrcIn[a] |-> rat[r]],
                         new |-> new, prev |-> [r \in DstIn[a] |-> rat[r]]]
  <2>1. OpOf(x)' = a /\ SigOf(x)' = SigOf(x)
    BY <1>3, <1>5 DEF OpOf, SigOf, InsnOf
  <2>2. ByReg(x, op[x].new)' = new
    <3>1. ByReg(x, op[x].new)' = ByReg(x, op'[x].new)
      BY <2>1 DEF ByReg
    <3> QED
      BY <1>1, <1>5, <3>1
  <2>3. ByReg(x, op[x].prev)' = [r \in DstIn[a] |-> rat[r]]
    <3>1. ByReg(x, op'[x].prev) = [r \in DstIn[OpOf(x)] |-> rat[r]]
      <4>1. PICK s : s = op'[x].prev
        OBVIOUS
      <4>2. s = [k \in DOMAIN SigOf(x).dst |-> rat[SigOf(x).dst[k]]]
        BY <1>1, <1>3, <4>1
      <4> QED
        BY <4>1, <4>2, PrevByReg
    <3>2. ByReg(x, op[x].prev)' = ByReg(x, op'[x].prev)
      BY <2>1 DEF ByReg
    <3> QED
      BY <1>5, <3>1, <3>2
  <2>4. RenameEntry(x)' = [op |-> OpOf(x)', st |-> "allocated", src |-> op'[x].src,
                           new |-> ByReg(x, op[x].new)', prev |-> ByReg(x, op[x].prev)']
    <3>1. (CASE ~ op'[x].issued                   -> "allocated"
             [] op'[x].issued /\ ~ op'[x].done    -> "executed"
             [] SigOf(x)'.cls = "load" /\ op'[x].done /\ ~ RangeSet(op'[x].new) \subseteq valid'
                                                  -> "faulted"
             [] OTHER                             -> "complete") = "allocated"
      BY <1>3
    <3> QED
      BY <3>1 DEF RenameEntry
  <2> QED
    BY <1>3, <1>6, <2>1, <2>2, <2>3, <2>4
<1>10. \A y \in Elems(rob) : RenameEntry(y)' = RenameEntry(y)
  <2>1. \A y \in Elems(rob) : Taken(y) \subseteq freevec
    BY <1>0 DEF InUse, TakenAll
  <2>2. \A y \in Elems(rob) : /\ Keeps(y, Names)
                              /\ op'[y].issued = op[y].issued /\ op'[y].done = op[y].done
                              /\ \A p \in Taken(y) : p \in valid' <=> p \in valid
    BY <1>2, <1>3, <1>4, <2>1 DEF Keeps
  <2> QED
    BY <2>2, EntryKept
<1>11. /\ Len(rob) \in Nat /\ DOMAIN rob = 1 .. Len(rob) /\ rob \in Seq(Ids)
       /\ Len(rob') = Len(rob) + 1 /\ rob'[Len(rob')] = x
       /\ DOMAIN rob' = 1 .. Len(rob) + 1
       /\ \A j \in 1 .. Len(rob) : rob'[j] = rob[j] /\ rob[j] \in Elems(rob)
       /\ rob'[Len(rob) + 1] = x
  <2>1. Len(rob) \in Nat /\ DOMAIN rob = 1 .. Len(rob) /\ rob \in Seq(Ids) /\ x \in Ids
    BY <1>0, <1>2, RobElems DEF Shape, AllocateFacts
  <2>2. \A j \in 1 .. Len(rob) : rob[j] \in Elems(rob)
    BY <1>0, RobElems
  <2> QED
    BY <1>3, <2>1, <2>2
<1>12. Entries' = Append(Entries, RenameEntry(x)')
  <2>1. PICK m \in Nat : m = Len(rob)
    BY <1>11
  <2>2. Entries = [j \in 1 .. m |-> RenameEntry(rob[j])] /\ Len(Entries) = m
    BY <1>0, <2>1, EntriesShape
  <2>3. Entries' = [j \in 1 .. m + 1 |-> RenameEntry(rob[j])']
    BY <1>11, <2>1 DEF Entries
  <2>4. \A j \in 1 .. m + 1 : RenameEntry(rob[j])' = IF j = m + 1 THEN RenameEntry(x)' ELSE Entries[j]
    <3> SUFFICES ASSUME NEW j \in 1 .. m + 1
                 PROVE  RenameEntry(rob[j])' = IF j = m + 1 THEN RenameEntry(x)' ELSE Entries[j]
      OBVIOUS
    <3>1. CASE j = m + 1
      <4>1. rob'[j] = x
        BY <1>11, <2>1, <3>1
      <4> QED
        BY <3>1, <4>1
    <3>2. CASE j # m + 1
      <4>1. j \in 1 .. m /\ rob'[j] = rob[j] /\ rob[j] \in Elems(rob)
        BY <1>11, <2>1, <3>2
      <4>2. PICK y \in Elems(rob) : y = rob[j]
        BY <4>1
      <4>3. RenameEntry(y)' = RenameEntry(y)
        BY <1>10
      <4>4. RenameEntry(rob[j])' = RenameEntry(y)'
        BY <4>1, <4>2
      <4> QED
        BY <2>2, <3>2, <4>1, <4>2, <4>3, <4>4
    <3> QED
      BY <3>1, <3>2
  <2>5. PICK E, z : E = Entries /\ z = RenameEntry(x)'
    OBVIOUS
  <2>6. Append(E, z) = [j \in 1 .. m + 1 |-> IF j = m + 1 THEN z ELSE E[j]]
    BY <2>2, <2>5
  <2> QED
    BY <2>3, <2>4, <2>5, <2>6
<1>13. ~ (Len(Entries) >= RobSize)
  <2>1. Len(rob) < RobSize /\ RobSize \in Nat
    BY SizesAssumption DEF AllocateOne, AllocateMore
  <2> QED
    BY <1>0, <1>11, <2>1, EntriesShape
<1>14. rat' = [r \in Regs |-> IF r \in DstIn[a] THEN new[r] ELSE rat[r]]
  <2>1. Over(rat, SigOf(x).dst, n)
        = [r \in Regs |-> IF r \in DstIn[OpOf(x)] THEN ByReg(x, n)[r] ELSE rat[r]]
    BY OverByReg
  <2> QED
    BY <1>1, <1>3, <1>5, <2>1
<1>15. Retired' = Retired
  BY <1>2 DEF Retired
<1>16. Rename!Allocate(a)
  BY <1>2, <1>3, <1>6, <1>7, <1>8, <1>9, <1>12, <1>13, <1>14, <1>15, AllocateMatches
<1> QED
  BY <1>5, <1>11, <1>16

(* What the oldest operation replaces are retired registers.               *)
LEMMA HeadPrev ==
    ASSUME Shape, Chained, rob # <<>>, NEW x, x = Head(rob)
    PROVE  /\ rat_retire \in [Regs -> Pregs]
           /\ DOMAIN op[x].prev = DOMAIN SigOf(x).dst
           /\ RangeOf(op[x].prev) \subseteq RangeOf(rat_retire)
<1>1. PICK T : IsChain(T)
  BY DEF Chained
<1>2. /\ T[1] = rat_retire /\ rat_retire \in [Regs -> Pregs]
      /\ \A j \in 1 .. Len(rob) : Renamed(rob[j], T[j], T[j + 1])
      /\ Len(rob) \in Nat
  BY <1>1, RobElems DEF IsChain
<1>3. 1 \in 1 .. Len(rob) /\ x = rob[1]
  BY <1>2 DEF Shape
<1>4. PICK t, m : t = T[1] /\ m = T[1 + 1]
  OBVIOUS
<1>5. Renamed(x, t, m)
  BY <1>2, <1>3, <1>4
<1>6. PICK d : d = SigOf(x).dst
  OBVIOUS
<1>7. op[x].prev = [k \in DOMAIN d |-> rat_retire[d[k]]]
  BY <1>2, <1>4, <1>5, <1>6 DEF Renamed, RenamedAt
<1>8. \A k \in DOMAIN d : d[k] \in Regs
  BY <1>6, SigOfShaped DEF SigShape
<1> QED
  BY <1>2, <1>6, <1>7, <1>8 DEF RangeOf

(* retire() is RegRename's Retire, or its RetireMonitor.                   *)
LEMMA RetireRenames ==
    ASSUME TypeInv, RetireStep
    PROVE  Len(rob') < Len(rob) /\ (Rename!Retire \/ Rename!RetireMonitor)
<1>0. WindowInv /\ Shape /\ NoRepeat(rob) /\ Chained /\ OneOwner /\ ValidBits /\ MarkInv
  BY DEF TypeInv, WindowInv, RenameInv, OnePlace
<1>1. PICK x, d, n, q : x = Head(rob) /\ d = SigOf(x).dst /\ n = op[x].new /\ q = RangeOf(op[x].prev)
  OBVIOUS
<1>2. /\ x \in Elems(rob) /\ op[x].done /\ op[x].issued /\ ~ op[x].lexc
      /\ rob # <<>> /\ rob' = Tail(rob) /\ Elems(rob)' = Elems(rob) \ {x}
      /\ \A y \in Elems(rob)' : Keeps(y, Outcome \ {"lexc"})
  BY <1>0, <1>1, RetireData
<1>3. RetireOp(x)
  BY <1>0, <1>1, RetireHead
<1>4. /\ rat' = rat /\ rat_retire' = Over(rat_retire, d, n)
      /\ freevec' = freevec \ q /\ freevec_retire' = (freevec_retire \cup Taken(x)) \ q
      /\ IF InsnOf(x).k = "monitor" THEN valid' = valid \cup Taken(x) ELSE valid' = valid \ q
  BY <1>1, <1>3, RetireSays DEF RetireFacts, Taken
<1>5. PICK e : e = RenameEntry(x)
  OBVIOUS
<1>6. /\ e.op = OpOf(x) /\ e.new = ByReg(x, n) /\ RangeOf(e.new) = Taken(x)
      /\ AtIn[e.op] = SigOf(x).at /\ Results(e) = EvalOf(OpOf(x), Sources(x))
      /\ n \in [DOMAIN d -> Pregs]
  BY <1>0, <1>1, <1>2, <1>5, EntryIs
<1>7. /\ rat_retire \in [Regs -> Pregs] /\ DOMAIN op[x].prev = DOMAIN d
      /\ q \subseteq RangeOf(rat_retire)
  BY <1>0, <1>1, <1>2, HeadPrev
<1>8. RangeOf(e.prev) = q
  <2>1. e.prev = ByReg(x, op[x].prev)
    BY <1>5 DEF RenameEntry
  <2> QED
    BY <1>1, <1>7, <2>1, ByRegIs
<1>9. e.st = "complete"
  <2>1. SigOf(x).cls = "load" => SigOf(x).at # "retire"
    BY SigOfShaped DEF SigShape
  <2>2. SigOf(x).cls = "load" => Taken(x) \subseteq valid
    BY <1>0, <1>2, <2>1 DEF ValidBits, ValidOf
  <2>3. Phase(x, "complete")
    BY <1>2, <2>2 DEF Phase
  <2> QED
    BY <1>5, <2>3, EntryFields
<1>10. /\ Len(rob) \in Nat \ {0} /\ Len(rob') = Len(rob) - 1 /\ DOMAIN rob' = 1 .. Len(rob) - 1
       /\ \A j \in 1 .. Len(rob) - 1 : rob'[j] = rob[j + 1]
       /\ rob[1] = x
  BY <1>0, <1>1, <1>2 DEF Shape
<1>11. Entries # <<>> /\ Head(Entries) = e
  <2>1. Len(Entries) = Len(rob) /\ Entries[1] = RenameEntry(rob[1])
    BY <1>0, <1>10, EntriesShape
  <2> QED
    BY <1>5, <1>10, <2>1
<1>12. \A y \in Elems(rob)' : RenameEntry(y)' = RenameEntry(y)
  <2>1. \A y \in Elems(rob)' : Taken(y) \cap Taken(x) = {} /\ Taken(y) \cap q = {}
    BY <1>0, <1>2, <1>7 DEF OneOwner
  <2>2. \A y \in Elems(rob)' : \A p \in Taken(y) : p \in valid' <=> p \in valid
    BY <1>4, <2>1
  <2>3. \A y \in Elems(rob)' :
          Keeps(y, Names) /\ op'[y].issued = op[y].issued /\ op'[y].done = op[y].done
    BY <1>2 DEF Keeps, Outcome, Names, Fields
  <2> QED
    BY <2>2, <2>3, EntryKept
<1>13. Entries' = Tail(Entries)
  <2>1. PICK m \in Nat : m = Len(rob) - 1
    BY <1>10
  <2>2. /\ Entries = [j \in 1 .. m + 1 |-> RenameEntry(rob[j])] /\ Len(Entries) = m + 1
        /\ \A j \in 1 .. m + 1 : Entries[j] = RenameEntry(rob[j])
    BY <1>0, <1>10, <2>1, EntriesShape
  <2>3. Entries' = [j \in 1 .. m |-> RenameEntry(rob[j])']
    BY <1>10, <2>1 DEF Entries
  <2>4. \A j \in 1 .. m : RenameEntry(rob[j])' = Entries[j + 1]
    <3> SUFFICES ASSUME NEW j \in 1 .. m PROVE RenameEntry(rob[j])' = Entries[j + 1]
      OBVIOUS
    <3>1. rob'[j] = rob[j + 1] /\ j + 1 \in 1 .. m + 1 /\ j \in DOMAIN rob'
      BY <1>10, <2>1
    <3>2. PICK y : y = rob[j + 1]
      OBVIOUS
    <3>3. y \in Elems(rob)'
      BY <3>1, <3>2 DEF Elems
    <3>4. RenameEntry(rob[j])' = RenameEntry(y)'
      BY <3>1, <3>2
    <3> QED
      BY <1>12, <2>2, <3>1, <3>2, <3>3, <3>4
  <2>5. PICK E : E = Entries
    OBVIOUS
  <2>6. Tail(E) = [j \in 1 .. m |-> E[j + 1]]
    BY <2>2, <2>5
  <2> QED
    BY <2>3, <2>4, <2>5, <2>6
<1>14. rat_retire' = [r \in Regs |-> IF r \in DstIn[e.op] THEN e.new[r] ELSE rat_retire[r]]
  <2>1. Over(rat_retire, SigOf(x).dst, n)
        = [r \in Regs |-> IF r \in DstIn[OpOf(x)] THEN ByReg(x, n)[r] ELSE rat_retire[r]]
    BY OverByReg
  <2> QED
    BY <1>1, <1>4, <1>6, <2>1
<1>15. ASSUME NEW w, prf' = prf \/ prf' = WritePrf(x, w)
       PROVE  Retired' = [r \in Regs |-> IF r \in DstIn[e.op] THEN prf'[e.new[r]] ELSE Retired[r]]
  <2>1. ASSUME NEW r \in Regs PROVE prf'[rat_retire[r]] = Retired[r]
    <3>1. rat_retire[r] \in Pregs /\ rat_retire[r] \in RangeOf(rat_retire)
      BY <1>7 DEF RangeOf
    <3>2. ~ \E j \in DOMAIN op[x].new : op[x].new[j] = rat_retire[r]
      BY <1>0, <1>2, <3>1 DEF OneOwner, Taken, RangeOf
    <3>3. Retired[r] = prf[rat_retire[r]]
      BY DEF Retired
    <3> QED
      BY <1>15, <3>1, <3>2, <3>3 DEF WritePrf
  <2>2. Retired' = [r \in Regs |-> prf'[rat_retire'[r]]]
    BY DEF Retired
  <2>3. ASSUME NEW r \in Regs
        PROVE  prf'[rat_retire'[r]] = IF r \in DstIn[e.op] THEN prf'[e.new[r]] ELSE Retired[r]
    BY <1>14, <2>1
  <2> QED
    BY <2>2, <2>3
<1>16. CASE InsnOf(x).k # "monitor"
  <2>1. prf' = prf
    BY <1>3, <1>16 DEF RetireOp
  <2>2. AtIn[e.op] # "retire"
    BY <1>6, <1>16, MonitorAt
  <2>3. Retired' = [r \in Regs |-> IF r \in DstIn[e.op] THEN prf[e.new[r]] ELSE Retired[r]]
    BY <1>15, <2>1
  <2>4. Rename!Retire
    BY <1>4, <1>6, <1>8, <1>9, <1>11, <1>13, <1>14, <1>16, <2>1, <2>2, <2>3, RetireMatches
  <2> QED
    BY <1>10, <2>4
<1>17. CASE InsnOf(x).k = "monitor"
  <2>1. PICK h \in HostResults \cup {0} : prf' = WritePrf(x, <<h>>)
    BY <1>3, <1>17 DEF RetireOp
  <2>2. AtIn[e.op] = "retire"
    BY <1>6, <1>17, MonitorAt
  <2>3. PICK res : res = ByReg(x, <<h>>)
    OBVIOUS
  <2>4. Rename!Write(e, res) = WritePrf(x, <<h>>)
    <3>1. Injective(op[x].new)
      BY <1>0, <1>2 DEF OneOwner
    <3> QED
      BY <1>1, <1>5, <1>6, <2>3, <3>1, EntryWrites
  <2>5. res \in Results(e)
    BY <1>6, <1>17, <2>3, MonitorEval
  <2>6. Retired' = [r \in Regs |-> IF r \in DstIn[e.op] THEN prf'[e.new[r]] ELSE Retired[r]]
    BY <1>15, <2>1
  <2>7. prf' = Rename!Write(e, res)
    BY <2>1, <2>4
  <2>8. Rename!RetireMonitor
    BY <1>4, <1>6, <1>8, <1>9, <1>11, <1>13, <1>14, <1>17, <2>2, <2>5, <2>6, <2>7, MonitorMatches
  <2> QED
    BY <1>10, <2>8
<1> QED
  BY <1>16, <1>17

(* Initially RegRename is in its initial state.                            *)
LEMMA InitRenames == Init => Rename!Init
<1> SUFFICES ASSUME Init PROVE Rename!Init
  OBVIOUS
<1>1. /\ rat = InitRat /\ rat_retire = InitRat
      /\ freevec = Rename!RangeOf(InitRat) /\ freevec_retire = Rename!RangeOf(InitRat)
      /\ valid = Rename!RangeOf(InitRat) /\ rob = <<>>
  BY DEF Init, Owned, RangeSet, Rename!RangeOf
<1>2. prf \in [Pregs -> Word]
  BY InitTypes DEF TypeInv, DataInv
<1>3. Entries = <<>>
  BY <1>1 DEF Entries
<1>4. Retired = [r \in Regs |-> prf[InitRat[r]]]
  BY <1>1 DEF Retired
<1> QED
  BY <1>1, <1>2, <1>3, <1>4 DEF Rename!Init, Entries, Retired

(* Every step of the core is a step of RegRename or none.                  *)
LEMMA NextRenames ==
    ASSUME WordOps, Word \subseteq LoadVals, TypeInv, [Next]_vars
    PROVE  [RenameStep]_(Rename!vars)
<1>1. CASE QuietStep \/ RecoverySleep
  BY <1>1, QuietRenames, SleepRenames
<1>2. CASE AllocateOne
  BY <1>2, AllocateRenames DEF RenameStep
<1>3. CASE ExecuteOne
  BY <1>3, ExecuteRenames DEF RenameStep
<1>4. CASE CompleteOne
  BY <1>4, CompleteRenames DEF RenameStep
<1>5. CASE RetireStep
  BY <1>5, RetireRenames DEF RenameStep
<1>6. CASE Nuke
  BY <1>6, NukeRenames DEF RenameStep
<1> QED
  BY <1>1, <1>2, <1>3, <1>4, <1>5, <1>6, StepKinds

(* Whatever the stages do, and in whatever order, the rename half of the   *)
(* core only ever takes the steps of the renaming protocol: it allocates,  *)
(* executes, completes, retires or drops operations as RegRename does,     *)
(* and writes results that the instructions have for their operands.       *)
THEOREM CoreRenames ==
    WordOps /\ FpWords /\ Word \subseteq LoadVals =>
        (Spec /\ []StoresAligned => ImplementsRename)
<1> SUFFICES ASSUME WordOps /\ FpWords /\ Word \subseteq LoadVals
             PROVE  Spec /\ []StoresAligned => ImplementsRename
  OBVIOUS
<1>1. Init => TypeInv /\ Rename!Init
  BY InitTypes, InitRenames
<1>2. TypeInv /\ StoresAligned /\ [Next]_vars => TypeInv' /\ [RenameStep]_(Rename!vars)
  BY NextTyped, NextRenames
<1> QED
  BY <1>1, <1>2, PTL DEF Spec, ImplementsRename

-----------------------------------------------------------------------------
(* What retires is what the program computes                               *)

(* The fields of an executed operation o, of instruction i with signature  *)
(* s, that follow from its source values v.                                *)
OutcomeOf(i, s, v, o) ==
    /\ s.cls \in {"load", "store"} => o.v = v /\ o.ea = EffectiveAddress(i, v)
    /\ i.k = "monitor" => o.v = v /\ o.target = v[GPR(31)]
    /\ i.k \in Jumps => o.target = JumpTarget(i, v)
    /\ i.k \in Branches =>
         /\ o.target = IF TakeBr(i, v) THEN BranchTarget(i, o.pc) ELSE Unsigned(o.pc + 8)
         /\ o.slot = (TakeBr(i, v) \/ i.k \notin Likely)

(* What execute() wrote is still there.  A division by zero leaves some    *)
(* older words.                                                            *)
ResultKept(x, v) ==
    SigOf(x).at = "execute" =>
        \E old \in [DOMAIN SigOf(x).dst -> Word] : \A n \in DOMAIN SigOf(x).dst :
            prf[op[x].new[n]] = Value(InsnOf(x), op[x].pc, v, old)[n]

(* Every executed operation is what its sources, as they are now, make it. *)
HasOutcome(x, v) == OutcomeOf(InsnOf(x), SigOf(x), v, op[x]) /\ ResultKept(x, v)
Computed == \A x \in Elems(rob) : op[x].issued => HasOutcome(x, Sources(x))

(* execute() of every class leaves the outcome in the operation.           *)
LEMMA ExecutedOutcome ==
    ASSUME NEW x, NEW v, NEW lat, DOMAIN op[x] = Fields, NEW e, e = Executed(x, v, lat)
    PROVE  OutcomeOf(InsnOf(x), SigOf(x), v, e)
<1> DEFINE i == InsnOf(x)
           o == [op[x] EXCEPT !.issued = TRUE, !.cc = SigOf(x).lat]
           target == CASE i.k \in Branches -> IF TakeBr(i, v) THEN BranchTarget(i, o.pc)
                                              ELSE Unsigned(o.pc + 8)
                       [] i.k \in Jumps    -> JumpTarget(i, v)
                       [] i.k = "monitor"  -> v[GPR(31)]
           jump == [o EXCEPT !.target = target, !.exc = (o.npc # target)]
           branch == [o EXCEPT !.target = target,
                               !.slot = TakeBr(i, v) \/ i.k \notin Likely,
                               !.exc = Mispredicted(i, o, TakeBr(i, v))]
           monitor == [o EXCEPT !.v = v, !.target = target, !.exc = TRUE]
<1>1. SigOf(x).cls \in {"load", "store"} => i.k \notin Control \cup {"monitor"}
  BY ControlKinds, Decodes, Decode DEF SigOf, InsnOf, LoadOps, StoreOps
<1>2. "monitor" \notin Control /\ Branches \cap Jumps = {}
  BY ControlKinds
<1>3. DOMAIN o = Fields /\ o.pc = op[x].pc
  BY DEF Fields
<1>4. CASE SigOf(x).cls \in {"load", "store"}
  <2>1. e.v = v /\ e.ea = EffectiveAddress(i, v)
    BY <1>4, ExecutedMemory
  <2> QED
    BY <1>1, <1>4, <2>1 DEF OutcomeOf, Control
<1>5. CASE SigOf(x).cls \notin {"load", "store"} /\ i.k \in Jumps
  <2>3. i.k \notin Branches \cup {"monitor"}
    BY <1>2, <1>5 DEF Control
  <2>1. e = jump
    BY <1>5, <2>3 DEF Executed
  <2>2. target = JumpTarget(i, v)
    <3> HIDE DEF i, o
    <3> QED
      BY <1>5, <2>3
  <2> HIDE DEF i, target, o
  <2>4. jump.target = target
    BY <1>3 DEF Fields
  <2>5. e.target = JumpTarget(i, v)
    BY <2>1, <2>2, <2>4
  <2> QED
    BY <1>5, <2>3, <2>5 DEF OutcomeOf, i
<1>6. CASE SigOf(x).cls \notin {"load", "store"} /\ i.k \in Branches
  <2>1. i.k \notin Jumps \cup {"monitor"}
    BY <1>2, <1>6 DEF Control
  <2>2. e = branch
    BY <1>6, <2>1, Zenon DEF Executed
  <2>3. target = IF TakeBr(i, v) THEN BranchTarget(i, o.pc) ELSE Unsigned(o.pc + 8)
    <3> HIDE DEF i, o
    <3> QED
      BY <1>6, <2>1
  <2> HIDE DEF i, target, o
  <2>4. /\ branch.target = target /\ branch.slot = (TakeBr(i, v) \/ i.k \notin Likely)
        /\ branch.pc = op[x].pc
    BY <1>3 DEF Fields
  <2>5. /\ e.target = IF TakeBr(i, v) THEN BranchTarget(i, e.pc) ELSE Unsigned(e.pc + 8)
        /\ e.slot = (TakeBr(i, v) \/ i.k \notin Likely)
    BY <1>3, <2>2, <2>3, <2>4
  <2> QED
    BY <1>6, <2>1, <2>5 DEF OutcomeOf, i
<1>7. CASE SigOf(x).cls \notin {"load", "store"} /\ i.k = "monitor"
  <2>1. i.k \notin Jumps \cup Branches
    BY <1>2, <1>7 DEF Control
  <2>2. e = monitor
    BY <1>7, <2>1, Zenon DEF Executed
  <2>3. target = v[GPR(31)]
    BY <1>7, <2>1
  <2> HIDE DEF i, target, o
  <2>4. monitor.target = target /\ monitor.v = v
    BY <1>3 DEF Fields
  <2>5. e.v = v /\ e.target = v[GPR(31)]
    BY <2>2, <2>3, <2>4
  <2> QED
    BY <1>7, <2>1, <2>5 DEF OutcomeOf, i
<1>8. CASE SigOf(x).cls \notin {"load", "store"} /\ i.k \notin Jumps \cup Branches \cup {"monitor"}
  BY <1>8 DEF OutcomeOf
<1> QED
  BY <1>4, <1>5, <1>6, <1>7, <1>8

(* An operation that keeps its fields and its registers keeps its outcome. *)
LEMMA ComputationKept ==
    ASSUME NEW y, NEW v, HasOutcome(y, v), Keeps(y, Outcome \ {"lexc", "done"}),
           SigOf(y).at = "execute" =>
              /\ DOMAIN op[y].new = DOMAIN SigOf(y).dst
              /\ \A p \in Taken(y) : prf'[p] = prf[p]
    PROVE  HasOutcome(y, v)'
<1>1. /\ op'[y].pc = op[y].pc /\ op'[y].new = op[y].new /\ op'[y].v = op[y].v
      /\ op'[y].ea = op[y].ea /\ op'[y].target = op[y].target /\ op'[y].slot = op[y].slot
  BY DEF Keeps, Outcome, Fields
<1>2. SigOf(y)' = SigOf(y) /\ InsnOf(y)' = InsnOf(y)
  BY <1>1 DEF SigOf, InsnOf
<1>3. PICK i, s, o, e : i = InsnOf(y) /\ s = SigOf(y) /\ o = op[y] /\ e = op'[y]
  OBVIOUS
<1>4. OutcomeOf(i, s, v, o)
  BY <1>3 DEF HasOutcome
<1>5. OutcomeOf(i, s, v, e)
  BY <1>1, <1>3, <1>4 DEF OutcomeOf
<1>6. ASSUME s.at = "execute"
      PROVE  \E old \in [DOMAIN s.dst -> Word] : \A n \in DOMAIN s.dst :
                prf'[op[y].new[n]] = Value(i, op[y].pc, v, old)[n]
  <2>1. PICK old \in [DOMAIN s.dst -> Word] : \A n \in DOMAIN s.dst :
                prf[op[y].new[n]] = Value(i, op[y].pc, v, old)[n]
    BY <1>3, <1>6 DEF HasOutcome, ResultKept
  <2>2. \A n \in DOMAIN s.dst : prf'[op[y].new[n]] = prf[op[y].new[n]]
    BY <1>3, <1>6 DEF Taken, RangeOf
  <2> QED
    BY <2>1, <2>2
<1>7. ResultKept(y, v)'
  BY <1>1, <1>2, <1>3, <1>6 DEF ResultKept
<1> QED
  BY <1>2, <1>3, <1>5, <1>7 DEF HasOutcome

(* The sources of an issued operation are valid, and nobody writes them.   *)
LEMMA SourcesKept ==
    ASSUME Shape, Chained, ValidBits, NEW y \in Elems(rob), op[y].issued, Keeps(y, {"pc", "src"}),
           \A p \in valid : prf'[p] = prf[p]
    PROVE  Sources(y)' = Sources(y)
<1>1. op'[y].src = op[y].src /\ SigOf(y)' = SigOf(y)
  BY DEF Keeps, SigOf, InsnOf
<1>2. op[y].src \in [SigOf(y).src -> Pregs] /\ RangeOf(op[y].src) \subseteq valid
  BY Operands DEF ValidBits, ValidOf
<1>3. PICK f, S : f = op[y].src /\ S = SigOf(y).src
  OBVIOUS
<1>4. \A r \in S : prf'[f[r]] = prf[f[r]]
  BY <1>2, <1>3 DEF RangeOf
<1>5. Sources(y)' = [r \in S |-> prf'[f[r]]] /\ Sources(y) = [r \in S |-> prf[f[r]]]
  BY <1>1, <1>3 DEF Sources
<1> QED
  BY <1>4, <1>5

(* So an issued operation that is not written over keeps its outcome.      *)
LEMMA ComputedKept ==
    ASSUME Shape, Chained, ValidBits, Computed, NEW y \in Elems(rob), op[y].issued,
           Keeps(y, Outcome \ {"lexc", "done"}), \A p \in valid : prf'[p] = prf[p],
           SigOf(y).at = "execute" => \A p \in Taken(y) : prf'[p] = prf[p]
    PROVE  HasOutcome(y, Sources(y))'
<1>1. PICK v : v = Sources(y)
  OBVIOUS
<1>2. Keeps(y, {"pc", "src"})
  BY DEF Keeps, Outcome, Fields
<1>3. Sources(y)' = v
  BY <1>1, <1>2, SourcesKept
<1>4. HasOutcome(y, v)
  BY <1>1 DEF Computed
<1>5. DOMAIN op[y].new = DOMAIN SigOf(y).dst
  BY Operands
<1>6. HasOutcome(y, v)'
  BY <1>4, <1>5, ComputationKept
<1> QED
  BY <1>3, <1>6

(* What an operation that is not complete writes is not valid.             *)
LEMMA WriteKeepsValid ==
    ASSUME Shape, Chained, ValidBits, valid \subseteq Pregs, NEW x \in Elems(rob),
           ~ op[x].done, NEW w
    PROVE  \A p \in valid : WritePrf(x, w)[p] = prf[p]
<1> SUFFICES ASSUME NEW p \in valid PROVE WritePrf(x, w)[p] = prf[p]
  OBVIOUS
<1>1. p \in Pregs /\ p \notin Taken(x)
  BY DEF ValidBits, ValidOf
<1>2. ~ \E j \in DOMAIN op[x].new : op[x].new[j] = p
  BY <1>1 DEF Taken, RangeOf
<1> QED
  BY <1>1, <1>2 DEF WritePrf

(* execute().                                                              *)
LEMMA ExecuteComputes ==
    ASSUME TypeInv, Computed, ExecuteOne
    PROVE  Computed'
<1>0. /\ WindowInv /\ Shape /\ Chained /\ OneOwner /\ ValidBits /\ valid \subseteq Pregs
      /\ prf \in [Pregs -> Word]
  BY DEF TypeInv, RenameInv, DataInv, WindowInv
<1>1. PICK x, v, w :
        /\ v = Sources(x)
        /\ w = Value(InsnOf(x), op[x].pc, v, [n \in DOMAIN op[x].new |-> prf[op[x].new[n]]])
        /\ ExecuteSays(x, v, w)
  BY <1>0, ExecuteData
<1>2. rob' = rob /\ Elems(rob)' = Elems(rob) /\ valid' = valid
  BY <1>0, ExecuteData DEF Elems
<1>3. /\ x \in Elems(rob) /\ ~ op[x].issued /\ ~ op[x].done /\ Ready(x)
      /\ prf' = IF SigOf(x).at = "execute" /\ op[x].new # <<>> THEN WritePrf(x, w) ELSE prf
      /\ \A y \in Elems(rob) : y # x => op'[y] = op[y]
  BY <1>1 DEF ExecuteSays
<1>4. \A p \in valid : prf'[p] = prf[p]
  BY <1>0, <1>3, WriteKeepsValid
<1>5. ASSUME NEW y \in Elems(rob), y # x, op'[y].issued PROVE HasOutcome(y, Sources(y))'
  <2>1. op'[y] = op[y] /\ op[y].issued /\ Keeps(y, Outcome \ {"lexc", "done"})
    BY <1>3, <1>5 DEF Keeps
  <2>2. \A p \in Taken(y) : prf'[p] = prf[p]
    BY <1>0, <1>3, <1>5, WriteHolds
  <2> QED
    BY <1>0, <1>4, <2>1, <2>2, ComputedKept
<1>6. HasOutcome(x, Sources(x))'
  <2>1. PICK lat, e : e = Executed(x, v, lat) /\ op'[x] = e
    BY <1>1 DEF ExecuteSays
  <2>2. DOMAIN op[x] = Fields
    BY <1>0, <1>3, LoadsLive, LiveFields
  <2>3. op'[x].pc = op[x].pc /\ op'[x].new = op[x].new /\ op'[x].src = op[x].src
    BY <2>1, <2>2, ExecutedMarks DEF ExecutedFrom, Names
  <2>4. SigOf(x)' = SigOf(x) /\ InsnOf(x)' = InsnOf(x)
    BY <2>3 DEF SigOf, InsnOf
  <2>5. OutcomeOf(InsnOf(x), SigOf(x), v, e)
    BY <2>1, <2>2, ExecutedOutcome
  <2>6. Sources(x)' = v
    <3>1. PICK f, S : f = op[x].src /\ S = SigOf(x).src
      OBVIOUS
    <3>2. f \in [S -> Pregs]
      BY <1>0, <1>3, <3>1, Operands
    <3>3. RangeSet(f) \subseteq valid
      BY <1>3, <3>1 DEF Ready
    <3>4. \A r \in S : prf'[f[r]] = prf[f[r]]
      BY <1>4, <3>2, <3>3 DEF RangeSet
    <3>5. Sources(x)' = [r \in S |-> prf'[f[r]]] /\ v = [r \in S |-> prf[f[r]]]
      BY <1>1, <2>3, <2>4, <3>1 DEF Sources
    <3> QED
      BY <3>4, <3>5
  <2>7. PICK d, old, a, n, i : /\ d = SigOf(x).dst /\ n = op[x].new /\ a = op[x].pc /\ i = InsnOf(x)
                               /\ old = [k \in DOMAIN n |-> prf[n[k]]]
    OBVIOUS
  <2>8. n \in [DOMAIN d -> Pregs] /\ old \in [DOMAIN d -> Word]
    <3>1. n \in [DOMAIN d -> Pregs]
      BY <1>0, <1>3, <2>7, Operands
    <3> QED
      BY <1>0, <2>7, <3>1
  <2>9. ASSUME SigOf(x).at = "execute", NEW k \in DOMAIN d PROVE prf'[n[k]] = w[k]
    <3>1. n # <<>>
      BY <2>8, <2>9
    <3>2. prf' = WritePrf(x, w)
      BY <1>3, <2>7, <2>9, <3>1
    <3> QED
      BY <1>0, <1>3, <2>7, <2>8, <2>9, <3>2, WriteHolds
  <2>10. w = Value(i, a, v, old)
    BY <1>1, <2>7
  <2>11. SigOf(x).at = "execute" =>
           \E z \in [DOMAIN d -> Word] : \A k \in DOMAIN d : prf'[n[k]] = Value(i, a, v, z)[k]
    BY <2>8, <2>9, <2>10
  <2>12. ResultKept(x, v)'
    BY <2>3, <2>4, <2>7, <2>11 DEF ResultKept
  <2> QED
    BY <2>1, <2>4, <2>5, <2>6, <2>12 DEF HasOutcome
<1> QED
  BY <1>2, <1>5, <1>6 DEF Computed

(* complete() writes registers of loads only.                              *)
LEMMA CompleteComputes ==
    ASSUME TypeInv, Computed, CompleteOne
    PROVE  Computed'
<1>0. WindowInv /\ Shape /\ Chained /\ OneOwner /\ ValidBits /\ valid \subseteq Pregs
  BY DEF TypeInv, RenameInv, WindowInv
<1>1. PICK x, w : CompleteSays(x, w)
  BY <1>0, CompleteData
<1>2. rob' = rob /\ Elems(rob)' = Elems(rob)
  BY <1>0, CompleteData DEF Elems
<1>3. /\ x \in Elems(rob) /\ op[x].issued /\ ~ op[x].done /\ Keeps(x, Outcome \ {"done"})
      /\ prf' = IF SigOf(x).at = "complete" /\ ~ op[x].lexc THEN WritePrf(x, w) ELSE prf
      /\ \A y \in Elems(rob) : y # x => op'[y] = op[y]
  BY <1>1 DEF CompleteSays
<1>4. \A p \in valid : prf'[p] = prf[p]
  BY <1>0, <1>3, WriteKeepsValid
<1>5. ASSUME NEW y \in Elems(rob), op'[y].issued PROVE HasOutcome(y, Sources(y))'
  <2>1. Keeps(y, Outcome \ {"lexc", "done"}) /\ op[y].issued
    BY <1>3, <1>5 DEF Keeps, Outcome, Fields
  <2>2. SigOf(y).at = "execute" => \A p \in Taken(y) : prf'[p] = prf[p]
    <3>1. CASE y = x
      BY <1>3, <3>1
    <3>2. CASE y # x
      BY <1>0, <1>3, <1>5, <3>2, WriteHolds
    <3> QED
      BY <3>1, <3>2
  <2> QED
    BY <1>0, <1>4, <2>1, <2>2, ComputedKept
<1> QED
  BY <1>2, <1>5 DEF Computed

(* Every step keeps what was computed.                                     *)
LEMMA NextComputed ==
    ASSUME TypeInv, BlockInv, Computed, [Next]_vars
    PROVE  Computed'
<1>0. WindowInv /\ MarkInv /\ Shape /\ Chained /\ OneOwner /\ ValidBits /\ valid \subseteq Pregs
  BY DEF TypeInv, RenameInv, WindowInv
<1>1. CASE QuietStep
  <2>1. (\A y \in Elems(rob) : Keeps(y, Outcome)) /\ UNCHANGED <<rob, prf>> /\ Elems(rob)' = Elems(rob)
    BY <1>0, <1>1, QuietData DEF Elems
  <2>2. ASSUME NEW y \in Elems(rob), op'[y].issued PROVE HasOutcome(y, Sources(y))'
    <3>1. Keeps(y, Outcome \ {"lexc", "done"}) /\ op[y].issued
      BY <2>1, <2>2 DEF Keeps, Outcome, Fields
    <3> QED
      BY <1>0, <2>1, <3>1, ComputedKept
  <2> QED
    BY <2>1, <2>2 DEF Computed
<1>2. CASE RetireStep
  <2>1. PICK x : x = Head(rob)
    OBVIOUS
  <2>2. CASE InsnOf(x).k = "monitor"
    <3>1. rob' = <<>>
      BY <1>0, <1>2, <2>1, <2>2, MonitorAlone
    <3> QED
      BY <3>1 DEF Computed, Elems
  <2>3. CASE InsnOf(x).k # "monitor"
    <3>1. RetireOp(x)
      BY <1>0, <1>2, <2>1, RetireHead
    <3>2. prf' = prf
      BY <2>3, <3>1 DEF RetireOp
    <3>3. /\ Elems(rob)' = Elems(rob) \ {x}
          /\ \A y \in Elems(rob)' : Keeps(y, Outcome \ {"lexc"})
      BY <1>0, <1>2, <2>1, RetireData
    <3>4. ASSUME NEW y \in Elems(rob)', op'[y].issued PROVE HasOutcome(y, Sources(y))'
      <4>1. Keeps(y, Outcome \ {"lexc", "done"}) /\ op[y].issued /\ y \in Elems(rob)
        BY <3>3, <3>4 DEF Keeps, Outcome, Fields
      <4> QED
        BY <1>0, <3>2, <4>1, ComputedKept
    <3> QED
      BY <3>4 DEF Computed
  <2> QED
    BY <2>2, <2>3
<1>3. CASE AllocateOne
  <2>1. PICK x : x = Head(decode_queue)
    OBVIOUS
  <2>2. /\ \A y \in Elems(rob) : op'[y] = op[y]
        /\ Elems(rob)' = Elems(rob) \cup {x} /\ Keeps(x, Outcome \ {"src", "new", "prev"})
        /\ prf' = prf
    BY <1>0, <1>3, <2>1, AllocateData
  <2>3. ~ op'[x].issued
    <3>1. ~ op[x].issued
      BY <1>0, <1>3, <2>1, AllocateOps
    <3> QED
      BY <2>2, <3>1 DEF Keeps, Outcome, Fields
  <2>4. ASSUME NEW y \in Elems(rob), op'[y].issued PROVE HasOutcome(y, Sources(y))'
    <3>1. Keeps(y, Outcome \ {"lexc", "done"}) /\ op[y].issued
      BY <2>2, <2>4 DEF Keeps
    <3> QED
      BY <1>0, <2>2, <3>1, ComputedKept
  <2> QED
    BY <2>2, <2>3, <2>4 DEF Computed
<1>4. CASE ExecuteOne
  BY <1>4, ExecuteComputes
<1>5. CASE CompleteOne
  BY <1>5, CompleteComputes
<1>6. CASE Nuke \/ RecoverySleep
  BY <1>0, <1>6, RecoveryData DEF Computed
<1> QED
  BY <1>1, <1>2, <1>3, <1>4, <1>5, <1>6, StepKinds

(* The oldest operation reads the retired registers.                       *)
LEMMA HeadSources ==
    ASSUME Shape, Chained, rob # <<>>, NEW x, x = Head(rob)
    PROVE  Sources(x) = [r \in SigOf(x).src |-> Retired[r]]
<1>1. PICK T : IsChain(T)
  BY DEF Chained
<1>2. /\ T[1] = rat_retire /\ \A j \in 1 .. Len(rob) : Renamed(rob[j], T[j], T[j + 1])
      /\ Len(rob) \in Nat
  BY <1>1, RobElems DEF IsChain
<1>3. 1 \in 1 .. Len(rob) /\ x = rob[1]
  BY <1>2 DEF Shape
<1>4. PICK t, m : t = T[1] /\ m = T[1 + 1]
  OBVIOUS
<1>5. Renamed(x, t, m)
  BY <1>2, <1>3, <1>4
<1>6. PICK S : S = SigOf(x).src
  OBVIOUS
<1>7. op[x].src = [r \in S |-> rat_retire[r]]
  BY <1>2, <1>4, <1>5, <1>6 DEF Renamed, RenamedAt
<1>8. S \subseteq Regs
  BY <1>6, SigOfShaped DEF SigShape
<1>9. \A r \in S : prf[op[x].src[r]] = Retired[r]
  BY <1>7, <1>8 DEF Retired
<1> QED
  BY <1>6, <1>9 DEF Sources

(* retire(): the destinations of the oldest operation become retired.      *)
LEMMA RetiredAfter ==
    ASSUME TypeInv, RetireStep, NEW x, x = Head(rob), NEW d, d = SigOf(x).dst
    PROVE  /\ op[x].new \in [DOMAIN d -> Pregs]
           /\ Retired' = Over(Retired, d, [k \in DOMAIN d |-> prf'[op[x].new[k]]])
<1>0. WindowInv /\ Shape /\ Chained /\ OneOwner /\ MarkInv
  BY DEF TypeInv, WindowInv, RenameInv
<1>1. x \in Elems(rob) /\ rob # <<>> /\ RetireOp(x)
  BY <1>0, RetireData, RetireHead
<1>2. PICK n, q : n = op[x].new /\ q = RangeOf(op[x].prev)
  OBVIOUS
<1>3. rat_retire' = Over(rat_retire, d, n)
  BY <1>1, <1>2, RetireSays DEF RetireFacts
<1>4. rat_retire \in [Regs -> Pregs] /\ n \in [DOMAIN d -> Pregs]
  BY <1>0, <1>1, <1>2, HeadPrev, Operands
<1>5. PICK w : prf' = prf \/ prf' = WritePrf(x, w)
  BY <1>1 DEF RetireOp
<1>6. ASSUME NEW r \in Regs PROVE prf'[rat_retire[r]] = Retired[r]
  <2>1. rat_retire[r] \in Pregs /\ rat_retire[r] \in RangeOf(rat_retire)
    BY <1>4 DEF RangeOf
  <2>2. ~ \E j \in DOMAIN op[x].new : op[x].new[j] = rat_retire[r]
    BY <1>0, <1>1, <2>1 DEF OneOwner, Taken, RangeOf
  <2>3. Retired[r] = prf[rat_retire[r]]
    BY DEF Retired
  <2> QED
    BY <1>5, <2>1, <2>2, <2>3 DEF WritePrf
<1>7. PICK w2 : w2 = [k \in DOMAIN d |-> prf'[n[k]]]
  OBVIOUS
<1>8. ASSUME NEW r \in Regs PROVE prf'[rat_retire'[r]] = Over(Retired, d, w2)[r]
  <2>1. CASE \E k \in DOMAIN d : d[k] = r
    <3>1. PICK k : k = CHOOSE j \in DOMAIN d : d[j] = r
      OBVIOUS
    <3>2. k \in DOMAIN d
      BY <2>1, <3>1
    <3>3. rat_retire'[r] = n[k] /\ Over(Retired, d, w2)[r] = w2[k]
      BY <1>3, <2>1, <3>1 DEF Over
    <3> QED
      BY <1>7, <3>2, <3>3
  <2>2. CASE ~ \E k \in DOMAIN d : d[k] = r
    <3>1. rat_retire'[r] = rat_retire[r] /\ Over(Retired, d, w2)[r] = Retired[r]
      BY <1>3, <2>2 DEF Over
    <3> QED
      BY <1>6, <3>1
  <2> QED
    BY <2>1, <2>2
<1>9. Retired' = [r \in Regs |-> prf'[rat_retire'[r]]]
  BY DEF Retired
<1>10. PICK g : g = Over(Retired, d, w2)
  OBVIOUS
<1>11. g = [r \in Regs |-> g[r]]
  BY <1>10 DEF Over
<1>12. Retired' = g
  BY <1>8, <1>9, <1>10, <1>11
<1> QED
  BY <1>2, <1>4, <1>7, <1>10, <1>12

(* Only the values at the destinations matter.                             *)
LEMMA OverSame ==
    ASSUME NEW t, NEW d, NEW n, NEW m, \A k \in DOMAIN d : n[k] = m[k]
    PROVE  Over(t, d, n) = Over(t, d, m)
<1>1. ASSUME NEW r \in Regs
      PROVE  (IF \E k \in DOMAIN d : d[k] = r THEN n[CHOOSE k \in DOMAIN d : d[k] = r] ELSE t[r])
             = (IF \E k \in DOMAIN d : d[k] = r THEN m[CHOOSE k \in DOMAIN d : d[k] = r] ELSE t[r])
  OBVIOUS
<1> QED
  BY <1>1 DEF Over

(* The program: what one instruction does to the retired registers, to     *)
(* memory and to where the program is, p, with the values v of its source  *)
(* registers.                                                              *)
ResultsOf(i, a, s, v) ==
    CASE s.at = "complete" -> {LoadData(i, EffectiveAddress(i, v), mem, v)}
      [] s.at = "retire"   -> {<<h>> : h \in IF HostAnswers(i, v) THEN HostResults ELSE {0}}
      [] s.at = "execute"  -> {Value(i, a, v, old) : old \in [DOMAIN s.dst -> Word]}
MemoryAfter(i, s, v) ==
    CASE s.cls = "store"  -> StoreData(i, EffectiveAddress(i, v), mem, v)
      [] i.k = "monitor"  -> MonitorMem(i, mem, v)
      [] OTHER            -> mem
PathAfter(i, p, v) ==
    CASE i.k = "break"    -> p
      [] i.k \in Jumps    -> [pc |-> Unsigned(p.pc + 4), pend |-> JumpTarget(i, v)]
      [] i.k \in Branches ->
           IF TakeBr(i, v) THEN [pc |-> Unsigned(p.pc + 4), pend |-> BranchTarget(i, p.pc)]
           ELSE IF i.k \in Likely THEN [pc |-> Unsigned(p.pc + 8), pend |-> -1]
           ELSE [pc |-> Unsigned(p.pc + 4), pend |-> Unsigned(p.pc + 8)]
      [] i.k = "monitor"  -> [pc |-> v[GPR(31)], pend |-> -1]
      [] OTHER -> [pc |-> IF p.pend = -1 THEN Unsigned(p.pc + 4) ELSE p.pend, pend |-> -1]

(* The last instruction of the program was a break, or a host call that    *)
(* ends the simulation.  A host call writes $2 only: the argument it had   *)
(* in $4 is still there.                                                   *)
Ends(i, r) == i.k = "break" \/ (i.k = "monitor" /\ MonitorStops(i, r))
Stopped == icnt > 0 /\ Ends(InsnAt(last_retire_pc), Retired)

Runs(a, i, s, v) ==
    /\ \E w \in ResultsOf(i, a, s, v) : Retired' = Over(Retired, s.dst, w)
    /\ mem' = MemoryAfter(i, s, v)
    /\ path' = PathAfter(i, path, v)
    /\ last_retire_pc' = a /\ icnt' = icnt + 1
ProgramStep ==
    /\ ~ Stopped
    /\ LET a == path.pc
           i == InsnAt(a)
           s == decode_insn(i)
       IN  Runs(a, i, s, [r \in s.src |-> Retired[r]])

programVars == <<Retired, mem, path, last_retire_pc, icnt>>
RunsProgram ==
    /\ Retired = InitRegs /\ mem = InitMem /\ icnt = 0
    /\ path.pc \in StartPcs /\ path.pend = -1
    /\ [][ProgramStep]_programVars

(* The operation that retires is the instruction the program is at.        *)
LEMMA RetireOnPath ==
    ASSUME PlainSlots, WindowInv, MarkInv, HeadSlot, ControlInv, PathInv, RetireStep,
           NEW x, x = Head(rob)
    PROVE  /\ op[x].pc = path.pc
           /\ path.pend # -1 => InsnOf(x).k \notin Control \cup {"break", "monitor"}
           /\ rpc = "excuu" => InsnOf(x).k \notin Control \cup {"break", "monitor"}
<1>0. RetirePoint /\ SlotNext /\ \A y \in Live : Controlled(op[y])
  BY DEF PathInv, ControlInv
<1>1. rob # <<>>
  BY RetireData
<1>2. CASE Following
  BY <1>0, <1>1, <1>2, HeadOnPath DEF Following
<1>3. CASE ~ Following
  <2>1. rpc = "excuu"
    BY <1>0, <1>3 DEF Following, RetirePoint, RetireStep, RetireOne, RetireMore, ExceptionNoSlot,
       ExceptionBranch, ExceptionSlot
  <2>2. op[x].pc = path.pc /\ path.pend # -1
    BY <1>0, <2>1 DEF RetirePoint
  <2>3. InSlot(path.pc)
    BY <1>0, <2>2 DEF SlotNext
  <2> QED
    BY <2>2, <2>3, SlotPlain DEF InsnOf
<1> QED
  BY <1>2, <1>3

(* And the program continues where that instruction leads.                 *)
LEMMA AdvanceFollows ==
    ASSUME NEW x, NEW v, OutcomeOf(InsnOf(x), SigOf(x), v, op[x]), Controlled(op[x]),
           op[x].pc = path.pc, InsnOf(x).k \in Jumps => op[x].slot,
           InsnOf(x).k = "monitor" => ~ op[x].slot
    PROVE  Advance(x) = PathAfter(InsnOf(x), path, v)
<1>1. PICK i, o, p, q : i = InsnOf(x) /\ o = op[x] /\ p = path /\ q = Advance(x)
  OBVIOUS
<1>2. /\ "monitor" \notin Control /\ "break" \notin Control \cup {"monitor"}
      /\ Branches \cap Jumps = {} /\ Control = Branches \cup Jumps
  BY ControlKinds DEF Control, Branches, Likely, NonLikely, Jumps
<1>3. (o.slot => i.k \in Control) /\ o.pc = p.pc
  BY <1>1 DEF Controlled, InsnOf
<1>4. /\ o.slot => q = [pc |-> Unsigned(o.pc + 4), pend |-> o.target]
      /\ ~ o.slot /\ i.k = "break" => q = p
      /\ ~ o.slot /\ i.k \in Branches \cup {"monitor"} => q = [pc |-> o.target, pend |-> -1]
      /\ ~ o.slot /\ i.k \notin Branches \cup {"break", "monitor"} =>
            q = [pc |-> IF p.pend = -1 THEN Unsigned(o.pc + 4) ELSE p.pend, pend |-> -1]
  <2>1. ASSUME o.slot PROVE q = [pc |-> Unsigned(o.pc + 4), pend |-> o.target]
    <3>1. i.k # "break"
      BY <1>2, <1>3, <2>1
    <3> QED
      BY <1>1, <2>1, <3>1 DEF Advance
  <2>2. ASSUME ~ o.slot, i.k = "break" PROVE q = p
    BY <1>1, <1>2, <2>2 DEF Advance
  <2>3. ASSUME ~ o.slot, i.k \in Branches \cup {"monitor"} PROVE q = [pc |-> o.target, pend |-> -1]
    BY <1>1, <1>2, <2>3 DEF Advance
  <2>4. ASSUME ~ o.slot, i.k \notin Branches \cup {"break", "monitor"}
        PROVE  q = [pc |-> IF p.pend = -1 THEN Unsigned(o.pc + 4) ELSE p.pend, pend |-> -1]
    BY <1>1, <2>4 DEF Advance
  <2> QED
    BY <2>1, <2>2, <2>3, <2>4
<1>5. PICK z : z = PathAfter(i, p, v)
  OBVIOUS
<1>6. OutcomeOf(i, SigOf(x), v, o)
  BY <1>1
<1>7. CASE i.k = "break"
  <2>1. z = p
    BY <1>2, <1>5, <1>7 DEF PathAfter
  <2>2. ~ o.slot
    BY <1>2, <1>3, <1>7
  <2> QED
    BY <1>1, <1>4, <1>5, <1>7, <2>1, <2>2
<1>8. CASE i.k \in Jumps
  <2>1. i.k \notin Branches \cup {"break", "monitor"}
    BY <1>2, <1>8
  <2>2. z = [pc |-> Unsigned(p.pc + 4), pend |-> JumpTarget(i, v)]
    BY <1>5, <1>8, <2>1 DEF PathAfter
  <2>3. o.slot /\ o.target = JumpTarget(i, v)
    BY <1>1, <1>6, <1>8 DEF OutcomeOf
  <2> QED
    BY <1>1, <1>3, <1>4, <1>5, <2>2, <2>3
<1>9. CASE i.k \in Branches
  <2>1. i.k \notin Jumps \cup {"break", "monitor"}
    BY <1>2, <1>9
  <2>2. PICK t : t = TakeBr(i, v)
    OBVIOUS
  <2>3. t \in BOOLEAN
    BY <1>9, <2>2, TakeBrBoolean
  <2>4. /\ o.target = IF t THEN BranchTarget(i, o.pc) ELSE Unsigned(o.pc + 8)
        /\ o.slot = (t \/ i.k \notin Likely)
    BY <1>6, <1>9, <2>2 DEF OutcomeOf
  <2>5. z = IF t THEN [pc |-> Unsigned(p.pc + 4), pend |-> BranchTarget(i, p.pc)]
            ELSE IF i.k \in Likely THEN [pc |-> Unsigned(p.pc + 8), pend |-> -1]
            ELSE [pc |-> Unsigned(p.pc + 4), pend |-> Unsigned(p.pc + 8)]
    BY <1>5, <1>9, <2>1, <2>2 DEF PathAfter
  <2> QED
    BY <1>1, <1>3, <1>4, <1>5, <1>9, <2>3, <2>4, <2>5
<1>10. CASE i.k = "monitor"
  <2>1. i.k \notin Jumps \cup Branches
    BY <1>2, <1>10
  <2>2. z = [pc |-> v[GPR(31)], pend |-> -1]
    BY <1>5, <1>10, <2>1 DEF PathAfter
  <2>3. ~ o.slot /\ o.target = v[GPR(31)]
    BY <1>1, <1>6, <1>10 DEF OutcomeOf
  <2> QED
    BY <1>1, <1>4, <1>5, <1>10, <2>2, <2>3
<1>11. CASE i.k \notin Control \cup {"break", "monitor"}
  <2>1. ~ o.slot /\ i.k \notin Branches \cup {"break", "monitor"} /\ i.k \notin Jumps
    BY <1>2, <1>3, <1>11
  <2>2. z = [pc |-> IF p.pend = -1 THEN Unsigned(p.pc + 4) ELSE p.pend, pend |-> -1]
    BY <1>5, <2>1 DEF PathAfter
  <2> QED
    BY <1>1, <1>3, <1>4, <1>5, <2>1, <2>2
<1> QED
  BY <1>2, <1>7, <1>8, <1>9, <1>10, <1>11

(* retire() does to registers and memory what the instruction does.        *)
LEMMA RetireRuns ==
    ASSUME PlainSlots, TypeInv, BlockInv, FreshInv, ControlInv, PathInv, Computed, RetireStep,
           NEW a, a = path.pc, NEW i, i = InsnAt(a), NEW s, s = decode_insn(i),
           NEW v, v = [r \in s.src |-> Retired[r]]
    PROVE  Runs(a, i, s, v)
<1>0. /\ WindowInv /\ Shape /\ Chained /\ OneOwner /\ MarkInv /\ MonitorsMarked /\ HeadSlot
      /\ JumpsMarked /\ \A y \in Live : Controlled(op[y])
  BY DEF TypeInv, WindowInv, RenameInv, BlockInv, ControlInv
<1>1. PICK x, o : x = Head(rob) /\ o = op[x]
  OBVIOUS
<1>2. /\ x \in Elems(rob) /\ o.done /\ o.issued /\ ~ o.lexc /\ rob # <<>> /\ x \in Live
      /\ RetireOp(x)
  BY <1>0, <1>1, RetireData, RetireHead, LoadsLive
<1>3. o.pc = a /\ InsnOf(x) = i /\ SigOf(x) = s
  BY <1>0, <1>1, RetireOnPath DEF InsnOf, SigOf
<1>4. Sources(x) = v
  BY <1>0, <1>1, <1>2, <1>3, HeadSources
<1>5. OutcomeOf(i, s, v, o) /\ ResultKept(x, v)
  BY <1>1, <1>2, <1>3, <1>4 DEF Computed, HasOutcome
<1>6. PICK d, n : d = s.dst /\ n = o.new
  OBVIOUS
<1>7. Retired' = Over(Retired, d, [k \in DOMAIN d |-> prf'[n[k]]]) /\ n \in [DOMAIN d -> Pregs]
  BY <1>0, <1>1, <1>3, <1>6, RetiredAfter
<1>8. \A w : (\A k \in DOMAIN d : prf'[n[k]] = w[k]) => Retired' = Over(Retired, d, w)
  <2> SUFFICES ASSUME NEW w, \A k \in DOMAIN d : prf'[n[k]] = w[k]
               PROVE  Retired' = Over(Retired, d, w)
    OBVIOUS
  <2>1. PICK m : m = [k \in DOMAIN d |-> prf'[n[k]]]
    OBVIOUS
  <2>2. \A k \in DOMAIN d : m[k] = w[k]
    BY <2>1
  <2>3. Over(Retired, d, m) = Over(Retired, d, w)
    BY <2>2, OverSame
  <2> QED
    BY <1>7, <2>1, <2>3
<1>9. s.at \in {"execute", "complete", "retire"} /\ (s.at = "complete" <=> s.cls = "load")
  BY <1>3, SigOfShaped DEF SigShape
<1>10. s.at = "retire" <=> i.k = "monitor"
  BY <1>3, MonitorAt
<1>11. s.cls \in {"load", "store"} => i.k # "monitor"
  BY <1>3, Decodes, Decode DEF SigOf, InsnOf, LoadOps, StoreOps
<1>12. \E w \in ResultsOf(i, a, s, v) : Retired' = Over(Retired, d, w)
  <2>1. CASE s.at = "execute"
    <3>1. PICK old \in [DOMAIN d -> Word] : \A k \in DOMAIN d : prf[n[k]] = Value(i, a, v, old)[k]
      BY <1>1, <1>3, <1>5, <1>6, <2>1 DEF ResultKept
    <3>2. prf' = prf
      BY <1>2, <1>3, <1>10, <2>1 DEF RetireOp
    <3>3. PICK w : w = Value(i, a, v, old)
      OBVIOUS
    <3>4. Retired' = Over(Retired, d, w)
      BY <1>8, <3>1, <3>2, <3>3
    <3>5. ResultsOf(i, a, s, v) = {Value(i, a, v, z) : z \in [DOMAIN s.dst -> Word]}
      BY <2>1 DEF ResultsOf
    <3>6. w \in ResultsOf(i, a, s, v)
      BY <1>6, <3>1, <3>3, <3>5
    <3> QED
      BY <3>4, <3>6
  <2>2. CASE s.at = "complete"
    <3>1. PICK w : w = LoadData(i, EffectiveAddress(i, v), mem, v)
      OBVIOUS
    <3>2. o.v = v /\ o.ea = EffectiveAddress(i, v)
      BY <1>5, <1>9, <2>2 DEF OutcomeOf
    <3>3. w = [k \in DOMAIN n |-> prf[n[k]]]
      BY <1>1, <1>2, <1>3, <1>6, <1>9, <2>2, <3>1, <3>2 DEF FreshInv, FreshLoad, Holds
    <3>4. prf' = prf
      BY <1>2, <1>3, <1>10, <2>2 DEF RetireOp
    <3>5. \A k \in DOMAIN d : prf'[n[k]] = w[k]
      BY <1>7, <3>3, <3>4
    <3>6. Retired' = Over(Retired, d, w)
      BY <1>8, <3>5
    <3>7. w \in ResultsOf(i, a, s, v)
      BY <2>2, <3>1 DEF ResultsOf
    <3> QED
      BY <3>6, <3>7
  <2>3. CASE s.at = "retire"
    <3>0. o.v = v
      BY <1>5, <1>10, <2>3 DEF OutcomeOf
    <3>1. PICK h \in IF HostAnswers(i, v) THEN HostResults ELSE {0} : prf' = WritePrf(x, <<h>>)
      BY <1>1, <1>2, <1>3, <1>10, <2>3, <3>0 DEF RetireOp
    <3>2. PICK w : w = <<h>>
      OBVIOUS
    <3>3. \A k \in DOMAIN d : prf'[n[k]] = w[k]
      BY <1>0, <1>1, <1>2, <1>6, <1>7, <3>1, <3>2, WriteHolds
    <3>4. Retired' = Over(Retired, d, w)
      BY <1>8, <3>3
    <3>5. w \in ResultsOf(i, a, s, v)
      BY <2>3, <3>1, <3>2 DEF ResultsOf
    <3> QED
      BY <3>4, <3>5
  <2> QED
    BY <1>9, <2>1, <2>2, <2>3
<1>13. mem' = MemoryAfter(i, s, v)
  <2>1. mem' = CASE s.cls = "store"  -> StoreData(i, o.ea, mem, o.v)
                 [] i.k = "monitor"  -> MonitorMem(i, mem, o.v)
                 [] OTHER            -> mem
    BY <1>1, <1>2, <1>3 DEF RetireOp
  <2>2. CASE s.cls = "store"
    <3>1. o.v = v /\ o.ea = EffectiveAddress(i, v)
      BY <1>5, <2>2 DEF OutcomeOf
    <3> QED
      BY <1>11, <2>1, <2>2, <3>1 DEF MemoryAfter
  <2>3. CASE i.k = "monitor"
    <3>1. o.v = v
      BY <1>5, <2>3 DEF OutcomeOf
    <3> QED
      BY <1>11, <2>1, <2>3, <3>1 DEF MemoryAfter
  <2>4. CASE s.cls # "store" /\ i.k # "monitor"
    BY <2>1, <2>4 DEF MemoryAfter
  <2> QED
    BY <2>2, <2>3, <2>4
<1>14. path' = PathAfter(i, path, v)
  <2>1. Controlled(o) /\ (i.k \in Jumps => o.slot) /\ (i.k = "monitor" => ~ o.slot)
    BY <1>0, <1>1, <1>2, <1>3 DEF JumpsMarked, MonitorsMarked
  <2>2. OutcomeOf(InsnOf(x), SigOf(x), v, op[x]) /\ op[x].pc = path.pc
    BY <1>1, <1>3, <1>5
  <2>3. Advance(x) = PathAfter(InsnOf(x), path, v)
    BY <1>1, <1>3, <2>1, <2>2, AdvanceFollows
  <2>4. path' = Advance(x)
    BY <1>2 DEF RetireOp
  <2> QED
    BY <1>3, <2>3, <2>4
<1>15. last_retire_pc' = a /\ icnt' = icnt + 1
  BY <1>1, <1>2, <1>3 DEF RetireOp
<1> QED
  BY <1>6, <1>12, <1>13, <1>14, <1>15 DEF Runs

(* What does not retire leaves the program where it is.                    *)
LEMMA QuietProgram ==
    ASSUME TypeInv, [Next]_vars, ~ RetireStep
    PROVE  UNCHANGED programVars
<1>0. WindowInv /\ Shape /\ Chained /\ OneOwner
  BY DEF TypeInv, WindowInv, RenameInv
<1>1. UNCHANGED <<mem, path, last_retire_pc, icnt>> /\ rat_retire' = rat_retire
  BY <1>0, StepKinds, QuietData, AllocateData, ExecuteData, CompleteData, RecoveryData
<1>2. CASE prf' = prf
  BY <1>1, <1>2 DEF Retired, programVars
<1>3. CASE \E x \in Elems(rob) : \E w : prf' = prf \/ prf' = WritePrf(x, w)
  BY <1>0, <1>1, <1>3, RetiredSame DEF programVars
<1>4. CASE ExecuteOne
  BY <1>0, <1>3, <1>4, ExecuteData DEF ExecuteSays
<1>5. CASE CompleteOne
  BY <1>0, <1>3, <1>5, CompleteData DEF CompleteSays
<1> QED
  BY <1>0, <1>2, <1>4, <1>5, StepKinds, QuietData, AllocateData, RecoveryData

(* A host call leaves its argument in $4 alone.                            *)
LEMMA MonitorKeepsArgs ==
    ASSUME NEW a, NEW i, i = InsnAt(a), i.k = "monitor", NEW s, s = decode_insn(i),
           NEW v, v = [r \in s.src |-> Retired[r]], Runs(a, i, s, v)
    PROVE  MonitorStops(i, Retired') <=> MonitorStops(i, v)
<1>1. s.dst = <<GPR(2)>> /\ GPR(4) \in s.src
  BY MonitorSig DEF monitor_op, Sig
<1>2. GPR(4) \in Regs
  BY <1>1, SigsShaped DEF SigShape
<1>3. PICK w : Retired' = Over(Retired, <<GPR(2)>>, w)
  BY <1>1 DEF Runs
<1>4. \A k \in DOMAIN <<GPR(2)>> : <<GPR(2)>>[k] # GPR(4)
  BY DEF GPR
<1>5. Retired'[GPR(4)] = Retired[GPR(4)]
  BY <1>2, <1>3, <1>4 DEF Over
<1>6. v[GPR(4)] = Retired[GPR(4)]
  BY <1>1
<1>7. PICK z : z = Signed(v[GPR(4)])
  OBVIOUS
<1>8. Signed(Retired'[GPR(4)]) = z
  BY <1>5, <1>6, <1>7
<1> QED
  BY <1>7, <1>8 DEF MonitorStops

(* Once the program has stopped, retire() is on its way out: a break sets  *)
(* stop_sim, a host call that ends the simulation terminate_sim.           *)
StopPoint ==
    Stopped => \/ rpc \in {"loop", "end"} /\ ret.stop
               \/ rpc \in {"nuke", "sleep", "end", "done"} /\ terminate_sim
               \/ rpc = "done"

(* Nothing retires then.                                                   *)
LEMMA StoppedRetiresNothing == ASSUME StopPoint, PathInv, RetireStep PROVE ~ Stopped
<1> SUFFICES ASSUME Stopped PROVE FALSE
  OBVIOUS
<1> QED
  BY DEF StopPoint, PathInv, RetirePoint, RetireStep, RetireOne, RetireMore, ExceptionNoSlot,
     ExceptionBranch, ExceptionSlot

(* Every step keeps it.                                                    *)
LEMMA NextStop ==
    ASSUME PlainSlots, TypeInv, BlockInv, FreshInv, ControlInv, PathInv, Computed, StopPoint,
           [Next]_vars
    PROVE  StopPoint'
<1>0. /\ WindowInv /\ MarkInv /\ MonitorsMarked /\ HeadSlot /\ HeadDone /\ Shape /\ Chained
      /\ RetirePoint /\ \A y \in Live : Controlled(op[y])
  BY DEF TypeInv, BlockInv, ControlInv, PathInv, WindowInv, RenameInv
<1>1. CASE RetireStep
  <2>1. PICK x, i : x = Head(rob) /\ i = InsnOf(x)
    OBVIOUS
  <2>2. x \in Elems(rob) /\ op[x].issued /\ RetireOp(x) /\ x \in Live
    BY <1>0, <1>1, <2>1, RetireData, RetireHead, LoadsLive
  <2>3. Stopped' => i.k = "break" \/ (i.k = "monitor" /\ MonitorStops(i, op[x].v))
    <3>1. PICK a, s, v : /\ a = path.pc /\ s = decode_insn(InsnAt(a))
                         /\ v = [r \in s.src |-> Retired[r]]
      OBVIOUS
    <3>2. Runs(a, InsnAt(a), s, v)
      BY <1>1, <3>1, RetireRuns
    <3>3. op[x].pc = a /\ i = InsnAt(a) /\ SigOf(x) = s
      BY <1>0, <1>1, <2>1, <3>1, RetireOnPath DEF InsnOf, SigOf
    <3>4. last_retire_pc' = a
      BY <3>2 DEF Runs
    <3>5. i.k = "monitor" => op[x].v = v
      <4>1. Sources(x) = v
        BY <1>0, <1>1, <2>1, <3>1, <3>3, HeadSources, RetireData
      <4>2. OutcomeOf(i, s, v, op[x])
        BY <2>1, <2>2, <3>3, <4>1 DEF Computed, HasOutcome
      <4> QED
        BY <4>2 DEF OutcomeOf
    <3>6. i.k = "monitor" => (MonitorStops(i, Retired') <=> MonitorStops(i, v))
      BY <3>1, <3>2, <3>3, MonitorKeepsArgs
    <3>7. Stopped' => Ends(i, Retired')
      BY <3>3, <3>4 DEF Stopped
    <3> QED
      BY <3>5, <3>6, <3>7 DEF Ends
  <2>4. /\ i.k = "monitor" => op[x].exc /\ ~ op[x].slot
        /\ op[x].exc => i.k # "break"
        /\ op[x].slot => i.k \notin {"break", "monitor"}
        /\ rpc = "excuu" => i.k \notin {"break", "monitor"}
    <3>1. "break" \notin Control \cup {"monitor"} /\ "monitor" \notin Control
      BY DEF Control, Branches, Likely, NonLikely, Jumps
    <3>2. rpc = "excuu" => i.k \notin {"break", "monitor"}
      BY <1>0, <1>1, <2>1, RetireOnPath
    <3> QED
      BY <1>0, <2>1, <2>2, <3>1, <3>2 DEF MonitorsMarked, Controlled, InsnOf
  <2>5. CASE RetireOne
    <3>1. ~ op[x].exc
      BY <1>0, <2>1, <2>5 DEF RetireOne, HeadDone, u
    <3>2. Stopped' => i.k = "break"
      BY <2>3, <2>4, <3>1
    <3>3. rpc' = "loop" /\ ret' = [ret EXCEPT !.amt = @ + 1, !.stop = (i.k = "break")]
      BY <2>1, <2>5 DEF RetireOne
    <3>4. i.k = "break" => ret'.stop
      BY <1>0, <3>3 DEF RetirePoint
    <3> QED
      BY <3>2, <3>3, <3>4 DEF StopPoint
  <2>6. CASE ExceptionNoSlot
    <3>1. op[x].exc /\ rpc' = "nuke"
      BY <2>1, <2>6 DEF ExceptionNoSlot, u
    <3>2. Stopped' => i.k = "monitor" /\ MonitorStops(i, op[x].v)
      BY <2>3, <2>4, <3>1
    <3>3. i.k = "monitor" /\ MonitorStops(i, op[x].v) => terminate_sim'
      BY <2>1, <2>2 DEF RetireOp
    <3> QED
      BY <3>1, <3>2, <3>3 DEF StopPoint
  <2>7. CASE ExceptionBranch
    <3>1. op[x].slot
      BY <1>0, <2>1, <2>7 DEF ExceptionBranch, HeadSlot
    <3> QED
      BY <2>3, <2>4, <3>1 DEF StopPoint
  <2>8. CASE ExceptionSlot
    BY <2>3, <2>4, <2>8 DEF StopPoint, ExceptionSlot
  <2> QED
    BY <1>1, <2>5, <2>6, <2>7, <2>8 DEF RetireStep
<1>2. CASE ~ RetireStep
  <2>1. UNCHANGED <<icnt, last_retire_pc, Retired>>
    BY <1>2, QuietProgram DEF programVars
  <2>2. Stopped' = Stopped
    BY <2>1 DEF Stopped
  <2>3. CASE QuietRetire
    BY <2>2, <2>3 DEF QuietRetire, RetireIdle, RetireException, RetireWaitSlot, ExceptionBegin,
       ExceptionWaitSlot, DelaySlotException, RetireEnd, RetireMore, RetireMoves, StopPoint,
       NoRetire
  <2>4. CASE Nuke \/ RecoverySleep
    BY <1>0, <2>2, <2>4 DEF Nuke, RecoverySleep, ClearWindow, StopPoint, RetirePoint
  <2>5. CASE ~ QuietRetire /\ ~ (Nuke \/ RecoverySleep)
    <3>1. UNCHANGED <<rpc, ret, terminate_sim>>
      BY <1>2, <2>5, StepKinds DEF QuietStep, QuietFront, FetchSlot, FetchInsn, PushFetch, DecodeOne,
         CacheTick, NextCycle, ThreadYield, Terminated, vars, AllocateOne, ExecuteOne, CompleteOne
    <3> QED
      BY <2>2, <3>1 DEF StopPoint
  <2> QED
    BY <2>3, <2>4, <2>5
<1> QED
  BY <1>1, <1>2

(* Every step is a step of the program or none.                            *)
LEMMA NextRuns ==
    ASSUME PlainSlots, TypeInv, BlockInv, FreshInv, ControlInv, PathInv, Computed, StopPoint,
           [Next]_vars
    PROVE  [ProgramStep]_programVars
<1>1. CASE RetireStep
  <2>1. PICK a, i, s, v : /\ a = path.pc /\ i = InsnAt(a) /\ s = decode_insn(i)
                          /\ v = [r \in s.src |-> Retired[r]]
    OBVIOUS
  <2>2. ~ Stopped
    BY <1>1, StoppedRetiresNothing
  <2>3. Runs(a, i, s, v)
    BY <1>1, <2>1, RetireRuns
  <2> QED
    BY <2>1, <2>2, <2>3 DEF ProgramStep
<1> QED
  BY <1>1, QuietProgram

(* Initially the program has its initial registers and memory.             *)
LEMMA InitRuns ==
    Init => /\ Computed /\ StopPoint
            /\ Retired = InitRegs /\ mem = InitMem /\ icnt = 0
            /\ path.pc \in StartPcs /\ path.pend = -1
<1> SUFFICES ASSUME Init
             PROVE  /\ Computed /\ StopPoint
                    /\ Retired = InitRegs /\ mem = InitMem /\ icnt = 0
                    /\ path.pc \in StartPcs /\ path.pend = -1
  OBVIOUS
<1>1. Elems(rob) = {} /\ icnt = 0 /\ mem = InitMem
      /\ path.pc \in StartPcs /\ path.pend = -1
  BY DEF Init, Elems
<1>2. Computed /\ StopPoint
  BY <1>1 DEF Computed, StopPoint, Stopped
<1>3. ASSUME NEW r \in Regs PROVE prf[rat_retire[r]] = InitRegs[r]
  <2>1. PICK p : p = InitRat[r]
    OBVIOUS
  <2>2. p \in Pregs /\ p \in Owned
    BY <2>1, InitRatTable DEF Owned, RangeSet
  <2>3. PICK q : q = CHOOSE n \in Regs : InitRat[n] = p
    OBVIOUS
  <2>4. q \in Regs /\ InitRat[q] = p
    BY <2>1, <2>3
  <2>5. q = r
    BY <2>1, <2>4, InitRatTable DEF Injective
  <2>6. prf[p] = InitRegs[q]
    BY <2>2, <2>3 DEF Init
  <2> QED
    BY <2>1, <2>5, <2>6 DEF Init
<1>4. Retired = InitRegs
  BY <1>3, FieldsAssumption DEF Retired
<1> QED
  BY <1>1, <1>2, <1>4

(* The pipeline runs the program: whatever was fetched, executed, replayed *)
(* or thrown away, each retirement (retireOne(), ooo_core.cc) does to the  *)
(* retired registers, to memory and to where the program is what the       *)
(* instruction at that point does with the retired values of its sources,  *)
(* and nothing retires after a break or a host call that ends the          *)
(* simulation.                                                             *)
THEOREM CoreRunsProgram ==
    WordOps /\ FpWords /\ PlainSlots =>
        (Spec /\ []StoresAligned /\ []LinksAway => RunsProgram)
<1> SUFFICES ASSUME WordOps /\ FpWords /\ PlainSlots
             PROVE  Spec /\ []StoresAligned /\ []LinksAway => RunsProgram
  OBVIOUS
<1> DEFINE I == /\ TypeInv /\ BlockInv /\ FreshInv /\ ControlInv /\ TargetsInv /\ PathInv
                /\ Computed /\ StopPoint
           H == StoresAligned /\ LinksAway
<1>1. Init => /\ I
              /\ Retired = InitRegs /\ mem = InitMem /\ icnt = 0
              /\ path.pc \in StartPcs /\ path.pend = -1
  BY InitTypes, InitFresh, InitPath, InitRuns
<1>2. I /\ H /\ [Next]_vars => I'
  <2> SUFFICES ASSUME I, H, [Next]_vars PROVE I'
    OBVIOUS
  <2>1. TypeInv'
    BY NextTyped
  <2>2. WindowInv /\ WindowInv' /\ MarkInv /\ Chained /\ OneOwner /\ DataInv
        /\ MonitorsMarked /\ HeadSlot /\ Blocks
    BY <2>1 DEF TypeInv, RenameInv, BlockInv
  <2>3. BlockInv'
    BY <2>2, NextMonitors, NextHeadSlot, NextBlocks DEF BlockInv
  <2>4. FreshInv'
    BY <2>2, NextFresh
  <2>5. ControlInv'
    <3>1. (\A y \in Live : Controlled(op[y])) /\ JumpsMarked
      BY DEF ControlInv
    <3>2. JumpsMarked'
      BY <2>2, <3>1, NextJumps
    <3>3. \A y \in Live' : Controlled(op'[y])
      BY <2>2, <3>1, NextControlled
    <3> QED
      BY <3>2, <3>3 DEF ControlInv
  <2>6. TargetsInv'
    BY <2>2, NextTargets
  <2>7. PathInv'
    BY <2>2, NextPath
  <2>8. Computed' /\ StopPoint'
    BY NextComputed, NextStop
  <2> QED
    BY <2>1, <2>3, <2>4, <2>5, <2>6, <2>7, <2>8
<1>3. I /\ [Next]_vars => [ProgramStep]_programVars
  BY NextRuns
<1> HIDE DEF I, H
<1> QED
  BY <1>1, <1>2, <1>3, PTL DEF Spec, H, RunsProgram

===============================================================================
