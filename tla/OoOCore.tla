------------------------------ MODULE OoOCore ------------------------------
(***************************************************************************)
(* The out-of-order core (ooo_core.cc, with the op classes of mips_op.cc). *)
(* Its stages are gthread coroutines that run in a fixed order, one after  *)
(* the other in every cycle: retire, complete, execute, allocate, decode,  *)
(* fetch, cache, cycle_count.  `turn' is the running one; a step handles   *)
(* one operation, or yields.  Only retire keeps a position across yields   *)
(* (rpc): it sleeps while a delay slot is missing and while it recovers.   *)
(* An operation (mips_meta_op) is a record in op[id]; the queues, the      *)
(* reservation stations and the load and store tables hold ids, as the     *)
(* code holds pointers.  Cycle numbers are kept relative to the current    *)
(* cycle.  The branch predictors are any Boolean, cache latencies any      *)
(* element of LoadLats; every class has one reservation station.           *)
(***************************************************************************)
EXTENDS MipsOps, FiniteSetsExt

CONSTANTS
    Program, StartPcs,           \* text and entry points
    Regs, InitRegs, InitMem,     \* modelled registers, initial contents
    HostResults,                 \* what a host call may return
    NumPrf,                      \* [file -> num_gpr_prf, ...]
    FetchqSize, DecodeqSize, RobSize, LoadTblSize, StoreTblSize,
    SchedEntries,                \* [Classes -> num_alu_sched_entries, ...]
    FetchBw, DecodeBw, AllocBw, RetireBw,
    SchedPerCycle,               \* num_*_sched_per_cycle
    TakenBranchesPerCycle,
    StackSize,                   \* return_stack
    FlashRestart,                \* flash_restart # 0
    UseL1d, LoadLats,            \* is there an l1d; its latencies
    MaxIcnt,                     \* maxicnt
    LoadVals                     \* the values loads return (for ImplementsRename)

ASSUME SizesAssumption == {FetchqSize, DecodeqSize, RobSize, MaxIcnt} \subseteq Nat
(* Without an l1d, l1d_latency is not 0: complete() would miss the cycle.  *)
ASSUME LatsAssumption == LoadLats \subseteq Nat /\ (~ UseL1d => 0 \notin LoadLats)
ASSUME ProgramAssumption == \A a \in DOMAIN Program : Program[a].k \in Mnemonics

(* The fields of the text fit: imm is signed, the bit and condition fields *)
(* are below the width of a word, and ins replaces a field of one bit or   *)
(* more; the target of a direct jump is an address.  Registers, memory and *)
(* what the host returns hold words.                                       *)
ASSUME FieldsAssumption ==
    /\ \A a \in DOMAIN Program :
          LET i == Program[a]
          IN  /\ i.imm \in Int
              /\ i.k \in ConstShift \cup FpCmp \cup {"ext", "ins"} => i.sa \in 0 .. WordBits - 1
              /\ i.k \in {"ext", "ins"} => i.rd \in 0 .. WordBits - 1
              /\ i.k = "ins" => i.sa <= i.rd
              /\ i.k \in {"j", "jal"} => i.imm \in Word
    /\ InitRegs \in [Regs -> Word] /\ HostResults \subseteq Word
    /\ \A a \in DOMAIN InitMem : InitMem[a] \in Word

(* An immediate instruction never names $0: it takes no register then, and *)
(* goes on to use -1 as one: a write in front of gpr_prf when it executes, *)
(* die() in set_bit() when it completes.                                   *)
ASSUME ItypeAssumption ==
    \A a \in DOMAIN Program : Program[a].k \in IType \cup {"lui"} => Program[a].rt # 0

VARIABLES
    turn, loc,                   \* the running thread, its locals
    rpc, ret,                    \* where retire() is, its locals
    op, fetch_queue, decode_queue, rob,
    rs, load_tbl, store_tbl, inflight,
    rat, rat_retire, freevec, freevec_retire, valid, prf,
    fetch_pc, delay_slot_npc, return_stack, fetch_blocked,
    nuke, alloc_blocked, terminate_sim,
    mem, branch_target_map, load_alias_map, icnt, last_retire_pc,
    path                         \* history: where the retired program is

queueVars  == <<fetch_queue, decode_queue, rob>>
windowVars == <<rs, load_tbl, store_tbl, inflight>>
renameVars == <<rat, rat_retire, freevec, freevec_retire, valid, prf>>
fetchVars  == <<fetch_pc, delay_slot_npc, return_stack, fetch_blocked>>
archVars   == <<mem, branch_target_map, load_alias_map, icnt, last_retire_pc, path>>
vars == <<turn, loc, rpc, ret, op, queueVars, windowVars, renameVars, fetchVars,
          nuke, alloc_blocked, terminate_sim, archVars>>

Threads == <<"retire", "complete", "execute", "allocate", "decode", "fetch", "cache",
             "cycle_count">>
Ids == 1 .. FetchqSize + DecodeqSize + RobSize
Null == [pc |-> -1]
Live == {x \in Ids : op[x] # Null}
FreeId == CHOOSE x \in Ids \ Live : \A y \in Ids \ Live : x <= y

Nop == Insn("sll", 0, 0, 0, 0, 0)
InsnAt(a) == IF a \in DOMAIN Program THEN Program[a] ELSE Nop
InsnOf(x) == InsnAt(op[x].pc)
SigOf(x) == decode_insn(InsnOf(x))

NewOp(pc, npc, taken) ==
    [pc |-> pc, npc |-> npc, taken |-> taken, age |-> 0, issued |-> FALSE, aux |-> -1,
     cc |-> -1, done |-> FALSE, exc |-> FALSE, lexc |-> FALSE, slot |-> FALSE, target |-> 0,
     ea |-> 0, v |-> <<>>, src |-> <<>>, new |-> <<>>, prev |-> <<>>]

Files == {r[1] : r \in Regs}
Pregs == UNION {{f} \X (0 .. NumPrf[f] - 1) : f \in Files}

(* Instructions name modelled registers, and every file has a physical     *)
(* register for each of its registers (initialize_rat_mappings()).         *)
ASSUME RegsAssumption ==
    /\ IsFiniteSet(Regs) /\ \A r \in Regs : r = <<r[1], r[2]>> /\ r[2] \in Nat
    /\ \A f \in Files : NumPrf[f] \in Nat /\ Cardinality({r \in Regs : r[1] = f}) <= NumPrf[f]
    /\ DOMAIN Program \subseteq Nat
    /\ \A a \in DOMAIN Program \cup {-1} :
          LET s == decode_insn(InsnAt(a)) IN s.src \cup RangeSet(s.dst) \subseteq Regs

(* initialize_rat_mappings(): the n-th register in the n-th physical one.  *)
InitRat == [r \in Regs |-> <<r[1], Cardinality({q \in Regs : q[1] = r[1] /\ q[2] < r[2]})>>]
Owned == RangeSet(InitRat)

NoLocals == [amt |-> 0, taken |-> 0, used |-> [c \in Classes |-> 0]]
NoRetire == [amt |-> 0, stop |-> FALSE, sleep |-> 0, restart |-> 0]

Init ==
    /\ turn = 1 /\ loc = NoLocals /\ rpc = "loop" /\ ret = NoRetire
    /\ op = [x \in Ids |-> Null]
    /\ fetch_queue = <<>> /\ decode_queue = <<>> /\ rob = <<>>
    /\ rs = [c \in Classes |-> <<>>]
    /\ load_tbl = {} /\ store_tbl = {} /\ inflight = {}
    /\ rat = InitRat /\ rat_retire = InitRat
    /\ freevec = Owned /\ freevec_retire = Owned /\ valid = Owned
    /\ prf = [p \in Pregs |-> IF p \in Owned
                              THEN InitRegs[CHOOSE r \in Regs : InitRat[r] = p] ELSE 0]
    /\ fetch_pc \in StartPcs
    /\ delay_slot_npc = 0 /\ fetch_blocked = FALSE
    /\ return_stack = [idx |-> StackSize - 1, at |-> [n \in 0 .. StackSize - 1 |-> 0]]
    /\ nuke = FALSE /\ alloc_blocked = FALSE /\ terminate_sim = FALSE
    /\ mem = InitMem /\ branch_target_map = <<>> /\ load_alias_map = {}
    /\ icnt = 0 /\ last_retire_pc = 0
    /\ path = [pc |-> fetch_pc, pend |-> -1]

(* gthread_yield(): the next thread of the round runs.                     *)
Running(t) == Threads[turn] = t
Yield == turn' = (turn % Len(Threads)) + 1 /\ loc' = NoLocals
Stay == turn' = turn /\ loc' = [loc EXCEPT !.amt = @ + 1]
-----------------------------------------------------------------------------
(* fetch()                                                                 *)

is_likely_branch(i) == i.k \in {"beql", "bnel", "blezl", "bgtzl"}
is_nonlikely_branch(i) == i.k \in {"beq", "bne", "blez", "bgtz", "bltz", "bgez", "bltzl", "bgezl"}

FetchMore ==
    /\ ~ terminate_sim /\ ~ nuke /\ ~ fetch_blocked
    /\ Len(fetch_queue) < FetchqSize
    /\ loc.amt < FetchBw

PushFetch(pc, npc, taken) ==
    /\ op' = [op EXCEPT ![FreeId] = NewOp(pc, npc, taken)]
    /\ fetch_queue' = Append(fetch_queue, FreeId)
    /\ fetch_blocked' = (InsnAt(pc).k = "monitor")
    /\ UNCHANGED <<rpc, ret, decode_queue, rob, windowVars, renameVars,
                   nuke, alloc_blocked, terminate_sim, archVars>>

(* The delay slot of a redirected fetch; a full complement of taken        *)
(* branches ends the cycle.                                                *)
FetchSlot ==
    /\ Running("fetch") /\ FetchMore
    /\ delay_slot_npc # 0
    /\ PushFetch(delay_slot_npc, Unsigned(delay_slot_npc + 4), FALSE)
    /\ delay_slot_npc' = 0
    /\ IF loc.taken = TakenBranchesPerCycle THEN Yield ELSE Stay
    /\ UNCHANGED <<fetch_pc, return_stack>>

(* What fetch() predicts: taken (predict_taken), redirect (the delay slot  *)
(* is fetched next) and the pc after that.                                 *)
PredictNext(pc) == [taken |-> FALSE, redirect |-> FALSE, npc |-> Unsigned(pc + 4)]
\* mutant of PredictTaken: the delay slot is not fetched
PredictTakenNoSlot(t) == [taken |-> TRUE, redirect |-> FALSE, npc |-> t]
PredictTaken(t) == [taken |-> TRUE, redirect |-> TRUE, npc |-> t]
PredictReturn ==
    [taken |-> FALSE, redirect |-> TRUE,
     npc |-> return_stack.at[(return_stack.idx + 1) % StackSize]]

(* The predictions the instruction i at pc may get: any, once it has       *)
(* retired as a branch or a jump.                                          *)
Predictions(i, pc) ==
    LET known == pc \in DOMAIN branch_target_map
        target == BranchTarget(i, pc)
    IN  CASE i.k = "jr"                              -> {PredictReturn}
          [] i.k \in {"j", "jal"}                    -> {PredictTaken(JumpTarget(i, <<>>))}
          [] i.k \notin {"jr", "j", "jal"} /\ known  ->
                {PredictNext(pc), PredictTaken(branch_target_map[pc])}
          [] is_likely_branch(i) /\ ~ known          -> {PredictTaken(target)}
          [] is_nonlikely_branch(i) /\ ~ known       ->
                {IF target < pc THEN PredictTaken(target) ELSE PredictNext(pc)}
          [] OTHER                                   -> {PredictNext(pc)}

FetchInsn ==
    /\ Running("fetch") /\ FetchMore
    /\ delay_slot_npc = 0
    /\ LET i == InsnAt(fetch_pc)
       IN  /\ \E p \in Predictions(i, fetch_pc) :
                /\ PushFetch(fetch_pc, p.npc, p.taken)
                /\ fetch_pc' = p.npc
                /\ delay_slot_npc' = IF p.redirect THEN Unsigned(fetch_pc + 4) ELSE 0
                /\ loc' = [loc EXCEPT !.amt = IF i.k = "jal" THEN @ + 2 ELSE @ + 1,
                                      !.taken = IF p.taken THEN @ + 1 ELSE @]
           /\ return_stack' =
                CASE i.k = "jr"  -> [return_stack EXCEPT !.idx = (@ + 1) % StackSize]
                  [] i.k = "jal" -> [idx |-> (return_stack.idx + StackSize - 1) % StackSize,
                                     at |-> [return_stack.at EXCEPT
                                                ![return_stack.idx] = Unsigned(fetch_pc + 8)]]
                  [] OTHER       -> return_stack
    /\ UNCHANGED turn

-----------------------------------------------------------------------------
(* decode(): two cycles after the fetch.  Jumps know of their delay slot.  *)
\* mutant of DecodeMore: decode_queue.full() is not asked
DecodeMoreAlways ==
    /\ ~ terminate_sim /\ ~ nuke
    /\ fetch_queue # <<>>
    /\ loc.amt < DecodeBw
    /\ op[Head(fetch_queue)].age > 1
DecodeMore ==
    /\ ~ terminate_sim /\ ~ nuke
    /\ fetch_queue # <<>>
    /\ Len(decode_queue) < DecodeqSize
    /\ loc.amt < DecodeBw
    /\ op[Head(fetch_queue)].age > 1

DecodeOne ==
    /\ Running("decode") /\ DecodeMore
    /\ LET x == Head(fetch_queue)
       IN  /\ op' = [op EXCEPT ![x].age = 0, ![x].slot = InsnOf(x).k \in Jumps]
           /\ decode_queue' = Append(decode_queue, x)
    /\ fetch_queue' = Tail(fetch_queue)
    /\ Stay
    /\ UNCHANGED <<rpc, ret, rob, windowVars, renameVars, fetchVars,
                   nuke, alloc_blocked, terminate_sim, archVars>>

-----------------------------------------------------------------------------
(* allocate()                                                              *)

Free(f) == {n \in 0 .. NumPrf[f] - 1 : <<f, n>> \notin freevec}
(* find_first_unset(), n times.                                            *)
NthFree(f, n) == <<f, CHOOSE k \in Free(f) : Cardinality({j \in Free(f) : j < k}) = n - 1>>

(* allocate() of the op class: a physical register per destination, a slot *)
(* in the load or the store table.                                         *)
CanRename(x) ==
    LET s == SigOf(x)
    IN  /\ s.dst # <<>> => Cardinality(Free(s.dst[1][1])) >= Len(s.dst)
        /\ s.cls = "load" => Cardinality(load_tbl) < LoadTblSize
        /\ s.cls = "store" => Cardinality(store_tbl) < StoreTblSize

AllocateMore ==
    /\ ~ terminate_sim /\ ~ nuke /\ ~ alloc_blocked
    /\ decode_queue # <<>>
    /\ Len(rob) < RobSize
    /\ loc.amt < AllocBw
    /\ LET x == Head(decode_queue)
           c == SigOf(x).cls
       IN  /\ op[x].age # 0
           /\ c \in {"jmp", "system"} \/ loc.used[c] < SchedPerCycle
           /\ Len(rs[c]) < SchedEntries[c]
           /\ CanRename(x)

AllocateOne ==
    /\ Running("allocate") /\ AllocateMore
    /\ LET x == Head(decode_queue)
           s == SigOf(x)
           new == [j \in DOMAIN s.dst |-> NthFree(s.dst[j][1], j)]
       IN  /\ op' = [op EXCEPT ![x].src = [r \in s.src |-> rat[r]],
                               ![x].prev = [j \in DOMAIN s.dst |-> rat[s.dst[j]]],
                               ![x].new = new]
           /\ rat' = [r \in Regs |-> IF \E j \in DOMAIN s.dst : s.dst[j] = r
                                     THEN new[CHOOSE j \in DOMAIN s.dst : s.dst[j] = r]
                                     ELSE rat[r]]
           /\ freevec' = freevec \cup RangeSet(new)
           /\ valid' = valid \ RangeSet(new)
           /\ load_tbl' = IF s.cls = "load" THEN load_tbl \cup {x} ELSE load_tbl
           /\ store_tbl' = IF s.cls = "store" THEN store_tbl \cup {x} ELSE store_tbl
           /\ alloc_blocked' = (InsnOf(x).k \in {"sync", "monitor"})
           /\ rs' = [rs EXCEPT ![s.cls] = Append(@, x)]
           /\ rob' = Append(rob, x)
           /\ loc' = [loc EXCEPT !.amt = @ + 1, !.used[s.cls] = @ + 1]
    /\ decode_queue' = Tail(decode_queue)
    /\ UNCHANGED <<turn, rpc, ret, fetch_queue, inflight, rat_retire, freevec_retire, prf,
                   fetchVars, nuke, terminate_sim, archVars>>

-----------------------------------------------------------------------------
(* execute()                                                               *)

(* A load that once read too early waits for the older stores it is known  *)
(* to conflict with.                                                       *)
RobIndex(x) == CHOOSE j \in DOMAIN rob : rob[j] = x
\* mutant of stall_for_load: younger stores stall the load too
stall_for_any(x) == \E y \in store_tbl : <<op[x].pc, op[y].pc>> \in load_alias_map
stall_for_load(x) ==
    \E y \in store_tbl : /\ <<op[x].pc, op[y].pc>> \in load_alias_map
                         /\ RobIndex(y) < RobIndex(x)

\* mutant of Ready: one operand is enough
ReadyEarly(x) ==
    /\ op[x].src = <<>> \/ RangeSet(op[x].src) \cap valid # {}
    /\ SigOf(x).cls = "load" => ~ stall_for_load(x)
Ready(x) ==
    /\ RangeSet(op[x].src) \subseteq valid
    /\ SigOf(x).cls = "load" => ~ stall_for_load(x)

(* OOO_SCHED takes any ready operation, at most NUM + 1 of them (ns <= NUM *)
(* with NUM = SchedPerCycle, 1 for jmp_rs); INORDER_SCHED the head of      *)
(* system_rs, once.  ready_to_dispatch_latency has its default, 0.         *)
SchedLimit(c) == CASE c = "system" -> 1
                   [] c = "jmp"    -> 2
                   [] OTHER        -> SchedPerCycle + 1
ReadyAt(c) ==
    {j \in DOMAIN rs[c] :
        /\ ~ terminate_sim /\ ~ nuke
        /\ Ready(rs[c][j])
        /\ loc.used[c] < SchedLimit(c)
        /\ c = "system" => j = 1}
SchedOrder == <<"alu", "load", "store", "fp", "jmp", "system">>
Schedulable == {n \in DOMAIN SchedOrder : ReadyAt(SchedOrder[n]) # {}}

(* prf after an operation writes its destinations.                         *)
WritePrf(x, w) ==
    [p \in Pregs |-> IF \E j \in DOMAIN op[x].new : op[x].new[j] = p
                     THEN w[CHOOSE j \in DOMAIN op[x].new : op[x].new[j] = p] ELSE prf[p]]

(* The exception of branch_op::execute(): a wrong prediction, and the      *)
(* delay slot of a likely branch that is not taken.                        *)
\* mutant of Mispredicted: the delay slot is not annulled
MispredictedTaken(i, o, take_br) == o.taken # take_br
Mispredicted(i, o, take_br) ==
    \/ o.taken # take_br
    \/ ~ take_br /\ i.k \in Likely /\ o.npc # Unsigned(o.pc + 8)

(* execute() of the op class: the operation afterwards.                    *)
Executed(x, v, lat) ==
    LET i == InsnOf(x)
        s == SigOf(x)
        o == [op[x] EXCEPT !.issued = TRUE, !.cc = s.lat]
        memop == [o EXCEPT !.ea = EffectiveAddress(i, v), !.v = v,
                           !.aux = IF UseL1d THEN lat ELSE -1, !.cc = IF UseL1d THEN -1 ELSE lat]
        take_br == TakeBr(i, v)
        target == CASE i.k \in Branches -> IF take_br THEN BranchTarget(i, o.pc)
                                           ELSE Unsigned(o.pc + 8)
                    [] i.k \in Jumps    -> JumpTarget(i, v)
                    [] i.k = "monitor"  -> v[GPR(31)]
    IN  CASE s.cls = "load"    -> [memop EXCEPT !.lexc = @ \/ Misaligned(i, memop.ea)]
          [] s.cls = "store"   -> memop
          [] i.k \in Jumps     -> [o EXCEPT !.target = target, !.exc = (o.npc # target)]
          [] i.k \in Branches  ->
                [o EXCEPT !.target = target,
                          !.slot = take_br \/ i.k \notin Likely,
                          !.exc = Mispredicted(i, o, take_br)]
          [] i.k = "monitor"   -> [o EXCEPT !.v = v, !.target = target, !.exc = TRUE]
          [] OTHER             -> o

(* l1d->read() takes any latency, l1d->write() one cycle; without an l1d   *)
(* sw has latency one and the others l1d_latency.                          *)
Latencies(x) ==
    CASE SigOf(x).cls = "load"                             -> LoadLats
      [] InsnOf(x).k \in {"swc1", "sdc1"} /\ ~ UseL1d      -> LoadLats
      [] OTHER                                             -> {1}

ExecuteOne ==
    /\ Running("execute") /\ Schedulable # {}
    /\ LET c == SchedOrder[Min(Schedulable)]
           j == Min(ReadyAt(c))
           x == rs[c][j]
           v == [r \in SigOf(x).src |-> prf[op[x].src[r]]]
       IN  /\ \E lat \in Latencies(x) : op' = [op EXCEPT ![x] = Executed(x, v, lat)]
           /\ rs' = [rs EXCEPT ![c] = SubSeq(@, 1, j - 1) \o SubSeq(@, j + 1, Len(@))]
           /\ inflight' = IF UseL1d /\ c \in {"load", "store"} THEN inflight \cup {x} ELSE inflight
           /\ prf' = IF SigOf(x).at = "execute" /\ op[x].new # <<>>
                     THEN WritePrf(x, Value(InsnOf(x), op[x].pc, v,
                                            [n \in DOMAIN op[x].new |-> prf[op[x].new[n]]]))
                     ELSE prf
           /\ alloc_blocked' = (alloc_blocked \/ (InsnOf(x).k \in Branches /\ op'[x].exc))
           /\ loc' = [loc EXCEPT !.used[c] = @ + 1]
    /\ UNCHANGED <<turn, rpc, ret, queueVars, load_tbl, store_tbl, rat, rat_retire, freevec,
                   freevec_retire, valid, fetchVars, nuke, terminate_sim, archVars>>
-----------------------------------------------------------------------------
(* complete(): the operations whose complete_cycle is now.  A load reads   *)
(* memory here, unless it is marked to be replayed.                        *)
Completing ==
    {j \in DOMAIN rob : ~ terminate_sim /\ ~ nuke /\ ~ op[rob[j]].done /\ op[rob[j]].cc = 0}

CompleteOne ==
    /\ Running("complete") /\ Completing # {}
    /\ LET x == rob[Min(Completing)]
           o == op[x]
           at == SigOf(x).at
       IN  /\ op' = [op EXCEPT ![x].done = TRUE]
           /\ prf' = IF at = "complete" /\ ~ o.lexc
                     THEN WritePrf(x, LoadData(InsnOf(x), o.ea, mem, o.v)) ELSE prf
           /\ valid' = IF at = "retire" \/ o.lexc THEN valid ELSE valid \cup RangeSet(o.new)
    /\ UNCHANGED <<turn, loc, rpc, ret, queueVars, windowVars, rat, rat_retire, freevec,
                   freevec_retire, fetchVars, nuke, alloc_blocked, terminate_sim, archVars>>

(* cache(): simCache::tick() schedules the completion of an access whose   *)
(* latency has passed.                                                     *)
\* mutant of TickDelay: complete_cycle = aux_cycle
TickDelayNone == 0
TickDelay == 1
CacheTick ==
    /\ Running("cache") /\ ~ terminate_sim
    /\ op' = [x \in Ids |-> IF x \in inflight /\ op[x].aux = 0
                            THEN [op[x] EXCEPT !.cc = TickDelay, !.aux = -1] ELSE op[x]]
    /\ inflight' = {x \in inflight : op[x].aux # 0}
    /\ Yield
    /\ UNCHANGED <<rpc, ret, queueVars, rs, load_tbl, store_tbl, renameVars, fetchVars,
                   nuke, alloc_blocked, terminate_sim, archVars>>

(* cycle_count(): curr_cycle advances.                                     *)
NextCycle ==
    /\ Running("cycle_count") /\ ~ terminate_sim
    /\ LET dec(n) == IF n = -1 THEN -1 ELSE n - 1
       IN  op' = [x \in Ids |-> IF x \notin Live THEN Null
                                ELSE [op[x] EXCEPT !.age = IF @ < 2 THEN @ + 1 ELSE 2,
                                                   !.cc = dec(@), !.aux = dec(@)]]
    /\ Yield
    /\ UNCHANGED <<rpc, ret, queueVars, windowVars, renameVars, fetchVars,
                   nuke, alloc_blocked, terminate_sim, archVars>>

(* A thread with nothing left to do in this cycle, or told to stop.        *)
ThreadYield ==
    /\ \/ Running("fetch") /\ ~ FetchMore
       \/ Running("decode") /\ ~ DecodeMore
       \/ Running("allocate") /\ ~ AllocateMore
       \/ Running("execute") /\ Schedulable = {}
       \/ Running("complete") /\ Completing = {}
       \/ (Running("cache") \/ Running("cycle_count")) /\ terminate_sim
    /\ Yield
    /\ UNCHANGED <<rpc, ret, op, queueVars, windowVars, renameVars, fetchVars,
                   nuke, alloc_blocked, terminate_sim, archVars>>
-----------------------------------------------------------------------------
(* retire()                                                                *)

(* A retiring store: done loads of the same eight bytes read too early,    *)
(* and every load in the table is replayed.  The store is the oldest       *)
(* operation, so no load in the table is older than it (alloc_cycle).      *)
\* mutant of Violated: the addresses are compared, not the eight bytes
ViolatedExact(x) ==
    {y \in load_tbl : SigOf(x).cls = "store" /\ op[y].done /\ op[y].ea = op[x].ea}
\* mutant of Violated: no check
ViolatedNone(x) == {}
Violated(x) ==
    {y \in load_tbl : /\ SigOf(x).cls = "store"
                      /\ op[y].done
                      /\ op[y].ea \div 8 = op[x].ea \div 8}

(* Where the retired program continues after x.                            *)
Advance(x) ==
    CASE op[x].slot                      -> [pc |-> Unsigned(op[x].pc + 4), pend |-> op[x].target]
      [] InsnOf(x).k = "break"           -> path
      [] InsnOf(x).k \in Branches \cup {"monitor"} /\ ~ op[x].slot ->
            [pc |-> op[x].target, pend |-> -1]
      [] OTHER -> [pc |-> IF path.pend = -1 THEN Unsigned(op[x].pc + 4) ELSE path.pend,
                   pend |-> -1]

(* The in-use vector without the previous registers of the destinations.   *)
\* mutant of Released: the second destination (aux_prev_prf_idx) is forgotten
ReleasedFirst(o) == IF o.prev = <<>> THEN freevec ELSE freevec \ {o.prev[1]}
Released(o) == freevec \ RangeSet(o.prev)

(* The load or store table without x.                                      *)
\* mutant of LeaveTbl: the entry stays
LeaveTblNot(tbl, x) == tbl
LeaveTbl(tbl, x) == tbl \ {x}

(* alloc_blocked after the retirement of o: sync and monitor release it, a *)
(* mispredicted jump sets it.                                              *)
\* mutant of BlocksAlloc: sync does not release it
BlocksAllocSync(i, o) == (i.k \in Jumps /\ o.exc) \/ (i.k # "monitor" /\ alloc_blocked)
BlocksAlloc(i, o) ==
    (i.k \in Jumps /\ o.exc) \/ (i.k \notin {"sync", "monitor"} /\ alloc_blocked)

(* retire() of the op class of the oldest operation, which leaves the rob. *)
RetireOp(x) ==
    LET i == InsnOf(x)
        s == SigOf(x)
        o == op[x]
    IN  /\ op' = [y \in Ids |-> IF y = x THEN Null
                                ELSE IF Violated(x) # {} /\ y \in load_tbl
                                THEN [op[y] EXCEPT !.lexc = TRUE] ELSE op[y]]
        /\ rob' = Tail(rob)
        /\ freevec' = Released(o)
        /\ freevec_retire' = (freevec_retire \cup RangeSet(o.new)) \ RangeSet(o.prev)
        /\ rat_retire' = [r \in Regs |-> IF \E j \in DOMAIN s.dst : s.dst[j] = r
                                         THEN o.new[CHOOSE j \in DOMAIN s.dst : s.dst[j] = r]
                                         ELSE rat_retire[r]]
        /\ IF i.k = "monitor"
           THEN /\ \E h \in IF HostAnswers(i, o.v) THEN HostResults ELSE {0} :
                        prf' = WritePrf(x, <<h>>)
                /\ valid' = valid \cup RangeSet(o.new)
           ELSE prf' = prf /\ valid' = valid \ RangeSet(o.prev)
        /\ mem' = CASE s.cls = "store"  -> StoreData(i, o.ea, mem, o.v)
                    [] i.k = "monitor"  -> MonitorMem(i, mem, o.v)
                    [] OTHER            -> mem
        /\ load_tbl' = LeaveTbl(load_tbl, x)
        /\ store_tbl' = LeaveTbl(store_tbl, x)
        /\ load_alias_map' = load_alias_map \cup {<<op[y].pc, o.pc>> : y \in Violated(x)}
        /\ branch_target_map' =
                IF s.cls = "jmp"
                THEN [a \in DOMAIN branch_target_map \cup {o.pc} |->
                        IF a # o.pc THEN branch_target_map[a]
                        ELSE IF i.k \in Branches THEN BranchTarget(i, a) ELSE o.target]
                ELSE branch_target_map
        /\ alloc_blocked' = BlocksAlloc(i, o)
        /\ fetch_blocked' = (i.k # "monitor" /\ fetch_blocked)
        /\ terminate_sim' = (terminate_sim \/ (i.k = "monitor" /\ MonitorStops(i, o.v)))
        /\ icnt' = icnt + 1
        /\ last_retire_pc' = o.pc
        /\ path' = Advance(x)
        /\ UNCHANGED <<turn, loc, fetch_queue, decode_queue, rs, inflight, rat,
                       fetch_pc, delay_slot_npc, return_stack, nuke>>

u == op[Head(rob)]
uu == op[rob[2]]

(* A step of retire() that changes nothing but its own position.           *)
RetireMoves ==
    UNCHANGED <<op, queueVars, windowVars, renameVars, fetchVars,
                nuke, terminate_sim, archVars>>

(* The inner loop: the oldest operation is complete.                       *)
RetireMore ==
    /\ rob # <<>>
    /\ ret.amt < RetireBw
    /\ icnt < MaxIcnt
    /\ ~ ret.stop
    /\ u.done
    /\ u.cc # 0

RetireIdle ==
    /\ Running("retire") /\ rpc = "loop" /\ ~ RetireMore
    /\ rpc' = "end"
    /\ Yield
    /\ UNCHANGED <<ret, alloc_blocked>> /\ RetireMoves

SlotDone == Len(rob) >= 2 /\ uu.done

(* An exception at the head: the handler first yields.                     *)
RetireException ==
    /\ Running("retire")
    /\ \/ rpc = "loop" /\ RetireMore /\ (u.exc \/ u.lexc)
       \/ /\ rpc = "slot" \/ (rpc = "loop" /\ RetireMore /\ ~ u.exc /\ ~ u.lexc /\ u.slot)
          /\ SlotDone
          /\ uu.lexc
    /\ rpc' = "exc"
    /\ Yield
    /\ UNCHANGED <<ret, alloc_blocked>> /\ RetireMoves

(* has_delay_slot: the branch waits until its delay slot is complete.      *)
RetireWaitSlot ==
    /\ Running("retire")
    /\ rpc = "slot" \/ (rpc = "loop" /\ RetireMore /\ ~ u.exc /\ ~ u.lexc /\ u.slot)
    /\ ~ SlotDone
    /\ rpc' = "slot"
    /\ Yield
    /\ UNCHANGED <<ret, alloc_blocked>> /\ RetireMoves

RetireOne ==
    /\ Running("retire")
    /\ rpc = "slot" \/ (rpc = "loop" /\ RetireMore /\ ~ u.exc /\ ~ u.lexc)
    /\ u.slot => SlotDone /\ ~ uu.lexc
    /\ rpc' = "loop"
    /\ ret' = [ret EXCEPT !.amt = @ + 1, !.stop = (InsnOf(Head(rob)).k = "break")]
    /\ RetireOp(Head(rob))

(* The exception handler.  A branch retires with its delay slot, which     *)
(* allocation may still have to deliver; a delay slot that has an          *)
(* exception of its own restarts the branch.                               *)
ExceptionBegin ==
    /\ Running("retire") /\ rpc = "exc" /\ ~ (u.exc /\ ~ u.slot)
    /\ rpc' = IF u.exc THEN "excslot" ELSE "nuke"
    /\ ret' = [ret EXCEPT !.amt = 0, !.restart = u.pc]
    /\ alloc_blocked' = (alloc_blocked /\ ~ u.exc)
    /\ UNCHANGED <<turn, loc>> /\ RetireMoves

ExceptionNoSlot ==
    /\ Running("retire") /\ rpc = "exc" /\ u.exc /\ ~ u.slot
    /\ rpc' = "nuke"
    /\ ret' = [ret EXCEPT !.amt = 0, !.restart = u.target]
    /\ RetireOp(Head(rob))

ExceptionWaitSlot ==
    /\ Running("retire") /\ rpc = "excslot"
    /\ ~ (SlotDone /\ uu.cc # 0)
    /\ Yield
    /\ UNCHANGED <<rpc, ret, alloc_blocked>> /\ RetireMoves

DelaySlotException ==
    /\ Running("retire") /\ rpc = "excslot"
    /\ SlotDone /\ uu.cc # 0
    /\ uu.exc \/ uu.lexc
    /\ rpc' = "nuke"
    /\ UNCHANGED <<turn, loc, ret, alloc_blocked>> /\ RetireMoves

ExceptionBranch ==
    /\ Running("retire") /\ rpc = "excslot"
    /\ SlotDone /\ uu.cc # 0
    /\ ~ uu.exc /\ ~ uu.lexc
    /\ rpc' = "excuu"
    /\ ret' = [ret EXCEPT !.restart = u.target]
    /\ RetireOp(Head(rob))

ExceptionSlot ==
    /\ Running("retire") /\ rpc = "excuu"
    /\ rpc' = "nuke"
    /\ UNCHANGED ret
    /\ RetireOp(Head(rob))

(* simCache::nuke_inflight().                                              *)
\* mutant of nuke_inflight: the accesses stay in flight
nuke_none == inflight
nuke_inflight == {}

\* mutant of ClearSlot: delay_slot_npc survives the recovery
ClearSlotNot == UNCHANGED delay_slot_npc
ClearSlot == delay_slot_npc' = 0

(* The end of the recovery: every structure of the window is cleared.      *)
ClearWindow ==
    /\ op' = [x \in Ids |-> Null]
    /\ fetch_queue' = <<>> /\ decode_queue' = <<>>
    /\ rs' = [c \in Classes |-> <<>>]
    /\ load_tbl' = {} /\ store_tbl' = {}
    /\ ClearSlot
    /\ alloc_blocked' = FALSE /\ fetch_blocked' = FALSE /\ nuke' = FALSE
    /\ rpc' = "end"

(* The recovery: the rob is dropped, the speculative tables are flash      *)
(* copied from the retired ones.  Without flash_restart it then takes a    *)
(* cycle for every RetireBw dropped operations, `nuke' holding the others. *)
Nuke ==
    /\ Running("retire") /\ rpc = "nuke"
    /\ fetch_pc' = ret.restart
    /\ inflight' = nuke_inflight
    /\ rob' = <<>>
    /\ rat' = rat_retire /\ freevec' = freevec_retire /\ valid' = RangeSet(rat_retire)
    /\ IF FlashRestart \/ rob = <<>>
       THEN ClearWindow /\ UNCHANGED ret
       ELSE /\ nuke' = TRUE
            /\ rpc' = "sleep"
            /\ ret' = [ret EXCEPT !.sleep = (Len(rob) + RetireBw - 1) \div RetireBw]
            /\ op' = [x \in Ids |-> IF x \in RangeSet(rob) THEN Null ELSE op[x]]
            /\ UNCHANGED <<fetch_queue, decode_queue, rs, load_tbl, store_tbl, delay_slot_npc,
                           alloc_blocked, fetch_blocked>>
    /\ Yield
    /\ UNCHANGED <<rat_retire, freevec_retire, prf, return_stack, terminate_sim, archVars>>

RecoverySleep ==
    /\ Running("retire") /\ rpc = "sleep"
    /\ ret' = [ret EXCEPT !.sleep = @ - 1]
    /\ IF ret.sleep = 1 THEN ClearWindow
       ELSE UNCHANGED <<rpc, op, fetch_queue, decode_queue, rs, load_tbl, store_tbl,
                        delay_slot_npc, alloc_blocked, fetch_blocked, nuke>>
    /\ Yield
    /\ UNCHANGED <<rob, inflight, renameVars, fetch_pc, return_stack, terminate_sim, archVars>>

(* The bottom of the outer loop, after its yield.                          *)
RetireEnd ==
    /\ Running("retire") /\ rpc = "end"
    /\ terminate_sim' = (terminate_sim \/ icnt >= MaxIcnt \/ ret.stop)
    /\ rpc' = IF terminate_sim' THEN "done" ELSE "loop"
    /\ ret' = NoRetire
    /\ UNCHANGED <<turn, loc, op, queueVars, windowVars, renameVars, fetchVars, nuke,
                   alloc_blocked, archVars>>

Terminated == rpc = "done" /\ UNCHANGED vars

retire ==
    \/ RetireIdle \/ RetireException \/ RetireWaitSlot \/ RetireOne
    \/ ExceptionBegin \/ ExceptionNoSlot \/ ExceptionWaitSlot \/ DelaySlotException
    \/ ExceptionBranch \/ ExceptionSlot \/ Nuke \/ RecoverySleep \/ RetireEnd

Next ==
    \/ retire \/ CompleteOne \/ ExecuteOne \/ AllocateOne \/ DecodeOne
    \/ FetchSlot \/ FetchInsn \/ CacheTick \/ NextCycle \/ ThreadYield
    \/ Terminated

(* The process is never stopped for good: until the simulation ends there  *)
(* is another step.  Next is enabled in every reachable state, so this is  *)
(* WF_vars(Next), in a form that needs no ENABLED.                         *)
Fairness == []<>(rpc = "done") \/ []<><<Next>>_vars

Spec == Init /\ [][Next]_vars /\ Fairness
-----------------------------------------------------------------------------
(* Properties                                                              *)

(* Every id in a queue is a live operation, and the sizes are respected.   *)
TypeOK ==
    /\ turn \in DOMAIN Threads
    /\ rpc \in {"loop", "slot", "exc", "excslot", "excuu", "nuke", "sleep", "end", "done"}
    /\ fetch_queue \in Seq(Live) /\ Len(fetch_queue) <= FetchqSize
    /\ decode_queue \in Seq(Live) /\ Len(decode_queue) <= DecodeqSize
    /\ rob \in Seq(Live) /\ Len(rob) <= RobSize
    /\ rat \in [Regs -> Pregs] /\ rat_retire \in [Regs -> Pregs]
    /\ freevec \subseteq Pregs /\ valid \subseteq Pregs
    /\ prf \in [Pregs -> Word]
    /\ icnt \in 0 .. MaxIcnt + 1

(* The core implements the functional simulator it is compared with: the   *)
(* retired registers, memory and program counters change as execMips()     *)
(* changes them, one instruction at a time, whatever was predicted,        *)
(* reordered, replayed or thrown away in between (the interp check of      *)
(* retire(), ooo_core.cc:351-409, for memory too).                         *)
Interp == INSTANCE Isa WITH
    pc <- path.pc, pend <- path.pend,
    regs <- [r \in Regs |-> prf[rat_retire[r]]],
    last <- last_retire_pc,
    brk <- icnt > 0 /\ LET i == InsnAt(last_retire_pc)
                           r == [x \in Regs |-> prf[rat_retire[x]]]
                       IN  i.k = "break" \/ (i.k = "monitor" /\ MonitorStops(i, r))
ImplementsIsa == Interp!Spec

(* The rename half of the core, in the terms of RegRename: an operation is *)
(* its pc (-1 for the empty memory around the program); loads and host     *)
(* calls produce any value, and so does a division by zero, which leaves   *)
(* what its new registers held.                                            *)
Pcs == DOMAIN Program \cup {-1}
OpOf(x) == IF op[x].pc \in Pcs THEN op[x].pc ELSE -1
DstOf(a) == RangeSet(decode_insn(InsnAt(a)).dst)
EvalOf(a, f) ==
    LET i == InsnAt(a)
        s == decode_insn(i)
        byZero == i.k \in {"div", "divu"} /\ f[GPR(i.rt)] = 0
        w == Value(i, a, f, [j \in DOMAIN s.dst |-> 0])
    IN  CASE s.at = "complete"             -> [DstOf(a) -> LoadVals]
          [] s.at = "retire"               -> [DstOf(a) -> HostResults \cup {0}]
          [] s.at = "execute" /\ byZero    -> [DstOf(a) -> Word]
          [] s.at = "execute" /\ ~ byZero  ->
                {[r \in DstOf(a) |-> w[CHOOSE j \in DOMAIN s.dst : s.dst[j] = r]]}
ByReg(x, s) == LET d == SigOf(x).dst IN [r \in RangeSet(d) |-> s[CHOOSE j \in DOMAIN d : d[j] = r]]
RenameEntry(x) ==
    [op |-> OpOf(x),
     st |-> CASE ~ op[x].issued                  -> "allocated"
              [] op[x].issued /\ ~ op[x].done    -> "executed"
              [] SigOf(x).cls = "load" /\ op[x].done /\ ~ RangeSet(op[x].new) \subseteq valid
                                                 -> "faulted"
              [] OTHER                           -> "complete",
     src |-> op[x].src, new |-> ByReg(x, op[x].new), prev |-> ByReg(x, op[x].prev)]
Rename == INSTANCE RegRename WITH
    Val <- Word, Ops <- Pcs,
    Src <- [a \in Pcs |-> decode_insn(InsnAt(a)).src],
    Dst <- [a \in Pcs |-> DstOf(a)],
    WriteAt <- [a \in Pcs |-> decode_insn(InsnAt(a)).at],
    Eval <- EvalOf, InitMap <- InitRat,
    arch <- [r \in Regs |-> prf[rat_retire[r]]],
    rob <- [j \in DOMAIN rob |-> RenameEntry(rob[j])]
RenameStep ==
    \/ Len(rob') > Len(rob) /\ Rename!Allocate(OpOf(rob'[Len(rob')]))
    \/ \E j \in DOMAIN rob :
        /\ rob' = rob /\ op'[rob[j]] # op[rob[j]]
        /\ Rename!Execute(j) \/ Rename!Complete(j) \/ Rename!CompleteFaulted(j)
    \/ Len(rob') < Len(rob) /\ (Rename!Retire \/ Rename!RetireMonitor)
    \/ rob' = <<>> /\ Rename!Nuke
ImplementsRename == Rename!Init /\ [][RenameStep]_(Rename!vars)

(* The renaming of the core is exact at every instant: the in-use vectors  *)
(* hold the retired and the in-flight registers and nothing else, and      *)
(* sources and destinations are those of program order.                    *)
RenameExact ==
    /\ Rename!FreevecExact
    /\ Rename!SequentialDataflow
    /\ Rename!ValidExact

(* Nothing points to an operation that was deleted: outside the recovery   *)
(* (nuke) the reservation stations, the tables and the cache hold          *)
(* operations of the rob only, so a load or store table entry read by      *)
(* stall_for_load() or a retiring store is live (mips_op.cc:47) and the    *)
(* in-flight queue of the cache never overflows (sim_cache.cc:645,665).    *)
NoDangling ==
    ~ nuke => /\ load_tbl \cup store_tbl \cup inflight \subseteq RangeSet(rob)
              /\ UNION {RangeSet(rs[c]) : c \in Classes} \subseteq RangeSet(rob)

(* complete() compares complete_cycle with the current cycle for equality: *)
(* an operation that was executed never misses its cycle.                  *)
NoMissedCompletion ==
    \A j \in DOMAIN rob :
        LET o == op[rob[j]]
        IN  o.issued /\ ~ o.done => o.cc >= 0 \/ (rob[j] \in inflight /\ o.aux >= 0)

(* The oldest operation is the one the program executes next, and the      *)
(* window holds the program as fetched: each operation follows its         *)
(* predecessor, or is the predicted target after a delay slot.  So the     *)
(* operation behind a branch is its delay slot, the one that retires with  *)
(* it.                                                                     *)
Stream ==
    LET s == rob \o decode_queue \o fetch_queue
        p(j) == op[s[j]].pc
    IN  ~ nuke /\ rpc \notin {"excuu", "nuke", "done"} /\ ~ ret.stop =>
        /\ s # <<>> => p(1) = path.pc
        /\ \A j \in 2 .. Len(s) :
            \/ p(j) = Unsigned(p(j - 1) + 4)
            \/ j = 2 /\ p(j) = path.pend
            \/ j > 2 /\ p(j - 1) = Unsigned(p(j - 2) + 4) /\ p(j) = op[s[j - 2]].npc
        /\ \A j \in 1 .. Len(s) - 1 : op[s[j]].slot => p(j + 1) = Unsigned(p(j) + 4)

(* A completed load that will not be replayed holds what memory holds once *)
(* every older store has retired: retiring stores catch each load that     *)
(* read too early.                                                         *)
LoadsFresh ==
    \A j \in DOMAIN rob :
        LET x == rob[j]
            o == op[x]
        IN  /\ SigOf(x).cls = "load" /\ o.done /\ ~ o.lexc
            /\ \A k \in 1 .. j - 1 : SigOf(rob[k]).cls # "store"
            => LoadData(InsnOf(x), o.ea, mem, o.v) = [n \in DOMAIN o.new |-> prf[o.new[n]]]

(* A stage is never blocked for good: whatever set alloc_blocked or        *)
(* fetch_blocked is still in the window and will clear it.                 *)
BlockedHasOwner ==
    ~ nuke /\ rpc \notin {"excuu", "nuke"} =>
        /\ alloc_blocked => \E x \in RangeSet(rob) :
              InsnOf(x).k \in {"sync", "monitor"} \/ (InsnOf(x).k \in Branches /\ op[x].exc)
        /\ fetch_blocked => \E x \in Live : InsnOf(x).k = "monitor"

(* Whatever is predicted and however often the window is thrown away, the  *)
(* simulation comes to an end (or runs into maxicnt).                      *)
Terminates == <>(rpc = "done")
=============================================================================
