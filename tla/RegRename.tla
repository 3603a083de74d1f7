----------------------------- MODULE RegRename -----------------------------
(***************************************************************************)
(* Register renaming of the out-of-order core: the speculative and the     *)
(* retired register alias tables, the in-use vectors (`freevec': a set bit *)
(* means the physical register is taken), the valid bits, the physical     *)
(* register file and the reorder buffer as far as renaming is concerned.   *)
(*                                                                         *)
(* Every mips_op class of mips_op.cc follows one protocol, its allocate(), *)
(* execute(), complete() and retire() methods; the classes differ in the   *)
(* registers they read and write (Src, Dst) and in the method that writes  *)
(* the physical register (WriteAt): execute for arithmetic, complete for   *)
(* loads, retire for the monitor call.  The four register files of         *)
(* sim_state (gpr, cpr0, cpr1, fcr1) obey the same rules, so they are one  *)
(* file here; find_first_unset() is "some unset bit".                      *)
(***************************************************************************)
EXTENDS Integers, Sequences, FiniteSets

CONSTANTS
    Regs,          \* architectural registers of a file (num_gpr_regs, ...)
    Pregs,         \* physical registers (num_gpr_prf_, ...)
    Val,           \* register values
    Ops,           \* decoded operations
    Src, Dst,      \* [Ops -> SUBSET Regs]: registers read, registers written
    WriteAt,       \* [Ops -> {"execute", "complete", "retire"}]
    Eval(_, _),    \* Eval(op, srcvals): the set of results an op may produce
    InitMap,       \* the identity mapping of initialize_rat_mappings()
    RobSize        \* sim_param::rob_size

ASSUME SigAssumption ==
    /\ Src \in [Ops -> SUBSET Regs]
    /\ Dst \in [Ops -> SUBSET Regs]
    /\ WriteAt \in [Ops -> {"execute", "complete", "retire"}]
    /\ RobSize \in Nat \ {0}

ASSUME EvalAssumption ==
    \A op \in Ops : \A f \in [Src[op] -> Val] :
        Eval(op, f) \subseteq [Dst[op] -> Val]

ASSUME InitMapAssumption ==
    /\ InitMap \in [Regs -> Pregs]
    /\ \A r, s \in Regs : InitMap[r] = InitMap[s] => r = s

ASSUME FiniteAssumption == IsFiniteSet(Regs)

VARIABLES
    rat,             \* gpr_rat
    rat_retire,      \* gpr_rat_retire
    freevec,         \* gpr_freevec: physical registers in use
    freevec_retire,  \* gpr_freevec_retire
    valid,           \* gpr_valid: physical registers holding their value
    prf,             \* gpr_prf
    arch,            \* arch_grf
    rob              \* in-flight operations, oldest first

vars == <<rat, rat_retire, freevec, freevec_retire, valid, prf, arch, rob>>

States == {"allocated", "executed", "complete", "faulted"}

(* mips_meta_op: the operation, the physical registers of its sources, the *)
(* new and the previous physical register of each destination.             *)
Entry ==
    UNION {[op : {o}, st : States, src : [Src[o] -> Pregs],
            new : [Dst[o] -> Pregs], prev : [Dst[o] -> Pregs]] : o \in Ops}

RangeOf(f) == {f[x] : x \in DOMAIN f}

SrcVals(e) == [r \in Src[e.op] |-> prf[e.src[r]]]

(* The register file after result res is written to e's destinations.      *)
\* mutant of Write: prev_prf_idx is written instead of prf_idx
WritePrev(e, res) ==
    [p \in Pregs |-> IF \E r \in Dst[e.op] : e.prev[r] = p
                     THEN res[CHOOSE r \in Dst[e.op] : e.prev[r] = p]
                     ELSE prf[p]]
Write(e, res) ==
    [p \in Pregs |-> IF \E r \in Dst[e.op] : e.new[r] = p
                     THEN res[CHOOSE r \in Dst[e.op] : e.new[r] = p]
                     ELSE prf[p]]

Init ==
    /\ rat = InitMap
    /\ rat_retire = InitMap
    /\ freevec = RangeOf(InitMap)
    /\ freevec_retire = RangeOf(InitMap)
    /\ valid = RangeOf(InitMap)
    /\ prf \in [Pregs -> Val]
    /\ arch = [r \in Regs |-> prf[InitMap[r]]]
    /\ rob = <<>>

(* rob.full()                                                              *)
\* mutant of RobFull: off by one
RobOverfull == Len(rob) > RobSize
RobFull == Len(rob) >= RobSize

(* The operation as allocate() leaves it: sources and previous             *)
(* destinations are read from the RAT before the new mapping is installed. *)
\* mutant of NewEntry: a source that is also a destination reads the new mapping
NewEntryLate(op, new) ==
    [op |-> op, st |-> "allocated",
     src  |-> [r \in Src[op] |-> IF r \in Dst[op] THEN new[r] ELSE rat[r]],
     new  |-> new,
     prev |-> [r \in Dst[op] |-> rat[r]]]
NewEntry(op, new) ==
    [op |-> op, st |-> "allocated",
     src  |-> [r \in Src[op] |-> rat[r]],
     new  |-> new,
     prev |-> [r \in Dst[op] |-> rat[r]]]

(* op->allocate(): no free register, no allocation.                        *)
Allocate(op) ==
    /\ ~ RobFull
    /\ \E new \in [Dst[op] -> Pregs \ freevec] :
        /\ \A r, s \in Dst[op] : new[r] = new[s] => r = s
        /\ rob' = Append(rob, NewEntry(op, new))
        /\ rat' = [r \in Regs |-> IF r \in Dst[op] THEN new[r] ELSE rat[r]]
        /\ freevec' = freevec \cup RangeOf(new)
        /\ valid' = valid \ RangeOf(new)
    /\ UNCHANGED <<rat_retire, freevec_retire, prf, arch>>

(* op->ready()                                                             *)
\* mutant of Ready: a source that is not valid yet is read
ReadyAlways(i) == TRUE
Ready(i) == \A r \in Src[rob[i].op] : rob[i].src[r] \in valid

(* op->execute(): out of order, once all sources are valid.                *)
Execute(i) ==
    /\ rob[i].st = "allocated"
    /\ Ready(i)
    /\ rob' = [rob EXCEPT ![i].st = "executed"]
    /\ IF WriteAt[rob[i].op] = "execute"
       THEN \E res \in Eval(rob[i].op, SrcVals(rob[i])) : prf' = Write(rob[i], res)
       ELSE UNCHANGED prf
    /\ UNCHANGED <<rat, rat_retire, freevec, freevec_retire, valid, arch>>

(* op->complete() at complete_cycle: the destinations become visible; a    *)
(* monitor call leaves its destination invalid until it retires.           *)
Complete(i) ==
    /\ rob[i].st = "executed"
    /\ rob' = [rob EXCEPT ![i].st = "complete"]
    /\ IF WriteAt[rob[i].op] = "complete"
       THEN \E res \in Eval(rob[i].op, SrcVals(rob[i])) : prf' = Write(rob[i], res)
       ELSE UNCHANGED prf
    /\ valid' = IF WriteAt[rob[i].op] = "retire"
                THEN valid ELSE valid \cup RangeOf(rob[i].new)
    /\ UNCHANGED <<rat, rat_retire, freevec, freevec_retire, arch>>

(* load_op::complete() with load_exception set: complete, nothing written, *)
(* nothing made valid.                                                     *)
CompleteFaulted(i) ==
    /\ rob[i].st = "executed"
    /\ WriteAt[rob[i].op] = "complete"
    /\ rob' = [rob EXCEPT ![i].st = "faulted"]
    /\ UNCHANGED <<rat, rat_retire, freevec, freevec_retire, valid, prf, arch>>

(* A completed load that a retiring store marks with load_exception.       *)
MarkFaulted(i) ==
    /\ rob[i].st = "complete"
    /\ WriteAt[rob[i].op] = "complete"
    /\ rob' = [rob EXCEPT ![i].st = "faulted"]
    /\ UNCHANGED <<rat, rat_retire, freevec, freevec_retire, valid, prf, arch>>

(* The in-use vectors after e retires.                                     *)
\* mutant of Released: the new registers are freed, not the previous ones
ReleasedNew(e) == freevec \ RangeOf(e.new)
Released(e) == freevec \ RangeOf(e.prev)
\* mutant of Committed: the previous registers stay marked
CommittedKeep(e) == freevec_retire \cup RangeOf(e.new)
Committed(e) == (freevec_retire \cup RangeOf(e.new)) \ RangeOf(e.prev)

(* The tables after the oldest operation e retires with register file pf:  *)
(* its previous physical registers are freed in both vectors and its new   *)
(* ones are committed.                                                     *)
RetireTables(e, pf) ==
    /\ prf' = pf
    /\ freevec' = Released(e)
    /\ freevec_retire' = Committed(e)
    /\ rat_retire' = [r \in Regs |-> IF r \in Dst[e.op] THEN e.new[r] ELSE rat_retire[r]]
    /\ arch' = [r \in Regs |-> IF r \in Dst[e.op] THEN pf[e.new[r]] ELSE arch[r]]
    /\ rob' = Tail(rob)
    /\ UNCHANGED rat

(* op->retire() of the oldest operation.                                   *)
Retire ==
    /\ rob # <<>>
    /\ Head(rob).st = "complete"
    /\ WriteAt[Head(rob).op] # "retire"
    /\ RetireTables(Head(rob), prf)
    /\ valid' = valid \ RangeOf(Head(rob).prev)

(* monitor_op::retire(): the result is produced here, and the freed        *)
(* register keeps its valid bit.                                           *)
RetireMonitor ==
    /\ rob # <<>>
    /\ Head(rob).st = "complete"
    /\ WriteAt[Head(rob).op] = "retire"
    /\ \E res \in Eval(Head(rob).op, SrcVals(Head(rob))) :
            RetireTables(Head(rob), Write(Head(rob), res))
    /\ valid' = valid \cup RangeOf(Head(rob).new)

(* The recovery of retire(): every in-flight operation is dropped and the  *)
(* speculative tables are overwritten by the retired ones.                 *)
\* mutant of Nuke: freevec is not restored
NukeLeaky ==
    /\ rob' = <<>>
    /\ rat' = rat_retire
    /\ valid' = RangeOf(rat_retire)
    /\ UNCHANGED <<rat_retire, freevec, freevec_retire, prf, arch>>
Nuke ==
    /\ rob' = <<>>
    /\ rat' = rat_retire
    /\ freevec' = freevec_retire
    /\ valid' = RangeOf(rat_retire)
    /\ UNCHANGED <<rat_retire, freevec_retire, prf, arch>>

Next ==
    \/ \E op \in Ops : Allocate(op)
    \/ \E i \in DOMAIN rob :
        Execute(i) \/ Complete(i) \/ CompleteFaulted(i) \/ MarkFaulted(i)
    \/ Retire
    \/ RetireMonitor
    \/ Nuke

Spec == Init /\ [][Next]_vars
-----------------------------------------------------------------------------
(* Properties                                                              *)

(* The tables map registers to physical registers, and the rob never holds *)
(* more than rob_size operations.                                          *)
TypeOK ==
    /\ rat \in [Regs -> Pregs]
    /\ rat_retire \in [Regs -> Pregs]
    /\ freevec \subseteq Pregs
    /\ freevec_retire \subseteq Pregs
    /\ valid \subseteq Pregs
    /\ prf \in [Pregs -> Val]
    /\ arch \in [Regs -> Val]
    /\ rob \in Seq(Entry)
    /\ Len(rob) <= RobSize

(* The operation at position i renames r.                                  *)
Writes(i, r) == r \in Dst[rob[i].op]

(* p is the physical register that holds r for an operation at position j: *)
(* the one of the youngest older in-flight writer of r, or the retired one.*)
MapsTo(r, j, p) ==
    \/ /\ p = rat_retire[r]
       /\ \A k \in 1 .. j - 1 : ~ Writes(k, r)
    \/ \E i \in 1 .. j - 1 :
        /\ Writes(i, r)
        /\ p = rob[i].new[r]
        /\ \A k \in i + 1 .. j - 1 : ~ Writes(k, r)

(* Renaming preserves program order: whatever the order of execution, an   *)
(* operation reads the register written by the youngest older writer, and  *)
(* the register it will free at retirement is that writer's too (allocate  *)
(* reads src*_prf and prev_prf_idx from the RAT before it installs         *)
(* prf_idx).                                                               *)
SequentialDataflow ==
    \A j \in DOMAIN rob :
        /\ \A r \in Src[rob[j].op] : MapsTo(r, j, rob[j].src[r])
        /\ \A r \in Dst[rob[j].op] : MapsTo(r, j, rob[j].prev[r])

(* The speculative RAT is the retired one with every in-flight renaming    *)
(* applied.                                                                *)
RatCurrent == \A r \in Regs : MapsTo(r, Len(rob) + 1, rat[r])

(* No physical register has two owners.                                    *)
Distinct ==
    /\ \A i, j \in DOMAIN rob : \A r \in Dst[rob[i].op], s \in Dst[rob[j].op] :
        rob[i].new[r] = rob[j].new[s] => i = j /\ r = s
    /\ \A i \in DOMAIN rob : \A r \in Dst[rob[i].op], s \in Regs :
        rob[i].new[r] # rat_retire[s]
    /\ \A r, s \in Regs : rat_retire[r] = rat_retire[s] => r = s

InFlight == UNION {RangeOf(rob[i].new) : i \in DOMAIN rob}

(* No physical register leaks or is handed out twice: the in-use vector is *)
(* exactly the retired registers and the in-flight destinations, however   *)
(* allocation, retirement and recovery interleave.                         *)
FreevecExact ==
    /\ freevec = RangeOf(rat_retire) \cup InFlight
    /\ freevec_retire = RangeOf(rat_retire)

(* The assertions of the recovery code (ooo_core.cc:586-587): as many      *)
(* physical registers are in use after a nuke as there are architectural   *)
(* ones, whenever the nuke comes.                                          *)
RetiredPopcount == Cardinality(freevec_retire) = Cardinality(Regs)

(* A source register is never back on the free list while the operation    *)
(* that reads it is in flight, so no later allocation can overwrite it     *)
(* (retire() clears the freevec bit of prev_prf_idx, not of its sources).  *)
SourcesHeld ==
    \A j \in DOMAIN rob : RangeOf(rob[j].src) \subseteq freevec

(* Valid bits: retired registers always hold their value, an executed      *)
(* operation's sources stay valid, an unwritten destination never is, a    *)
(* completed one always is.                                                *)
ValidExact ==
    /\ RangeOf(rat_retire) \subseteq valid
    /\ \A j \in DOMAIN rob :
        /\ rob[j].st # "allocated" => RangeOf(rob[j].src) \subseteq valid
        /\ (rob[j].st \in {"allocated", "executed"} \/ WriteAt[rob[j].op] = "retire")
                => RangeOf(rob[j].new) \cap valid = {}
        /\ (rob[j].st = "complete" /\ WriteAt[rob[j].op] # "retire")
                => RangeOf(rob[j].new) \subseteq valid

(* The result of an operation that has written its destinations is one it  *)
(* may produce from the values its source registers hold.                  *)
ResultsHeld ==
    \A j \in DOMAIN rob :
        \/ rob[j].st = "executed" /\ WriteAt[rob[j].op] = "execute"
        \/ rob[j].st = "complete" /\ WriteAt[rob[j].op] # "retire"
        => [r \in Dst[rob[j].op] |-> prf[rob[j].new[r]]]
                \in Eval(rob[j].op, SrcVals(rob[j]))

(* The architectural registers are what the retired mapping selects from   *)
(* the physical file: a nuke at any instant resumes from a precise state.  *)
ArchPrecise == \A r \in Regs : arch[r] = prf[rat_retire[r]]

(* The inductive invariant.                                                *)
IInv ==
    /\ TypeOK
    /\ SequentialDataflow
    /\ RatCurrent
    /\ Distinct
    /\ FreevecExact
    /\ ValidExact
    /\ ResultsHeld
    /\ ArchPrecise

(* Out-of-order execution over renamed registers implements in-order       *)
(* execution of the retired operations.                                    *)
Order == INSTANCE InOrder
InOrderSpec == Order!Spec
=============================================================================
