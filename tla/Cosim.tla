------------------------------- MODULE Cosim -------------------------------
(***************************************************************************)
(* The core and the interpreter execute the same instructions side by      *)
(* side, as with use_interp_check: the architectural registers and memory  *)
(* of the core next to the ones of ref_state.  What the core computes is   *)
(* Value, LoadValue, StoreValue and TakeBr (the op classes of mips_op.cc), *)
(* what the interpreter computes is InterpOps.  A run exercises one unit,  *)
(* so that the state of the others stays small: loads and stores, integer  *)
(* arithmetic, or condition codes with the branches and moves that test    *)
(* them.                                                                   *)
(***************************************************************************)
EXTENDS InterpOps, SparseMem

CONSTANTS
    Loads, Stores, Offsets,    \* the loads and stores and the ea & 3 in use
    Insns                      \* unit -> the other instructions in use

VARIABLES
    unit,                      \* the unit this run exercises
    regs, mem, pc,             \* the core
    iregs, imem, ipc           \* ref_state

vars == <<unit, regs, mem, pc, iregs, imem, ipc>>

Units == {"memory"} \cup DOMAIN Insns
Regs == {GPR(1), GPR(2), LO, HI, CPR1(0), CPR1(1), CR25}
R1 == GPR(1)

(* The registers a unit uses and the values they start with.               *)
Used(n) ==
    CASE n = "memory"    -> {R1}
      [] n = "integer"   -> {R1, GPR(2)}
      [] n = "condition" -> {R1, CPR1(0), CPR1(1), CR25}
StartValues(n) == IF n = "condition" THEN {0, 1, WordSize \div 2, WordSize - 1} ELSE Word

Aligned(k, ma) ==
    CASE k \in {"lh", "lhu", "sh"} -> ma % 2 = 0
      [] k \in {"lw", "sw"}        -> ma = 0
      [] OTHER                     -> TRUE

Init ==
    /\ unit \in Units
    /\ \E w \in [Used(unit) -> StartValues(unit)] : regs = w @@ [x \in Regs |-> 0]
    /\ mem \in Memories(IF unit = "memory" THEN Word ELSE {0})
    /\ unit # "memory" => mem.present = {}
    /\ pc = 0
    /\ iregs = regs
    /\ imem = mem
    /\ ipc = 0

Load(k, ma, a) ==
    /\ unit = "memory"
    /\ Aligned(k, ma)
    /\ regs' = [regs EXCEPT ![R1] = LoadValue(k, ma, mem.mem[a], @)]
    /\ iregs' = [iregs EXCEPT ![R1] = InterpLoad(k, ma, imem.mem[a], @)]
    /\ mem' = Touched(mem, a)
    /\ imem' = Touched(imem, a)
    /\ UNCHANGED <<unit, pc, ipc>>

Store(k, ma, a) ==
    /\ unit = "memory"
    /\ Aligned(k, ma)
    /\ mem' = set(mem, a, StoreValue(k, ma, mem.mem[a], regs[R1]))
    /\ \E w \in InterpStore(k, ma, imem.mem[a], iregs[R1]) : imem' = set(imem, a, w)
    /\ UNCHANGED <<unit, regs, pc, iregs, ipc>>

(* A load of the core that is thrown away: the memory it read from is not. *)
WrongPathLoad(a) ==
    /\ unit = "memory"
    /\ mem' = Touched(mem, a)
    /\ UNCHANGED <<unit, regs, pc, iregs, imem, ipc>>

(* The encodings on which the two differ: a division by zero, which leaves *)
(* what a recycled physical register held, and $0 as a destination, which  *)
(* only the interpreter writes (the immediate ones end the core); and one  *)
(* whose result the host traps.                                            *)
Excluded(i) ==
    \/ i.k \in RType \cup ConstShift /\ i.rd = 0
    \/ i.k \in IType \cup {"lui"} /\ i.rt = 0
    \/ i.k \in {"div", "divu"} /\ regs[GPR(i.rt)] = 0
    \/ i.k = "div" /\ Signed(regs[GPR(i.rt)]) = -1 /\ regs[GPR(i.rs)] = WordSize \div 2

Arith(i) ==
    /\ i.k \notin Branches
    /\ ~ Excluded(i)
    /\ LET d == decode_insn(i).dst
           w == Value(i, pc, regs, [j \in DOMAIN d |-> 0])
       IN  regs' = [x \in {d[j] : j \in DOMAIN d} |-> w[CHOOSE j \in DOMAIN d : d[j] = x]] @@ regs
    /\ iregs' = InterpWrites(i, iregs) @@ iregs
    /\ UNCHANGED <<unit, mem, pc, imem, ipc>>

(* The address after the branch at 0 and its delay slot.                   *)
Branch(i) ==
    /\ i.k \in Branches
    /\ pc' = IF TakeBr(i, regs) THEN BranchTarget(i, 0) ELSE 8
    /\ ipc' = IF takeBranch(i, iregs) THEN BranchTarget(i, 0) ELSE 8
    /\ UNCHANGED <<unit, regs, mem, iregs, imem>>

Next ==
    \/ \E ma \in Offsets, a \in Pages :
        \/ \E k \in Loads : Load(k, ma, a)
        \/ \E k \in Stores : Store(k, ma, a)
    \/ \E a \in Pages : WrongPathLoad(a)
    \/ unit \in DOMAIN Insns /\ \E i \in Insns[unit] : Arith(i) \/ Branch(i)

Spec == Init /\ [][Next]_vars
-----------------------------------------------------------------------------
(* Properties                                                              *)

(* The comparison of retire() (ooo_core.cc:351-405): whatever sequence of  *)
(* instructions ran, with every operand, the core and the interpreter hold *)
(* the same registers and go on at the same address, so that no            *)
(* instruction is reported as a "bad insn".                                *)
InterpCheck == regs = iregs /\ pc = ipc

(* The memories compare equal (sparse_mem::equal(), ooo_core.cc:389),      *)
(* although the wrong path of the core allocates pages that ref_state does *)
(* not have.                                                               *)
MemCheck == equal(mem, imem)

(* lwl at a followed by lwr at a + 3 (load_op::complete(), with the first  *)
(* result passed on as prev_value) loads the four bytes at a, for every    *)
(* alignment of a and whatever the register held before.                   *)
UnalignedLoad ==
    \A a \in 0 .. 3 :
        LET hi == mem.mem[0]
            lo == IF a = 0 THEN mem.mem[0] ELSE mem.mem[1]
            v  == LoadValue("lwr", (a + 3) % 4, lo, LoadValue("lwl", a, hi, regs[R1]))
        IN  \A i \in 0 .. 3 :
                Byte(v, i) = IF i + a <= 3 THEN Byte(hi, i + a) ELSE Byte(lo, i + a - 4)
=============================================================================
