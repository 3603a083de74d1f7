-------------------------------- MODULE Isa --------------------------------
(***************************************************************************)
(* The functional simulator (execMips() of interpret.cc), the reference    *)
(* the core is compared with: one instruction after the other, in program  *)
(* order.  execMips() runs a branch and its delay slot in one call; here   *)
(* they are two steps, `pend' holding where execution continues after the  *)
(* slot.                                                                   *)
(***************************************************************************)
EXTENDS InterpOps

CONSTANTS
    Program,         \* the text: [addresses -> instructions]
    StartPcs,        \* entry points
    InitRegs,        \* [registers -> Word]
    InitMem,         \* [addresses -> Word]
    HostResults      \* what a host call may return

VARIABLES
    pc, pend,        \* state_t::pc; where to go after a delay slot, or -1
    regs, mem,       \* gpr, lo, hi, cpr0, cpr1, fcr1; memory
    last,            \* pc of the last instruction
    icnt, brk        \* state_t::icnt, state_t::brk

vars == <<pc, pend, regs, mem, last, icnt, brk>>

Nop == Insn("sll", 0, 0, 0, 0, 0)
InsnAt(a) == IF a \in DOMAIN Program THEN Program[a] ELSE Nop

Init ==
    /\ pc \in StartPcs
    /\ pend = -1
    /\ regs = InitRegs
    /\ mem = InitMem
    /\ last = 0
    /\ icnt = 0
    /\ brk = FALSE

(* The next instruction when the current one is no jump.                   *)
Advance ==
    /\ pc' = IF pend = -1 THEN Unsigned(pc + 4) ELSE pend
    /\ pend' = -1

Arith(i) ==
    /\ decode_insn(i).cls \in {"alu", "fp", "system"}
    /\ i.k \notin {"monitor", "break"}
    /\ regs' = InterpWrites(i, regs) @@ regs
    /\ Advance
    /\ UNCHANGED <<mem, brk>>

ea(i) == Unsigned(regs[GPR(i.rs)] + i.imm)

Load(i) ==
    /\ decode_insn(i).cls = "load"
    /\ regs' = InterpLoads(i, ea(i), mem, regs) @@ regs
    /\ Advance
    /\ UNCHANGED <<mem, brk>>

Store(i) ==
    /\ decode_insn(i).cls = "store"
    /\ mem' \in InterpStores(i, ea(i), mem, regs)
    /\ Advance
    /\ UNCHANGED <<regs, brk>>

(* branch<>(): a likely branch that is not taken skips its delay slot.     *)
Branch(i) ==
    /\ i.k \in Branches
    /\ IF takeBranch(i, regs)
       THEN pc' = Unsigned(pc + 4) /\ pend' = BranchTarget(i, pc)
       ELSE IF i.k \in Likely
            THEN pc' = Unsigned(pc + 8) /\ pend' = -1
            ELSE pc' = Unsigned(pc + 4) /\ pend' = Unsigned(pc + 8)
    /\ UNCHANGED <<regs, mem, brk>>

Jump(i) ==
    /\ i.k \in Jumps
    /\ pc' = Unsigned(pc + 4)
    /\ pend' = IF i.k \in {"jr", "jalr"} THEN regs[GPR(i.rs)] ELSE i.imm
    /\ regs' = IF i.k \in {"jal", "jalr"} THEN [regs EXCEPT ![GPR(31)] = Unsigned(pc + 8)]
               ELSE regs
    /\ UNCHANGED <<mem, brk>>

(* _monitorBody(): returns to $31 with the result in $2, also zero where   *)
(* the core ends the run.  The interpreter exits on 52 and 53; 34, which   *)
(* writes the times of the host, is left out.                              *)
Monitor(i) ==
    /\ i.k = "monitor" /\ i.imm \notin {34, 52, 53}
    /\ \E r \in {0} \cup (IF i.imm \in HostCalls THEN HostResults ELSE {}) :
            regs' = [regs EXCEPT ![GPR(2)] = r]
    /\ mem' = MonitorMem(i, mem, regs)
    /\ pc' = IF pend = -1 THEN regs[GPR(31)] ELSE pend
    /\ pend' = -1
    /\ brk' = MonitorStops(i, regs)

Break(i) ==
    /\ i.k = "break"
    /\ brk' = TRUE
    /\ UNCHANGED <<pc, pend, regs, mem>>

execMips ==
    /\ ~ brk
    /\ last' = pc
    /\ icnt' = icnt + 1
    /\ LET i == InsnAt(pc)
       IN  Arith(i) \/ Load(i) \/ Store(i) \/ Branch(i) \/ Jump(i) \/ Monitor(i) \/ Break(i)

Spec == Init /\ [][execMips]_vars
=============================================================================
