----------------------------- MODULE MCOoOCore -----------------------------
(* Small programs in one address space, each with an entry point, on words *)
(* of four three-bit bytes.  $4 points to the data.                        *)
EXTENDS OoOCore, TLC, Bitwise

Asm(base, s) == [a \in {base + 4 * (j - 1) : j \in DOMAIN s} |-> s[(a - base) \div 4 + 1]]
R(k, rd, rs1, rt) == Insn(k, rs1, rt, rd, 0, 0)
I(k, rt, rs1, imm) == Insn(k, rs1, rt, 0, 0, imm)
J(k, target) == Insn(k, 0, 0, 0, 0, target)
S(k) == Insn(k, 0, 0, 0, 0, 0)

(* A loop whose load reads what the store before it writes.                *)
AliasLoop == Asm(8, <<
    I("addiu", 1, 0, 3),
    I("sw", 1, 4, 0),
    I("lw", 2, 4, 0),
    I("addiu", 1, 1, -1),
    I("bne", 0, 1, -4),
    R("addu", 3, 3, 2),
    S("break")>>)
(* A late store, and a load of the same word in the delay slot of a branch *)
(* that is mispredicted (64) or predicted (100).                           *)
AliasSlot == Asm(64, <<
    I("addiu", 1, 0, 3),
    R("mult", 0, 1, 1),
    R("mflo", 2, 0, 0),
    I("sw", 2, 4, 0),
    I("bne", 0, 1, 2),
    I("lw", 3, 4, 0),
    I("addiu", 3, 0, 1),
    R("addu", 5, 3, 3),
    S("break")>>)
AliasSlotLoop == Asm(100, <<
    I("addiu", 1, 0, 3),
    R("mult", 0, 1, 1),
    R("mflo", 2, 0, 0),
    I("sw", 2, 4, 0),
    I("addiu", 1, 1, -1),
    I("bne", 0, 1, -5),
    I("lw", 3, 4, 0),
    S("break")>>)
(* Calls nested deeper than the return stack.                              *)
Calls == Asm(140, <<
    J("jal", 160), I("lw", 2, 4, 0), S("break"), Nop, Nop,
    R("addu", 5, 31, 0), J("jal", 188), I("sw", 1, 4, 0), R("jr", 0, 5, 0), Nop, Nop, Nop,
    R("addu", 6, 31, 0), J("jal", 216), I("addiu", 1, 1, 1), R("jr", 0, 6, 0), Nop, Nop, Nop,
    R("jr", 0, 31, 0), I("sw", 31, 4, 4)>>)
(* A likely branch with a store in its delay slot, sync.                   *)
LikelyLoop == Asm(240, <<
    I("addiu", 1, 0, 4),
    I("addiu", 1, 1, -1),
    I("bnel", 0, 1, -2),
    I("sw", 1, 4, 0),
    S("sync"),
    I("lw", 2, 4, 0),
    S("break")>>)
(* A host call through a stub, and one that ends the simulation.           *)
HostCall == Asm(284, <<
    I("addiu", 1, 0, 3),
    I("lui", 5, 0, 5),
    R("mult", 0, 1, 1),
    R("jalr", 0, 5, 0),
    R("mflo", 3, 0, 0),
    I("sw", 2, 4, 0),
    J("j", 324),
    I("lw", 3, 4, 0),
    Nop,
    J("monitor", 8),
    J("monitor", 60)>>)
(* A late branch over a wrong path that would block, call and store.       *)
WrongPath == Asm(340, <<
    I("addiu", 1, 0, 1),
    R("mult", 0, 1, 1),
    R("mflo", 2, 0, 0),
    I("bne", 0, 2, 4),
    I("addiu", 3, 3, 1),
    S("sync"),
    J("monitor", 8),
    I("sw", 1, 4, 0),
    S("break")>>)
(* Floating point: a late store of a double, a load of its second word, a  *)
(* compare and a branch on it.                                             *)
Double == Asm(400, <<
    I("ldc1", 0, 4, 0),
    Insn("add.d", 0, 0, 0, 2, 0),
    I("sdc1", 2, 4, 0),
    I("lwc1", 0, 4, 4),
    Insn("c.eq.d", 0, 0, 2, 0, 0),
    Insn("bc1t", 0, 0, 0, 0, 2),
    I("lwc1", 1, 4, 0),
    S("break")>>)
(* A loop that only maxicnt ends.                                          *)
Forever == Asm(440, <<J("j", 440), I("addiu", 1, 1, 1)>>)

MCProgram == AliasLoop @@ AliasSlot @@ AliasSlotLoop @@ Calls @@ LikelyLoop @@ HostCall
             @@ WrongPath @@ Double @@ Forever
MCStartPcs == {8, 64, 100, 140, 240, 284, 340, 400, 440}
RenameProgram == AliasSlot @@ HostCall @@ Double
RenameStartPcs == {64, 284, 400}
MCRegs == {GPR(n) : n \in {0, 1, 2, 3, 4, 5, 6, 31, 32, 33}}
          \cup {CPR1(n) : n \in 0 .. 3} \cup {CR25}
MCInitRegs == [r \in MCRegs |-> IF r = GPR(4) THEN 1024 ELSE 0]
MCInitMem == (1024 :> 5) @@ (1028 :> 7)
MCNumPrf == [gpr |-> 13, cpr1 |-> 7, fcr1 |-> 2]
MorePrf == [gpr |-> 20, cpr1 |-> 12, fcr1 |-> 4]
MCSched == [c \in Classes |-> IF c = "system" THEN 1 ELSE 2]
MCFpArith(k, v) ==
    CASE k = "add.d"  -> <<Unsigned(v[1] + v[3]), Unsigned(v[2] + v[4])>>
      [] k = "c.eq.d" -> <<Bool(v[1] = v[3] /\ v[2] = v[4])>>
MCHostResults == {1, 2}
MCLoadLats == {1, 2, 5}
OneLat == {3}
MCLoadVals == {1, 2, 5, 7, 9, 10, 14}
MCBand(x, y) == x & y
MCBor(x, y) == x | y
MCBxor(x, y) == x ^^ y
=============================================================================
