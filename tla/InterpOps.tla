----------------------------- MODULE InterpOps -----------------------------
(***************************************************************************)
(* What the interpreter writes for one instruction, translated from        *)
(* interpret.cc and not from the classes of the core: execMips(), the      *)
(* SPECIAL2 and SPECIAL3 instructions, and the coprocessor 1 handlers.     *)
(* Registers are named as in MipsOps; r is the register file (gpr, hi, lo, *)
(* cpr0, cpr1, fcr1 of state_t), and an operator returns the function of   *)
(* the registers that change.  Unlike the core, the interpreter writes     *)
(* gpr[0] when an instruction names it, and a division by zero writes      *)
(* nothing.                                                                *)
(***************************************************************************)
EXTENDS MipsOps, TLC

Nothing == [x \in {} |-> 0]
LoHiPair(y) == LO :> Unsigned(y) @@ HI :> Unsigned(y \div WordSize)

(* The division of C, which truncates.                                     *)
Abs(a) == IF a < 0 THEN -a ELSE a
Quotient(a, b) ==
    IF (a < 0) # (b < 0) THEN -(Abs(a) \div Abs(b)) ELSE Abs(a) \div Abs(b)

(* A word shifted left, right, and right with its sign.                    *)
Shl(x, n) == Unsigned(x * 2 ^ n)
Shr(x, n) == x \div 2 ^ n
Sar(x, n) == Unsigned(Signed(x) \div 2 ^ n)
Complement(x) == WordSize - 1 - x

getConditionCode(r, cc) == Shr(Band(r[CR25], 2 ^ cc), cc)
\* mutant of setConditionCode: the other bits are lost
setConditionCodeOnly(r, v, cc) == CR25 :> Band(2 ^ cc, Unsigned(-v))
setConditionCode(r, v, cc) ==
    CR25 :> Bor(Band(r[CR25], Complement(2 ^ cc)), Band(2 ^ cc, Unsigned(-v)))

_movci(i, r) ==
    IF getConditionCode(r, i.rt) = Bool(i.k = "movt") THEN GPR(i.rd) :> r[GPR(i.rs)] ELSE Nothing

(* Opcode 0: the results in rd, then the ones in hi and lo.                *)
Special(i, r) ==
    LET s == r[GPR(i.rs)]
        t == r[GPR(i.rt)]
        n == s % WordBits
        rd(v) == GPR(i.rd) :> v
    IN  CASE i.k = "sll"   -> rd(Shl(t, i.sa))
          [] i.k = "srl"   -> rd(Shr(t, i.sa))
          [] i.k = "sra"   -> rd(Sar(t, i.sa))
          [] i.k = "sllv"  -> rd(Shl(t, n))
          [] i.k = "srlv"  -> rd(Shr(t, n))
          [] i.k = "srav"  -> rd(Sar(t, n))
          [] i.k = "addu"  -> rd(Unsigned(s + t))
          [] i.k = "subu"  -> rd(Unsigned(s - t))
          [] i.k = "and"   -> rd(Band(s, t))
          [] i.k = "or"    -> rd(Bor(s, t))
          [] i.k = "xor"   -> rd(Bxor(s, t))
          [] i.k = "nor"   -> rd(Complement(Bor(s, t)))
          [] i.k = "slt"   -> rd(Bool(Signed(s) < Signed(t)))
          [] i.k = "sltu"  -> rd(Bool(s < t))
          [] i.k = "movn"  -> IF t # 0 THEN rd(s) ELSE Nothing
          [] i.k = "movz"  -> IF t = 0 THEN rd(s) ELSE Nothing
          [] i.k \in CondMove -> _movci(i, r)
          [] i.k = "mfhi"  -> rd(r[HI])
          [] i.k = "mflo"  -> rd(r[LO])
          [] i.k = "mthi"  -> HI :> s
          [] i.k = "mtlo"  -> LO :> s
          [] i.k = "mult"  -> LoHiPair(Signed(s) * Signed(t))
          [] i.k = "multu" -> LoHiPair(s * t)
          [] i.k \in {"div", "divu"} /\ t = 0 -> Nothing
          [] i.k = "div" /\ t # 0 ->
                LET q == Quotient(Signed(s), Signed(t))
                IN  LO :> Unsigned(q) @@ HI :> Unsigned(Signed(s) - q * Signed(t))
          [] i.k = "divu" /\ t # 0 -> LO :> (s \div t) @@ HI :> (s % t)
          [] OTHER         -> Nothing                  \* teq, sync

(* The immediate forms: uimm32 and simm32 of the half word.                *)
Immediate(i, r) ==
    LET s == r[GPR(i.rs)]
        uimm32 == i.imm % Radix ^ 2
        simm32 == SignExtend(uimm32, 2)
        rt(v) == GPR(i.rt) :> v
    IN  CASE i.k = "addiu" -> rt(Unsigned(s + simm32))
          [] i.k = "slti"  -> rt(Bool(Signed(s) < Signed(simm32)))
          [] i.k = "sltiu" -> rt(Bool(s < simm32))
          [] i.k = "andi"  -> rt(Band(s, uimm32))
          [] i.k = "ori"   -> rt(Bor(s, uimm32))
          [] i.k = "xori"  -> rt(Bxor(s, uimm32))
          [] i.k = "lui"   -> rt(Unsigned(uimm32 * Radix ^ 2))

(* The accumulator of madd and msub: lo is or-ed in as an int64_t, so that *)
(* its sign covers hi.                                                     *)
Accumulator(r) ==
    IF Signed(r[LO]) < 0 THEN Signed(r[LO]) ELSE Signed(r[HI]) * WordSize + r[LO]

execSpecial2(i, r) ==
    LET product == Signed(r[GPR(i.rs)]) * Signed(r[GPR(i.rt)])
        s == r[GPR(i.rs)]
    IN  CASE i.k = "madd" -> LoHiPair(Accumulator(r) + product)
          [] i.k = "msub" -> LoHiPair(Accumulator(r) - product)
          [] i.k = "mul"  -> GPR(i.rd) :> Unsigned(product)
          [] i.k = "clz"  ->
                GPR(i.rd) :> IF s = 0 THEN WordBits
                             ELSE WordBits - 1 - CHOOSE b \in 0 .. WordBits - 1 : Shr(s, b) = 1

(* ext and ins shift one by size: size is below the width of a word here.  *)
execSpecial3(i, r) ==
    LET s == r[GPR(i.rs)]
        t == r[GPR(i.rt)]
        size == IF i.k = "ext" THEN i.rd + 1 ELSE i.rd - i.sa + 1
        mask == 2 ^ size - 1
    IN  CASE i.k = "seb" -> GPR(i.rd) :> SignExtend(LowBytes(t, 1), 1)
          [] i.k = "seh" -> GPR(i.rd) :> SignExtend(LowBytes(t, 2), 2)
          [] i.k = "ext" -> GPR(i.rt) :> Band(Sar(s, i.sa), mask)
          [] i.k = "ins" ->
                GPR(i.rt) :> Bor(Band(t, Complement(Shl(mask, i.sa))), Shl(Band(s, mask), i.sa))

(* Coprocessor 1: a double is two words of cpr1, the host computes.        *)
Operand(i, r, n) ==
    IF IsDouble(i.k) THEN <<r[CPR1(n)], r[CPR1(n + 1)]>> ELSE <<r[CPR1(n)]>>
Result(n, w) == [x \in {CPR1(n + j - 1) : j \in DOMAIN w} |-> w[x[2] - n + 1]]

_c(i, r) ==
    setConditionCode(r, Bool(FpArith(i.k, Operand(i, r, i.rd) \o Operand(i, r, i.rt))[1] # 0),
                     i.sa)
FpMoves(i, r) ==
    LET holds == CASE i.k \in {"movf.s", "movf.d"} -> getConditionCode(r, i.rt) = 0
                   [] i.k \in {"movt.s", "movt.d"} -> getConditionCode(r, i.rt) = 1
                   [] i.k \in {"movn.s", "movn.d"} -> r[GPR(i.rt)] # 0
                   [] i.k \in {"movz.s", "movz.d"} -> r[GPR(i.rt)] = 0
    IN  IF holds THEN Result(i.sa, Operand(i, r, i.rd)) ELSE Nothing
c1xExec(i, r) ==
    Result(i.sa, FpArith(i.k, Operand(i, r, i.rd) \o Operand(i, r, i.rt) \o Operand(i, r, i.rs)))

execCoproc1(i, r) ==
    CASE i.k = "mfc1"                       -> GPR(i.rt) :> r[CPR1(i.rd)]
      [] i.k = "mtc1"                       -> CPR1(i.rd) :> r[GPR(i.rt)]
      [] i.k \in FpCmp                      -> _c(i, r)
      [] i.k \in FpCondMove \cup FpRegMove  -> FpMoves(i, r)
      [] i.k \in {"mov.s", "mov.d"}         -> Result(i.sa, Operand(i, r, i.rd))
      [] i.k \in FpBinary                   ->
            Result(i.sa, FpArith(i.k, Operand(i, r, i.rd) \o Operand(i, r, i.rt)))
      [] OTHER                              -> Result(i.sa, FpArith(i.k, Operand(i, r, i.rd)))

(* The registers an instruction that is no load, store, branch or jump     *)
(* changes.                                                                *)
InterpWrites(i, r) ==
    CASE i.k \in IType \cup {"lui"}                             -> Immediate(i, r)
      [] i.k \in {"madd", "msub", "mul", "clz"}                 -> execSpecial2(i, r)
      [] i.k \in {"seb", "seh", "ext", "ins"}                   -> execSpecial3(i, r)
      [] i.k = "mtc0"                                           -> CPR0(i.rd) :> r[GPR(i.rt)]
      [] i.k \in {"madd.d", "msub.d", "madd.s", "msub.s"}       -> c1xExec(i, r)
      [] i.k \in {"mfc1", "mtc1"} \cup FpCmp \cup FpCondMove \cup FpRegMove \cup ToSingle
                 \cup ToDouble \cup FpArithD \cup FpArithS      -> execCoproc1(i, r)
      [] OTHER                                                  -> Special(i, r)

(* branch<>(): takeBranch.                                                 *)
takeBranch(i, r) ==
    LET s == Signed(r[GPR(i.rs)])
    IN  CASE i.k \in {"beq", "beql"}   -> r[GPR(i.rt)] = r[GPR(i.rs)]
          [] i.k \in {"bne", "bnel"}   -> r[GPR(i.rt)] # r[GPR(i.rs)]
          [] i.k \in {"blez", "blezl"} -> s <= 0
          [] i.k \in {"bgtz", "bgtzl"} -> s > 0
          [] i.k \in {"bgez", "bgezl"} -> s >= 0
          [] i.k \in {"bltz", "bltzl"} -> s < 0
          [] i.k \in {"bc1t", "bc1tl"} -> getConditionCode(r, i.rt) = 1
          [] i.k \in {"bc1f", "bc1fl"} -> getConditionCode(r, i.rt) = 0

(* The loads: _lb ... _lwr, and ldc1, which swaps eight bytes at once.     *)
InterpLoads(i, ea, m, r) ==
    LET word == ReadWord(m, ea - (ea % 4))
    IN  CASE i.k \in LoadOps -> GPR(i.rt) :> InterpLoad(i.k, ea % 4, word, r[GPR(i.rt)])
          [] i.k = "lwc1"    -> CPR1(i.rt) :> word
          [] i.k = "ldc1"    -> CPR1(i.rt) :> ReadWord(m, ea + 4) @@ CPR1(i.rt + 1) :> word

(* The memories a store may leave (one, unless swl shifts by the width).   *)
InterpStores(i, ea, m, r) ==
    LET a == ea - (ea % 4)
    IN  CASE i.k \in StoreOps ->
                {WriteWord(m, a, w) : w \in InterpStore(i.k, ea % 4, ReadWord(m, a), r[GPR(i.rt)])}
          [] i.k = "swc1" -> {WriteWord(m, a, r[CPR1(i.rt)])}
          [] i.k = "sdc1" ->
                {WriteWord(WriteWord(m, a, r[CPR1(i.rt + 1)]), a + 4, r[CPR1(i.rt)])}
=============================================================================
