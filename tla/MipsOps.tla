------------------------------ MODULE MipsOps ------------------------------
(***************************************************************************)
(* The operation classes of mips_op.cc.  An instruction is a record        *)
(* [k, rs, rt, rd, sa, imm] of its mnemonic and its fields (bits 21, 16,   *)
(* 11, 6 and 0); a register is <<file, number>>, a file one of the four    *)
(* rename files of sim_state.  One operator per class says what its        *)
(* methods do with registers: the reservation station it waits in          *)
(* (op_class), the registers allocate() looks up (src) and renames (dst,   *)
(* in the order physical registers are drawn), its latency and the method  *)
(* that writes the destination (at).  Value is what execute() computes,    *)
(* with int32_t arithmetic on words of WordSize; floating point is the     *)
(* host's and stays uninterpreted (FpArith).                               *)
(***************************************************************************)
EXTENDS MemOps, FiniteSets

CONSTANTS
    FpArith(_, _),           \* FpArith(mnemonic, operands): host arithmetic
    UseInterpCheck           \* use_interp_check: some host calls end the run

GPR(n)  == <<"gpr", n>>
CPR0(n) == <<"cpr0", n>>
CPR1(n) == <<"cpr1", n>>
CR25    == <<"fcr1", 4>>     \* CP1_CR25, the condition codes
LO == GPR(32)
HI == GPR(33)

Classes == {"alu", "fp", "jmp", "load", "store", "system"}

Insn(k, rs, rt, rd, sa, imm) ==
    [k |-> k, rs |-> rs, rt |-> rt, rd |-> rd, sa |-> sa, imm |-> imm]

Sig(cls, src, dst, lat, at) ==
    [cls |-> cls, src |-> src, dst |-> dst, lat |-> lat, at |-> at]
Alu(src, dst) == Sig("alu", src, dst, 1, "execute")

(* Single and double precision: a double is an even and an odd register.   *)
FpArithD == {"add.d", "sub.d", "mul.d", "div.d", "sqrt.d", "abs.d", "mov.d", "neg.d"}
FpArithS == {"add.s", "sub.s", "mul.s", "div.s", "sqrt.s", "abs.s", "mov.s", "neg.s"}
FpBinary == {"add.d", "sub.d", "mul.d", "div.d", "add.s", "sub.s", "mul.s", "div.s"}
IsDouble(k) ==
    k \in FpArithD \cup {"c.eq.d", "c.lt.d", "c.le.d", "madd.d", "msub.d", "movf.d", "movt.d",
                         "movn.d", "movz.d", "cvt.s.d", "trunc.w.d", "ldc1", "sdc1"}
Fp(k, n) == IF IsDouble(k) THEN <<CPR1(n), CPR1(n + 1)>> ELSE <<CPR1(n)>>
RangeSet(s) == {s[j] : j \in DOMAIN s}
FpSet(k, n) == RangeSet(Fp(k, n))

ConstShift == {"sll", "srl", "sra"}
RType == {"sllv", "srlv", "srav", "addu", "subu", "and", "or", "xor", "nor", "slt", "sltu",
          "movn", "movz"}
IType == {"addiu", "slti", "sltiu", "andi", "ori", "xori"}
LoadOps == {"lb", "lbu", "lh", "lhu", "lw", "lwl", "lwr"}
StoreOps == {"sb", "sh", "sw", "swl", "swr"}
NonLikely == {"beq", "bne", "blez", "bgtz", "bltz", "bgez", "bc1f", "bc1t"}
Likely == {"beql", "bnel", "blezl", "bgtzl", "bltzl", "bgezl", "bc1fl", "bc1tl"}
Branches == NonLikely \cup Likely
Jumps == {"j", "jal", "jr", "jalr"}

(* $0 is never renamed by the rtype and itype classes.                     *)
rtype_alu_op(i) ==
    Alu({GPR(i.rt), GPR(i.rs)} \cup (IF i.k \in {"movn", "movz"} THEN {GPR(i.rd)} ELSE {}),
        IF i.rd = 0 THEN <<>> ELSE <<GPR(i.rd)>>)
rtype_const_shift_alu_op(i) == Alu({GPR(i.rt)}, IF i.rd = 0 THEN <<>> ELSE <<GPR(i.rd)>>)
teq_op(i) == Alu({GPR(i.rt), GPR(i.rs)}, <<>>)
itype_alu_op(i) == Alu({GPR(i.rs)}, IF i.rt = 0 THEN <<>> ELSE <<GPR(i.rt)>>)
itype_lui_op(i) == Alu({}, IF i.rt = 0 THEN <<>> ELSE <<GPR(i.rt)>>)
lo_hi_move(i) ==
    CASE i.k = "mflo" -> Alu({LO}, <<GPR(i.rd)>>)
      [] i.k = "mfhi" -> Alu({HI}, <<GPR(i.rd)>>)
      [] i.k = "mtlo" -> Alu({GPR(i.rs)}, <<LO>>)
      [] i.k = "mthi" -> Alu({GPR(i.rs)}, <<HI>>)
mtc0(i) == Alu({GPR(i.rt)}, <<CPR0(i.rd)>>)
mtc1(i) == Alu({GPR(i.rt)}, <<CPR1(i.rd)>>)
mfc1(i) == Alu({CPR1(i.rd)}, <<GPR(i.rt)>>)
mul_op(i) == Sig("alu", {GPR(i.rs), GPR(i.rt)}, <<GPR(i.rd)>>, 4, "execute")
clz_op(i) == Alu({GPR(i.rs)}, <<GPR(i.rd)>>)
mult_div_op(i) ==
    Sig("alu", {GPR(i.rs), GPR(i.rt)} \cup (IF i.k \in {"madd", "msub"} THEN {LO, HI} ELSE {}),
        <<LO, HI>>, IF i.k \in {"div", "divu"} THEN 32 ELSE 4, "execute")
se_op(i) == Sig("system", {GPR(i.rt)}, <<GPR(i.rd)>>, 1, "execute")
ext_op(i) == Alu({GPR(i.rs)}, <<GPR(i.rt)>>)
ins_op(i) == Alu({GPR(i.rs), GPR(i.rt)}, <<GPR(i.rt)>>)
movci_op(i) == Alu({GPR(i.rd), GPR(i.rs), CR25}, <<GPR(i.rd)>>)

jump_op(i) ==
    Sig("jmp", IF i.k \in {"jr", "jalr"} THEN {GPR(i.rs)} ELSE {},
        IF i.k \in {"jal", "jalr"} THEN <<GPR(31)>> ELSE <<>>, 1, "execute")
branch_op(i) ==
    Sig("jmp", CASE i.k \in {"bc1f", "bc1t", "bc1fl", "bc1tl"}  -> {CR25}
                 [] i.k \in {"beq", "bne", "beql", "bnel"}      -> {GPR(i.rs), GPR(i.rt)}
                 [] OTHER                                       -> {GPR(i.rs)},
        <<>>, 1, "execute")
load_op(i) ==
    Sig("load", {GPR(i.rs)} \cup (IF i.k \in {"lwl", "lwr"} THEN {GPR(i.rt)} ELSE {}),
        <<GPR(i.rt)>>, 1, "complete")
store_op(i) == Sig("store", {GPR(i.rt), GPR(i.rs)}, <<>>, 1, "execute")
fp_load_op(i) == Sig("load", {GPR(i.rs)}, Fp(i.k, i.rt), 1, "complete")
fp_store_op(i) == Sig("store", FpSet(i.k, i.rt) \cup {GPR(i.rs)}, <<>>, 1, "execute")

fmovc_op(i) ==
    Sig("fp", FpSet(i.k, i.rd) \cup FpSet(i.k, i.sa) \cup {CR25}, Fp(i.k, i.sa), 1, "execute")
fmov_op(i) ==
    Sig("fp", FpSet(i.k, i.rd) \cup FpSet(i.k, i.sa) \cup {GPR(i.rt)}, Fp(i.k, i.sa), 1, "execute")
fp_cmp(i) ==
    Sig("fp", FpSet(i.k, i.rd) \cup FpSet(i.k, i.rt) \cup {CR25}, <<CR25>>, 1, "execute")
fp_arith_op(i) ==
    Sig("fp", FpSet(i.k, i.rd) \cup (IF i.k \in FpBinary THEN FpSet(i.k, i.rt) ELSE {}),
        Fp(i.k, i.sa),
        CASE i.k \in {"add.d", "add.s", "sub.d", "sub.s"}    -> 2
          [] i.k \in {"mul.d", "mul.s"}                      -> 3
          [] i.k \in {"div.d", "div.s", "sqrt.d", "sqrt.s"}  -> 32
          [] OTHER                                           -> 1,
        "execute")
fp_fma(i) ==
    Sig("fp", FpSet(i.k, i.rd) \cup FpSet(i.k, i.rt) \cup FpSet(i.k, i.rs),
        Fp(i.k, i.sa), 3, "execute")
cvts_truncw_op(i) == Sig("fp", FpSet(i.k, i.rd), <<CPR1(i.sa)>>, 1, "execute")
cvtd_op(i) == Sig("fp", {CPR1(i.rd)}, <<CPR1(i.sa), CPR1(i.sa + 1)>>, 1, "execute")

break_op(i) == Sig("system", {}, <<>>, 1, "execute")
sync_op(i) == Sig("system", {}, <<>>, 1, "execute")
monitor_op(i) ==
    Sig("system", {GPR(4), GPR(5), GPR(6), GPR(31)}, <<GPR(2)>>, 1, "retire")

(* The decoders, by instruction format.                                    *)
CondMove == {"movf", "movt"}
LoHi == {"mflo", "mfhi", "mtlo", "mthi"}
MultDiv == {"mult", "multu", "div", "divu"}
FpCmp == {"c.eq.d", "c.lt.d", "c.le.d", "c.eq.s", "c.lt.s", "c.le.s"}
FpCondMove == {"movf.d", "movt.d", "movf.s", "movt.s"}
FpRegMove == {"movn.d", "movz.d", "movn.s", "movz.s"}
ToSingle == {"cvt.s.d", "cvt.s.w", "trunc.w.d", "trunc.w.s"}
ToDouble == {"cvt.d.s", "cvt.d.w"}

decode_rtype_insn(i) ==
    CASE i.k \in ConstShift     -> rtype_const_shift_alu_op(i)
      [] i.k \in RType          -> rtype_alu_op(i)
      [] i.k = "teq"            -> teq_op(i)
      [] i.k \in CondMove       -> movci_op(i)
      [] i.k \in LoHi           -> lo_hi_move(i)
      [] i.k \in MultDiv        -> mult_div_op(i)
      [] i.k \in {"jr", "jalr"} -> jump_op(i)
      [] i.k = "break"          -> break_op(i)
      [] i.k = "sync"           -> sync_op(i)
      [] i.k = "monitor"        -> monitor_op(i)
decode_itype_insn(i) ==
    CASE i.k \in Branches         -> branch_op(i)
      [] i.k \in IType            -> itype_alu_op(i)
      [] i.k = "lui"              -> itype_lui_op(i)
      [] i.k \in LoadOps          -> load_op(i)
      [] i.k \in StoreOps         -> store_op(i)
      [] i.k \in {"lwc1", "ldc1"} -> fp_load_op(i)
      [] i.k \in {"swc1", "sdc1"} -> fp_store_op(i)
decode_coproc1_insn(i) ==
    CASE i.k = "mfc1"           -> mfc1(i)
      [] i.k = "mtc1"           -> mtc1(i)
      [] i.k \in FpCmp          -> fp_cmp(i)
      [] i.k \in FpCondMove     -> fmovc_op(i)
      [] i.k \in FpRegMove      -> fmov_op(i)
      [] i.k \in ToSingle       -> cvts_truncw_op(i)
      [] i.k \in ToDouble       -> cvtd_op(i)
      [] OTHER                  -> fp_arith_op(i)
decode_special2_insn(i) ==
    CASE i.k \in {"madd", "msub"} -> mult_div_op(i)
      [] i.k = "mul"              -> mul_op(i)
      [] i.k = "clz"              -> clz_op(i)
decode_special3_insn(i) ==
    CASE i.k = "ext"            -> ext_op(i)
      [] i.k = "ins"            -> ins_op(i)
      [] i.k \in {"seb", "seh"} -> se_op(i)

decode_insn(i) ==
    CASE i.k \in ConstShift \cup RType \cup CondMove \cup LoHi \cup MultDiv
                 \cup {"teq", "jr", "jalr", "break", "sync", "monitor"} -> decode_rtype_insn(i)
      [] i.k \in {"madd", "msub", "mul", "clz"}                -> decode_special2_insn(i)
      [] i.k \in {"ext", "ins", "seb", "seh"}                  -> decode_special3_insn(i)
      [] i.k \in {"j", "jal"}                                  -> jump_op(i)
      [] i.k = "mtc0"                                          -> mtc0(i)
      [] i.k \in {"madd.d", "msub.d", "madd.s", "msub.s"}      -> fp_fma(i)
      [] i.k \in {"mfc1", "mtc1"} \cup FpCmp \cup FpCondMove \cup FpRegMove \cup ToSingle
                 \cup ToDouble \cup FpArithD \cup FpArithS     -> decode_coproc1_insn(i)
      [] OTHER                                                 -> decode_itype_insn(i)

(* The instructions: decode_insn() ends the program (die()) on any other.  *)
Mnemonics ==
    ConstShift \cup RType \cup CondMove \cup LoHi \cup MultDiv \cup IType \cup LoadOps
    \cup StoreOps \cup Branches \cup Jumps \cup FpCmp \cup FpCondMove \cup FpRegMove
    \cup ToSingle \cup ToDouble \cup FpArithD \cup FpArithS
    \cup {"teq", "break", "sync", "monitor", "madd", "msub", "mul", "clz", "ext", "ins", "seb",
          "seh", "mtc0", "mfc1", "mtc1", "lui", "lwc1", "ldc1", "swc1", "sdc1", "madd.d",
          "msub.d", "madd.s", "msub.s"}
-----------------------------------------------------------------------------
(* What execute() computes, from the source values v.                      *)
WordBits == 4 * ByteBits
Bool(b) == IF b THEN 1 ELSE 0

(* getConditionCode() and setCC(): bit cc of CR25.  The cc field is rt for *)
(* the instructions that test it, sa for the comparisons that set it.      *)
Condition(cc, v) == (v[CR25] \div 2 ^ cc) % 2 = 1
SetCondition(cc, v, b) == v[CR25] + (Bool(b) - Bool(Condition(cc, v))) * 2 ^ cc

Clz(x) == Cardinality({n \in 0 .. WordBits - 1 : x < 2 ^ n})

(* rtype_alu_op::execute(): shifts use sa or the low bits of rs.           *)
RTypeValue(i, v) ==
    LET t == v[GPR(i.rt)]
        s == IF i.k \in ConstShift THEN i.sa ELSE v[GPR(i.rs)]
        n == 2 ^ (s % WordBits)
    IN  CASE i.k \in {"sll", "sllv"} -> Unsigned(t * n)
          [] i.k \in {"srl", "srlv"} -> t \div n
          [] i.k \in {"sra", "srav"} -> Unsigned(Signed(t) \div n)
          [] i.k = "addu" -> Unsigned(s + t)
          [] i.k = "subu" -> Unsigned(s - t)
          [] i.k = "and"  -> Band(s, t)
          [] i.k = "or"   -> Bor(s, t)
          [] i.k = "xor"  -> Bxor(s, t)
          [] i.k = "nor"  -> WordSize - 1 - Bor(s, t)
          [] i.k = "slt"  -> Bool(Signed(s) < Signed(t))
          [] i.k = "sltu" -> Bool(s < t)
          [] i.k = "movn" -> IF t # 0 THEN s ELSE v[GPR(i.rd)]
          [] i.k = "movz" -> IF t = 0 THEN s ELSE v[GPR(i.rd)]

(* itype_alu_op::execute(): imm is a signed half word.                     *)
ITypeValue(i, v) ==
    LET s == v[GPR(i.rs)]
        z == i.imm % Radix ^ 2
    IN  CASE i.k = "addiu" -> Unsigned(s + i.imm)
          [] i.k = "slti"  -> Bool(Signed(s) < i.imm)
          [] i.k = "sltiu" -> Bool(s < Unsigned(i.imm))
          [] i.k = "andi"  -> Band(s, z)
          [] i.k = "ori"   -> Bor(s, z)
          [] i.k = "xori"  -> Bxor(s, z)

(* mult_div_op::execute(): <<lo, hi>>; a division by zero writes neither,  *)
(* so the fresh registers keep what they held (old).  madd and msub        *)
(* sign-extend lo before they merge it into the accumulator.               *)
MultDivValue(i, v, old) ==
    LET s == v[GPR(i.rs)]
        t == v[GPR(i.rt)]
        acc == IF v[LO] >= WordSize \div 2 THEN Signed(v[LO])
               ELSE Signed(v[HI]) * WordSize + v[LO]
        trunc(a, b) == (IF (a < 0) = (b < 0) THEN 1 ELSE -1)
                       * ((IF a < 0 THEN -a ELSE a) \div (IF b < 0 THEN -b ELSE b))
        pair(y) == <<Unsigned(y), Unsigned(y \div WordSize)>>
    IN  CASE i.k = "mult"  -> pair(Signed(s) * Signed(t))
          [] i.k = "multu" -> pair(s * t)
          [] i.k = "madd"  -> pair(acc + Signed(s) * Signed(t))
          [] i.k = "msub"  -> pair(acc - Signed(s) * Signed(t))
          [] i.k \in {"div", "divu"} /\ t = 0 -> old
          [] i.k = "div" /\ t # 0  -> LET q == trunc(Signed(s), Signed(t))
                                      IN  <<Unsigned(q), Unsigned(Signed(s) - q * Signed(t))>>
          [] i.k = "divu" /\ t # 0 -> <<s \div t, s % t>>

(* ext_op and ins_op: a field of rs (shifted with its sign), a field of rt *)
(* replaced.                                                               *)
BitFieldValue(i, v) ==
    LET s == v[GPR(i.rs)]
        w == 2 ^ (IF i.k = "ext" THEN i.rd + 1 ELSE i.rd - i.sa + 1)
    IN  IF i.k = "ext" THEN (Signed(s) \div 2 ^ i.sa) % w
        ELSE LET t == v[GPR(i.rt)]
             IN  Unsigned(t - ((t \div 2 ^ i.sa) % w) * 2 ^ i.sa + (s % w) * 2 ^ i.sa)

(* The conditional moves and the comparisons of the fp classes.            *)
FpSource(i, v, n) == [j \in DOMAIN Fp(i.k, n) |-> v[Fp(i.k, n)[j]]]
FpMoveValue(i, v) ==
    LET keep == CASE i.k \in {"movf.d", "movf.s"} -> Condition(i.rt, v)
                  [] i.k \in {"movt.d", "movt.s"} -> ~ Condition(i.rt, v)
                  [] i.k \in {"movn.d", "movn.s"} -> v[GPR(i.rt)] = 0
                  [] i.k \in {"movz.d", "movz.s"} -> v[GPR(i.rt)] # 0
    IN  IF keep THEN FpSource(i, v, i.sa) ELSE FpSource(i, v, i.rd)
FpCmpValue(i, v) ==
    SetCondition(i.sa, v, FpArith(i.k, FpSource(i, v, i.rd) \o FpSource(i, v, i.rt))[1] # 0)
FpValue(i, v) ==
    CASE i.k \in {"mov.d", "mov.s"}                    -> FpSource(i, v, i.rd)
      [] i.k \in FpBinary                              ->
            FpArith(i.k, FpSource(i, v, i.rd) \o FpSource(i, v, i.rt))
      [] i.k \in {"madd.d", "msub.d", "madd.s", "msub.s"} ->
            FpArith(i.k, FpSource(i, v, i.rd) \o FpSource(i, v, i.rt) \o FpSource(i, v, i.rs))
      [] OTHER                                         -> FpArith(i.k, FpSource(i, v, i.rd))

(* The values of the destinations, in the order of dst.                    *)
Value(i, pc, v, old) ==
    CASE i.k \in ConstShift \cup RType -> <<RTypeValue(i, v)>>
      [] i.k \in IType                 -> <<ITypeValue(i, v)>>
      [] i.k = "lui"                   -> <<Unsigned(i.imm * Radix ^ 2)>>
      [] i.k \in {"jal", "jalr"}       -> <<Unsigned(pc + 8)>>
      [] i.k = "mflo"                  -> <<v[LO]>>
      [] i.k = "mfhi"                  -> <<v[HI]>>
      [] i.k \in {"mtlo", "mthi"}      -> <<v[GPR(i.rs)]>>
      [] i.k \in {"mtc0", "mtc1"}      -> <<v[GPR(i.rt)]>>
      [] i.k = "mfc1"                  -> <<v[CPR1(i.rd)]>>
      [] i.k = "mul"                   -> <<Unsigned(Signed(v[GPR(i.rs)]) * Signed(v[GPR(i.rt)]))>>
      [] i.k = "clz"                   -> <<Clz(v[GPR(i.rs)])>>
      [] i.k \in MultDiv \cup {"madd", "msub"} -> MultDivValue(i, v, old)
      [] i.k = "seb"                   -> <<SignExtend(v[GPR(i.rt)] % Radix, 1)>>
      [] i.k = "seh"                   -> <<SignExtend(v[GPR(i.rt)] % Radix ^ 2, 2)>>
      [] i.k \in {"ext", "ins"}        -> <<BitFieldValue(i, v)>>
      [] i.k \in CondMove              ->
            <<IF Condition(i.rt, v) = (i.k = "movt")
              THEN v[GPR(i.rs)] ELSE v[GPR(i.rd)]>>
      [] i.k \in FpCondMove \cup FpRegMove -> FpMoveValue(i, v)
      [] i.k \in FpCmp                 -> <<FpCmpValue(i, v)>>
      [] OTHER                         -> FpValue(i, v)

(* branch_op::execute(): take_br.                                          *)
TakeBr(i, v) ==
    CASE i.k \in {"beq", "beql"}   -> v[GPR(i.rs)] = v[GPR(i.rt)]
      [] i.k \in {"bne", "bnel"}   -> v[GPR(i.rs)] # v[GPR(i.rt)]
      [] i.k \in {"blez", "blezl"} -> Signed(v[GPR(i.rs)]) <= 0
      [] i.k \in {"bgtz", "bgtzl"} -> Signed(v[GPR(i.rs)]) > 0
      [] i.k \in {"bltz", "bltzl"} -> Signed(v[GPR(i.rs)]) < 0
      [] i.k \in {"bgez", "bgezl"} -> Signed(v[GPR(i.rs)]) >= 0
      [] i.k \in {"bc1t", "bc1tl"} -> Condition(i.rt, v)
      [] i.k \in {"bc1f", "bc1fl"} -> ~ Condition(i.rt, v)

(* correct_pc of a jump; branches keep their word offset, jumps their      *)
(* absolute target in imm.                                                 *)
BranchTarget(i, pc) == Unsigned(pc + 4 + 4 * i.imm)
JumpTarget(i, v) == IF i.k \in {"jr", "jalr"} THEN v[GPR(i.rs)] ELSE i.imm

(* Effective addresses, and the alignment load_op::execute() and           *)
(* fp_load_op::execute() insist on.                                        *)
EffectiveAddress(i, v) == Unsigned(v[GPR(i.rs)] + i.imm)
Misaligned(i, ea) ==
    CASE i.k \in {"lh", "lhu"}  -> ea % 2 # 0
      [] i.k \in {"lw", "lwc1"} -> ea % 4 # 0
      [] i.k = "ldc1"           -> ea % 8 # 0
      [] OTHER                  -> FALSE

(* sparse_mem: words that were never written read as zero.                 *)
ReadWord(m, a) == IF a \in DOMAIN m THEN m[a] ELSE 0
WriteWord(m, a, w) == [x \in DOMAIN m \cup {a} |-> IF x = a THEN w ELSE m[x]]

(* load_op::complete() and fp_load_op::complete(): the destinations.  The  *)
(* even register of a double is the word at the higher address.            *)
LoadData(i, ea, m, v) ==
    LET ma == ea % 4
        r == ReadWord(m, ea - ma)
    IN  CASE i.k \in LoadOps -> <<LoadValue(i.k, ma, r, IF i.k \in {"lwl", "lwr"} THEN v[GPR(i.rt)] ELSE 0)>>
          [] i.k = "lwc1" -> <<r>>
          [] i.k = "ldc1" -> <<ReadWord(m, ea + 4), r>>

(* store_op::retire() and fp_store_op::retire(): memory.                   *)
StoreData(i, ea, m, v) ==
    LET ma == ea % 4
        a == ea - ma
    IN  CASE i.k \in StoreOps -> WriteWord(m, a, StoreValue(i.k, ma, ReadWord(m, a), v[GPR(i.rt)]))
          [] i.k = "swc1" -> WriteWord(m, a, v[CPR1(i.rt)])
          [] i.k = "sdc1" -> WriteWord(WriteWord(m, a, v[CPR1(i.rt + 1)]), a + 4, v[CPR1(i.rt)])

(* monitor_op::retire(): a reason the switch does not list ends the        *)
(* simulation, and with use_interp_check so do open, read, lseek, a write  *)
(* to a descriptor above 1 and a close of one up to 2.  $2 is what the     *)
(* host returns, zero for the rest; 33 and 34 clear two words (7, 35 and   *)
(* 55 write data of the host to memory and are left out).                  *)
HostCalls == {6, 8, 9, 10, 50, 53}
MonitorStops(i, v) ==
    LET fd == Signed(v[GPR(4)])
    IN  \/ i.imm \notin HostCalls \cup {7, 33, 34, 35, 51, 52, 55}
        \/ UseInterpCheck /\ \/ i.imm \in {6, 7, 9}
                             \/ i.imm = 8 /\ fd >= 2
                             \/ i.imm = 10 /\ fd <= 2
HostAnswers(i, v) ==
    /\ i.imm \in HostCalls /\ ~ MonitorStops(i, v)
    /\ i.imm = 10 => Signed(v[GPR(4)]) > 2
MonitorMem(i, m, v) ==
    IF i.imm \in {33, 34} THEN WriteWord(WriteWord(m, v[GPR(4)], 0), v[GPR(4)] + 4, 0) ELSE m
=============================================================================
