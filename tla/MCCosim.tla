------------------------------ MODULE MCCosim ------------------------------
(* Every integer and condition instruction between two registers, with     *)
(* four-bit words; floating-point operands are compared as integers.       *)
EXTENDS Cosim, Bitwise

MCFpArith(k, v) ==
    CASE k = "c.eq.s" -> <<Bool(v[1] = v[2])>>
      [] k = "c.lt.s" -> <<Bool(Signed(v[1]) < Signed(v[2]))>>
      [] k = "c.le.s" -> <<Bool(Signed(v[1]) <= Signed(v[2]))>>
MCNoInsns == [x \in {} |-> {}]
MCInsns == [
    integer |->
        {Insn(k, 1, 2, 1, 0, 0) : k \in RType \cup MultDiv \cup {"madd", "msub", "mul", "clz"}}
        \cup {Insn(k, 1, 2, 2, 0, 0) : k \in {"subu", "movn", "movz", "seb", "seh"} \cup LoHi}
        \cup {Insn(k, 0, 2, 1, n, 0) : k \in ConstShift, n \in {0, 1, 3}}
        \cup {Insn(k, 1, 1, 0, 0, n) : k \in IType \cup {"lui"}, n \in {-2, -1, 1}}
        \cup {Insn("ext", 1, 2, f[2] - 1, f[1], 0) : f \in {<<0, 3>>, <<1, 2>>, <<2, 2>>, <<2, 3>>}}
        \cup {Insn("ins", 1, 2, f[2], f[1], 0) : f \in {<<0, 2>>, <<1, 1>>, <<1, 3>>}},
    condition |->
        {Insn(k, 0, 1, 0, cc, 0) : k \in {"c.eq.s", "c.lt.s", "c.le.s"}, cc \in {0, 2}}
        \cup {Insn(k, 1, cc, 2, 0, 0) : k \in CondMove, cc \in {0, 2}}
        \cup {Insn(k, 0, cc, 0, 1, 0) : k \in {"movf.s", "movt.s"}, cc \in {0, 2}}
        \cup {Insn(k, 0, 1, 0, 1, 0) : k \in {"movn.s", "movz.s", "mov.s"}}
        \cup {Insn("mtc1", 0, 1, 1, 0, 0)}
        \cup {Insn(k, 1, 2, 0, 0, 2) : k \in Branches}]
MCBand(x, y) == x & y
MCBor(x, y) == x | y
MCBxor(x, y) == x ^^ y
=============================================================================
