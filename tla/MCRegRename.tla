---------------------------- MODULE MCRegRename ----------------------------
(* Two architectural registers and one operation of each kind of           *)
(* mips_op.cc: an ALU operation, one with two destinations (mult_div_op),  *)
(* a load, a store or branch (no destination) and the monitor call.        *)
EXTENDS RegRename, TLC

CONSTANTS r1, r2, p1, p2, p3, p4, p5

MCRegs == {r1, r2}
MCPregs == {p1, p2, p3, p4, p5}
MCVal == {0, 1}
MCOps == {"addu", "mult", "lw", "bne", "monitor"}
MCSrc == [op \in MCOps |-> CASE op = "addu"    -> {r1, r2}
                             [] op = "mult"    -> {r1}
                             [] op = "lw"      -> {r2}
                             [] op = "bne"     -> {r1, r2}
                             [] op = "monitor" -> {r2}]
MCDst == [op \in MCOps |-> CASE op = "addu"    -> {r1}
                             [] op = "mult"    -> {r1, r2}
                             [] op = "lw"      -> {r2}
                             [] op = "bne"     -> {}
                             [] op = "monitor" -> {r1}]
MCWriteAt == [op \in MCOps |-> CASE op = "lw"      -> "complete"
                                 [] op = "monitor" -> "retire"
                                 [] OTHER          -> "execute"]
(* addu: exclusive or; mult: the value and its complement; lw: anything.   *)
MCEval(op, f) ==
    CASE op = "addu"    -> {[r \in {r1} |-> (f[r1] + f[r2]) % 2]}
      [] op = "mult"    -> {[r \in {r1, r2} |-> IF r = r1 THEN f[r1] ELSE 1 - f[r1]]}
      [] op = "lw"      -> [{r2} -> MCVal]
      [] op = "bne"     -> [{} -> MCVal]
      [] op = "monitor" -> {[r \in {r1} |-> f[r2]]}
MCInitMap == [r \in MCRegs |-> IF r = r1 THEN p1 ELSE p2]
Pool == Permutations({p3, p4, p5})
=============================================================================
