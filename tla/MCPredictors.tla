--------------------------- MODULE MCPredictors ----------------------------
(***************************************************************************)
(* Two programs: two loop branches that share an entry of the loop         *)
(* predictor, one of them likely; a forward branch and a jump.  The tables *)
(* are so small that addresses and histories collide.                      *)
(***************************************************************************)
EXTENDS Predictors, Bitwise

MCInsn(jump, back, likely) == [jump |-> jump, back |-> back, likely |-> likely]
MCPrograms ==
    {[pc \in {4, 8} |-> MCInsn(FALSE, TRUE, pc = 8)], [pc \in {4, 8} |-> MCInsn(pc = 8, FALSE, FALSE)]}
MCHash(h) == IF h[1] THEN 1 ELSE 0
MCBxor(x, y) == x ^^ y
=============================================================================
