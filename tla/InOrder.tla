------------------------------ MODULE InOrder ------------------------------
(***************************************************************************)
(* What the renamed, out-of-order register machinery promises: the         *)
(* architectural registers change as if the operations ran one at a time,  *)
(* each reading the registers the previous one left.  `arch' is arch_grf,  *)
(* arch_cpr1 and arch_fcr1 of sim_state.                                   *)
(***************************************************************************)
CONSTANTS
    Regs,          \* architectural registers
    Val,           \* register values
    Ops,           \* decoded operations
    Src, Dst,      \* [Ops -> SUBSET Regs]
    Eval(_, _)     \* Eval(op, srcvals): the set of results an op may produce

VARIABLE arch

Init == arch \in [Regs -> Val]

(* One whole operation: read the sources, replace the destinations.        *)
Step(op) ==
    \E res \in Eval(op, [r \in Src[op] |-> arch[r]]) :
        arch' = [r \in Regs |-> IF r \in Dst[op] THEN res[r] ELSE arch[r]]

Next == \E op \in Ops : Step(op)

Spec == Init /\ [][Next]_arch
=============================================================================
