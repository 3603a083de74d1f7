-------------------------------- MODULE Fifo --------------------------------
(***************************************************************************)
(* What the pipeline expects of a sim_queue: a first-in first-out sequence *)
(* of operations, of which it holds `cap' at most.                         *)
(***************************************************************************)
EXTENDS Naturals, Sequences

CONSTANT Values

VARIABLES q, cap

vars == <<q, cap>>

Init == q = <<>> /\ cap \in Nat \ {0}

Push(v) ==
    /\ Len(q) < cap
    /\ q' = Append(q, v)
    /\ UNCHANGED cap

Pop ==
    /\ q # <<>>
    /\ q' = Tail(q)
    /\ UNCHANGED cap

Clear == q' = <<>> /\ UNCHANGED cap

Next ==
    \/ \E v \in Values : Push(v)
    \/ Pop
    \/ Clear

Spec == Init /\ [][Next]_vars
=============================================================================
