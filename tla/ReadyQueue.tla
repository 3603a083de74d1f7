----------------------------- MODULE ReadyQueue -----------------------------
(***************************************************************************)
(* What the gthread scheduler promises: a round robin.  The queue holds    *)
(* the threads that have not terminated, the running one in front; a       *)
(* thread that yields goes to the end, one that terminates leaves.         *)
(***************************************************************************)
EXTENDS Sequences

CONSTANT Threads             \* the threads, in the order they are created

VARIABLES
    q,                       \* the threads that still run
    ended                    \* the threads that have terminated

Init == q = Threads /\ ended = {}
Yield == q # <<>> /\ q' = Append(Tail(q), Head(q)) /\ UNCHANGED ended
Terminate == q # <<>> /\ q' = Tail(q) /\ ended' = ended \cup {Head(q)}
Next == Yield \/ Terminate

Spec == Init /\ [][Next]_<<q, ended>>
=============================================================================
