----------------------------- MODULE SparseMem -----------------------------
(***************************************************************************)
(* sparse_mem: pages that are allocated, zeroed, by the first access, and  *)
(* the bit vector of the pages that are present.  A page holds one word    *)
(* here; every operation below treats its bytes alike.                     *)
(***************************************************************************)
EXTENDS Integers, FiniteSetsExt

CONSTANT NumPages                              \* npages

ASSUME NumPagesAssumption == NumPages \in Nat \ {0}

Pages == 0 .. NumPages - 1

(* A memory whose pages hold w: pages that are zero need not be there.     *)
Memories(W) ==
    {m \in [mem : [Pages -> W], present : SUBSET Pages] :
        \A p \in Pages \ m.present : m.mem[p] = 0}

(* at(), operator[], get() and set() all allocate the page they touch.     *)
Touched(m, p) == [m EXCEPT !.present = @ \cup {p}]
set(m, p, w) == [Touched(m, p) EXCEPT !.mem[p] = w]

find_next_set(m, i) ==
    LET later == {p \in m.present : p > i} IN IF later = {} THEN -1 ELSE Min(later)
find_first_set(m) == find_next_set(m, -1)

\* mutant of is_zero: a page of one side only is a difference
is_zeroNever(m, p) == FALSE
is_zero(m, p) == m.mem[p] = 0

(* equal(): walks the present pages of both memories, p0 of the other one  *)
(* and p1 of this one, until either has no more.                           *)
equal(m, other) ==
    LET Index == {-1} \cup Pages
        same[p0 \in Index, p1 \in Index] ==
            CASE p0 = -1 \/ p1 = -1 -> TRUE
              [] p0 = p1 -> /\ m.mem[p1] = other.mem[p0]
                            /\ same[find_next_set(other, p0), find_next_set(m, p1)]
              [] p0 < p1 -> is_zero(other, p0) /\ same[find_next_set(other, p0), p1]
              [] p0 > p1 -> is_zero(m, p1) /\ same[p0, find_next_set(m, p1)]
    IN  same[find_first_set(other), find_first_set(m)]
=============================================================================
