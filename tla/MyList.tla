------------------------------- MODULE MyList -------------------------------
(***************************************************************************)
(* simCache::mylist (sim_cache.hh:28): the doubly linked list that holds   *)
(* the tags of a set, most recently used first, down to its pointers.      *)
(* Node 0 is nullptr.  boost::object_pool keeps its free chunks in address *)
(* order, so alloc() takes the first one.                                  *)
(***************************************************************************)
EXTENDS Naturals, Sequences, FiniteSets

CONSTANT MaxNodes           \* bound on the entries of a list

ASSUME NodesAssumption == MaxNodes \in Nat

Nodes == 1 .. MaxNodes
null == 0

EmptyList == [next |-> [n \in Nodes |-> null], prev |-> [n \in Nodes |-> null],
              data |-> [n \in Nodes |-> 0], used |-> {},
              head |-> null, tail |-> null, cnt |-> 0]

(* entry::unlink, set_from_head.                                           *)
Link(l, f, n, p) == IF n = null THEN l ELSE [l EXCEPT ![f][n] = p]
unlink(l, p) ==
    LET back == Link(l, "prev", l.next[p], l.prev[p])
    IN  Link(back, "next", back.prev[p], back.next[p])
set_from_head(l, p, n) == Link(Link(l, "prev", n, p), "next", p, n)

(* alloc, free: the entry is constructed anew, its pointers null.          *)
FirstFree(l) == CHOOSE n \in Nodes \ l.used : \A i \in Nodes \ l.used : n <= i
alloc(l, v) ==
    LET n == FirstFree(l)
    IN  [l EXCEPT !.used = @ \cup {n}, !.data[n] = v, !.next[n] = null, !.prev[n] = null]
free(l, p) ==
    [l EXCEPT !.used = @ \ {p}, !.data[p] = 0, !.next[p] = null, !.prev[p] = null,
              !.cnt = @ - 1]

(* The nodes that `p = p->next' from the head meets: step i of the walk,   *)
(* null past the end.  A walk of more than MaxNodes steps never ends.      *)
WalkTo(l) == LET at[i \in 0 .. MaxNodes] ==
                     IF i = 0 THEN l.head
                     ELSE IF at[i - 1] = null THEN null ELSE l.next[at[i - 1]]
             IN  at
WalkLength(l) == Cardinality({i \in 0 .. MaxNodes : WalkTo(l)[i] # null})
Tags(l) == [i \in 1 .. WalkLength(l) |-> l.data[WalkTo(l)[i - 1]]]

find(l, v) ==
    IF \E i \in 1 .. WalkLength(l) : Tags(l)[i] = v
    THEN WalkTo(l)[CHOOSE i \in 0 .. WalkLength(l) - 1 :
             Tags(l)[i + 1] = v /\ \A j \in 1 .. i : Tags(l)[j] # v]
    ELSE null

push_front(l, v) ==
    LET n == FirstFree(l)
        a == [alloc(l, v) EXCEPT !.cnt = @ + 1]
    IN  IF l.head = null /\ l.tail = null
        THEN [a EXCEPT !.head = n, !.tail = n]
        ELSE [set_from_head(a, n, l.head) EXCEPT !.head = n]

pop_back(l) ==
    IF l.tail = null THEN l
    ELSE LET u == unlink(l, l.tail)
         IN  free([u EXCEPT !.tail = u.prev[l.tail]], l.tail)

(* What move_to_head and erase do to head and tail when `p' leaves.        *)
TakeOut(l, p) ==
    LET u == unlink(l, p)
    IN  [u EXCEPT !.head = IF @ = p THEN u.next[p] ELSE @,
                  !.tail = IF @ = p THEN u.prev[p] ELSE @]

\* mutant of move_to_head: head and tail stay where p was
move_to_headOnly(l, p) ==
    LET u == unlink(l, p)
    IN  IF l.cnt <= 1 \/ p = l.head THEN l
        ELSE [set_from_head([u EXCEPT !.next[p] = null, !.prev[p] = null], p, l.head)
                 EXCEPT !.head = p]
move_to_head(l, p) ==
    IF l.cnt <= 1 THEN l
    ELSE LET out == [TakeOut(l, p) EXCEPT !.next[p] = null, !.prev[p] = null]
         IN  [set_from_head(out, p, out.head) EXCEPT !.head = p]

erase(l, p) == IF p = null THEN l ELSE free(TakeOut(l, p), p)

(* clear() walks the list, frees what it meets, and asserts that these     *)
(* were cnt entries.                                                       *)
Intact(l) ==
    /\ WalkTo(l)[MaxNodes] = null
    /\ WalkLength(l) = l.cnt
    /\ {WalkTo(l)[i] : i \in 0 .. MaxNodes} \ {null} = l.used
    /\ l.tail = IF l.cnt = 0 THEN null ELSE WalkTo(l)[l.cnt - 1]
    /\ \A n \in l.used : l.next[n] # null => l.prev[l.next[n]] = n
=============================================================================
