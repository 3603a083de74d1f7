--------------------------- MODULE SimCache_proofs ---------------------------
(***************************************************************************)
(* Proofs about the caches: for every list of levels, every geometry and   *)
(* every set of addresses.  First the list of a set, pointer by pointer:   *)
(* Rep(l, w) says that l is a doubly linked list whose entries, from head  *)
(* to tail, are w, and every operation of mylist is shown to lead from one *)
(* such list to another.  Then what the operations do to the tags, one     *)
(* set, one level, all levels; then the classes with trees, and what the   *)
(* tree of highAssocCache spares; last, that levels of setAssocCache       *)
(* implement LRU replacement.                                              *)
(***************************************************************************)
EXTENDS SimCache, DataLemmas

-----------------------------------------------------------------------------
(* Lists, pointer by pointer                                               *)

(* What mylist and its entries can hold.                                   *)
NodesOrNull == Nodes \cup {null}
ListType(l) ==
    l \in [next : [Nodes -> NodesOrNull], prev : [Nodes -> NodesOrNull], data : [Nodes -> Nat],
           used : SUBSET Nodes, head : NodesOrNull, tail : NodesOrNull, cnt : Nat]
(* The entries of l, in the order of the list, are w.                      *)
Linked(l, w) ==
    /\ w \in Seq(Nodes)
    /\ NoRepeat(w)
    /\ l.head = IF w = <<>> THEN null ELSE w[1]
    /\ l.tail = IF w = <<>> THEN null ELSE w[Len(w)]
    /\ \A i \in DOMAIN w :
          /\ l.next[w[i]] = IF i = Len(w) THEN null ELSE w[i + 1]
          /\ l.prev[w[i]] = IF i = 1 THEN null ELSE w[i - 1]

(* The pointer field f with the pointer of n set to p.                     *)
Put(f, n, p) == IF n = null THEN f ELSE [f EXCEPT ![n] = p]
(* l and m have the same entries in use, the same data and ends.           *)
SameRest(m, l) ==
    /\ m.used = l.used /\ m.data = l.data /\ m.cnt = l.cnt
    /\ m.head = l.head /\ m.tail = l.tail

(* entry::unlink and set_from_head write one pointer of one entry, or none. *)
LEMMA LinkIs ==
    ASSUME NEW l, ListType(l), NEW n \in NodesOrNull, NEW p \in NodesOrNull
    PROVE  /\ ListType(Link(l, "prev", n, p))
           /\ Link(l, "prev", n, p).prev = Put(l.prev, n, p)
           /\ Link(l, "prev", n, p).next = l.next
           /\ SameRest(Link(l, "prev", n, p), l)
           /\ ListType(Link(l, "next", n, p))
           /\ Link(l, "next", n, p).next = Put(l.next, n, p)
           /\ Link(l, "next", n, p).prev = l.prev
           /\ SameRest(Link(l, "next", n, p), l)
<1>1. CASE n = null
  BY <1>1 DEF Link, Put, SameRest
<1>2. CASE n # null
  BY <1>2 DEF Link, ListType, Put, SameRest
<1> QED
  BY <1>1, <1>2

(* What is left of the entries when one is taken out by erase or pop_back, *)
(* in the words of the community modules.                                  *)
LEMMA RemoveAtIs ==
    ASSUME NEW S, NEW s \in Seq(S), NEW j \in DOMAIN s
    PROVE  LET t == RemoveAt(s, j)
           IN  /\ t \in Seq(S)
               /\ Len(t) = Len(s) - 1
               /\ DOMAIN t = 1 .. Len(s) - 1
               /\ \A n \in DOMAIN t : t[n] = IF n < j THEN s[n] ELSE s[n + 1]
               /\ Elems(t) \subseteq Elems(s)
               /\ Elems(s) \subseteq Elems(t) \cup {s[j]}
               /\ NoRepeat(s) => NoRepeat(t) /\ s[j] \notin Elems(t)
<1> DEFINE t == SubSeq(s, 1, j - 1) \o SubSeq(s, j + 1, Len(s))
<1>1. /\ t \in Seq(S)
      /\ Len(t) = Len(s) - 1
      /\ DOMAIN t = 1 .. Len(s) - 1
      /\ \A n \in DOMAIN t : t[n] = IF n < j THEN s[n] ELSE s[n + 1]
  BY RemoveIndex
<1>2. /\ Elems(t) \subseteq Elems(s)
      /\ Elems(s) \subseteq Elems(t) \cup {s[j]}
      /\ NoRepeat(s) => NoRepeat(t) /\ s[j] \notin Elems(t)
  BY RemoveElems
<1>3. RemoveAt(s, j) = t
  BY DEF RemoveAt
<1> HIDE DEF t
<1> QED
  BY <1>1, <1>2, <1>3, Zenon

(* unlink writes prev of the successor and next of the predecessor.        *)
LEMMA UnlinkIs ==
    ASSUME NEW l, ListType(l), NEW w, Linked(l, w), NEW j \in DOMAIN w
    PROVE  LET p == w[j]
               u == unlink(l, p)
           IN  /\ ListType(u) /\ p \in Nodes /\ SameRest(u, l)
               /\ u.prev = [n \in Nodes |->
                     IF n = l.next[p] THEN l.prev[p] ELSE l.prev[n]]
               /\ u.next = [n \in Nodes |->
                     IF n = l.prev[p] THEN l.next[p] ELSE l.next[n]]
<1> DEFINE p == w[j]
           back == Link(l, "prev", l.next[p], l.prev[p])
           u == unlink(l, p)
<1>1. /\ w \in Seq(Nodes) /\ DOMAIN w = 1 .. Len(w) /\ Len(w) \in Nat /\ j \in 1 .. Len(w)
      /\ null \notin Nodes
  BY NodesAssumption DEF Linked, Nodes, null
<1>2. p \in Nodes
  BY <1>1
<1>3. l.next[p] \in NodesOrNull /\ l.prev[p] \in NodesOrNull
  BY <1>2 DEF ListType
<1>4. l.next[p] # p /\ l.prev[p] # p
  BY <1>1, <1>2 DEF Linked, NoRepeat
<1> HIDE DEF p
<1> HIDE DEF back
<1>4a. PICK pn, pp : pn = l.next[p] /\ pp = l.prev[p]
  OBVIOUS
<1>5. /\ ListType(back) /\ back.next = l.next
      /\ back.prev = Put(l.prev, pn, pp) /\ SameRest(back, l)
  BY <1>3, <1>4a, LinkIs DEF back
<1>6. back.prev[p] = pp
  BY <1>2, <1>3, <1>4, <1>4a, <1>5 DEF ListType, Put
<1>7. u = Link(back, "next", pp, pn)
  BY <1>4a, <1>5, <1>6 DEF unlink, back
<1> HIDE DEF u
<1>8. /\ ListType(u) /\ u.next = Put(l.next, pp, pn)
      /\ u.prev = back.prev /\ SameRest(u, back)
  <2>1. pp \in NodesOrNull /\ pn \in NodesOrNull
    BY <1>3, <1>4a
  <2>2. /\ ListType(u) /\ u.next = Put(back.next, pp, pn)
        /\ u.prev = back.prev /\ SameRest(u, back)
    BY <1>5, <1>7, <2>1, LinkIs
  <2> QED
    BY <1>5, <2>2
<1>9. /\ SameRest(u, l)
      /\ u.prev = Put(l.prev, l.next[p], l.prev[p])
      /\ u.next = Put(l.next, l.prev[p], l.next[p])
  BY <1>4a, <1>5, <1>8 DEF SameRest
<1>10. l.next \in [Nodes -> NodesOrNull] /\ l.prev \in [Nodes -> NodesOrNull]
  BY DEF ListType
<1>11. u.prev = [n \in Nodes |-> IF n = l.next[p] THEN l.prev[p] ELSE l.prev[n]]
  BY <1>1, <1>3, <1>9, <1>10 DEF Put
<1>12. u.next = [n \in Nodes |-> IF n = l.prev[p] THEN l.next[p] ELSE l.next[n]]
  BY <1>1, <1>3, <1>9, <1>10 DEF Put
<1> QED
  BY <1>2, <1>8, <1>9, <1>11, <1>12 DEF u, p

(* An entry taken out of the list leaves the others in their order.        *)
LEMMA TakeOutLinked ==
    ASSUME NEW l, ListType(l), NEW w, Linked(l, w), NEW j \in DOMAIN w
    PROVE  LET m == TakeOut(l, w[j])
           IN  /\ ListType(m) /\ Linked(m, RemoveAt(w, j))
               /\ m.used = l.used /\ m.cnt = l.cnt /\ m.data = l.data
<1> DEFINE p == w[j]
           u == unlink(l, p)
           m == TakeOut(l, p)
           t == RemoveAt(w, j)
<1>1. /\ w \in Seq(Nodes) /\ DOMAIN w = 1 .. Len(w) /\ Len(w) \in Nat /\ j \in 1 .. Len(w)
      /\ null \notin Nodes /\ NoRepeat(w) /\ w # <<>>
  BY NodesAssumption DEF Linked, Nodes, null
<1>2. /\ ListType(u) /\ p \in Nodes /\ SameRest(u, l)
      /\ u.used = l.used /\ u.cnt = l.cnt /\ u.data = l.data
      /\ u.head = l.head /\ u.tail = l.tail
      /\ u.prev = [n \in Nodes |-> IF n = l.next[p] THEN l.prev[p] ELSE l.prev[n]]
      /\ u.next = [n \in Nodes |-> IF n = l.prev[p] THEN l.next[p] ELSE l.next[n]]
  <2>1. /\ ListType(u) /\ p \in Nodes /\ SameRest(u, l)
        /\ u.prev = [n \in Nodes |-> IF n = l.next[p] THEN l.prev[p] ELSE l.prev[n]]
        /\ u.next = [n \in Nodes |-> IF n = l.prev[p] THEN l.next[p] ELSE l.next[n]]
    BY UnlinkIs
  <2> QED
    BY <2>1 DEF SameRest
<1>3. /\ t \in Seq(Nodes) /\ NoRepeat(t) /\ Len(t) = Len(w) - 1 /\ DOMAIN t = 1 .. Len(w) - 1
      /\ \A n \in DOMAIN t : t[n] = IF n < j THEN w[n] ELSE w[n + 1]
      /\ t = <<>> <=> Len(w) = 1
  <2>2. NoRepeat(t)
    BY <1>1, RemoveAtIs
  <2>3. /\ t \in Seq(Nodes) /\ Len(t) = Len(w) - 1 /\ DOMAIN t = 1 .. Len(w) - 1
        /\ \A n \in DOMAIN t : t[n] = IF n < j THEN w[n] ELSE w[n + 1]
    BY <1>1, RemoveAtIs
  <2> HIDE DEF t
  <2>4. t = <<>> <=> Len(w) = 1
    BY <1>1, <2>3
  <2> QED
    BY <2>2, <2>3, <2>4
<1>4. /\ \A i \in 1 .. Len(w) : w[i] \in Nodes
      /\ \A i, k \in 1 .. Len(w) : w[i] = w[k] => i = k
      /\ \A i \in 1 .. Len(w) : /\ l.next[w[i]] = IF i = Len(w) THEN null ELSE w[i + 1]
                                /\ l.prev[w[i]] = IF i = 1 THEN null ELSE w[i - 1]
      /\ l.head = w[1] /\ l.tail = w[Len(w)]
  <2> HIDE DEF p, u, t, m
  <2>1. \A i \in 1 .. Len(w) : w[i] \in Nodes
    BY <1>1
  <2>2. \A i, k \in 1 .. Len(w) : w[i] = w[k] => i = k
    BY <1>1 DEF NoRepeat
  <2>3. \A i \in 1 .. Len(w) : /\ l.next[w[i]] = IF i = Len(w) THEN null ELSE w[i + 1]
                               /\ l.prev[w[i]] = IF i = 1 THEN null ELSE w[i - 1]
    BY <1>1 DEF Linked
  <2>4. l.head = w[1] /\ l.tail = w[Len(w)]
    BY <1>1 DEF Linked
  <2> QED
    BY <2>1, <2>2, <2>3, <2>4
<1> HIDE DEF t, u
<1>5. m = [u EXCEPT !.head = IF @ = p THEN u.next[p] ELSE @,
                    !.tail = IF @ = p THEN u.prev[p] ELSE @]
  BY DEF TakeOut, u
<1>6. u.next[p] \in NodesOrNull /\ u.prev[p] \in NodesOrNull
  BY <1>2 DEF ListType
<1> HIDE DEF m
<1>7. /\ ListType(m)
      /\ m.used = l.used /\ m.cnt = l.cnt /\ m.data = l.data
      /\ m.next = u.next /\ m.prev = u.prev
      /\ m.head = IF l.head = p THEN u.next[p] ELSE l.head
      /\ m.tail = IF l.tail = p THEN u.prev[p] ELSE l.tail
  BY <1>2, <1>5, <1>6 DEF ListType
<1>8. /\ l.next[p] = IF j = Len(w) THEN null ELSE w[j + 1]
      /\ l.prev[p] = IF j = 1 THEN null ELSE w[j - 1]
      /\ l.next[p] # p /\ l.prev[p] # p
  <2>1. /\ l.next[p] = IF j = Len(w) THEN null ELSE w[j + 1]
        /\ l.prev[p] = IF j = 1 THEN null ELSE w[j - 1]
    BY <1>1, <1>4
  <2>2. j # Len(w) => j + 1 \in 1 .. Len(w) /\ j + 1 # j
    BY <1>1
  <2>3. j # 1 => j - 1 \in 1 .. Len(w) /\ j - 1 # j
    BY <1>1
  <2>0. p # null
    BY <1>1, <1>2, Zenon
  <2>4. l.next[p] # p
    <3>1. j # Len(w) => w[j + 1] # w[j]
      BY <1>1, <1>4, <2>2, Zenon
    <3> QED
      BY <2>0, <2>1, <3>1
  <2>5. l.prev[p] # p
    <3>1. j # 1 => w[j - 1] # w[j]
      BY <1>1, <1>4, <2>3, Zenon
    <3> QED
      BY <2>0, <2>1, <3>1
  <2> QED
    BY <2>1, <2>4, <2>5
<1>9. u.next[p] = l.next[p] /\ u.prev[p] = l.prev[p]
  BY <1>2, <1>8
<1>10. ASSUME NEW i \in 1 .. Len(w)
       PROVE  /\ u.next[w[i]] = IF i + 1 = j THEN l.next[p] ELSE l.next[w[i]]
              /\ u.prev[w[i]] = IF i = j + 1 THEN l.prev[p] ELSE l.prev[w[i]]
  <2>0. w[i] # null
    <3>1. w[i] \in Nodes
      BY <1>4
    <3>2. null \notin Nodes
      BY <1>1
    <3> QED
      BY <3>1, <3>2
  <2>1. w[i] = l.prev[p] <=> i + 1 = j
    <3>1. CASE j = 1
      BY <1>8, <2>0, <3>1
    <3>2. CASE j # 1
      <4>1. l.prev[p] = w[j - 1] /\ j - 1 \in 1 .. Len(w) /\ (i + 1 = j <=> i = j - 1)
        BY <1>1, <1>8, <3>2
      <4> QED
        BY <1>4, <4>1
    <3> QED
      BY <3>1, <3>2
  <2>2. w[i] = l.next[p] <=> i = j + 1
    <3>1. CASE j = Len(w)
      BY <1>1, <1>8, <2>0, <3>1
    <3>2. CASE j # Len(w)
      <4>1. l.next[p] = w[j + 1] /\ j + 1 \in 1 .. Len(w)
        BY <1>1, <1>8, <3>2
      <4> QED
        BY <1>4, <4>1
    <3> QED
      BY <3>1, <3>2
  <2> QED
    BY <1>2, <1>4, <2>1, <2>2
<1> HIDE DEF p
<1>11. ASSUME NEW n \in DOMAIN t
       PROVE  /\ m.next[t[n]] = IF n = Len(t) THEN null ELSE t[n + 1]
              /\ m.prev[t[n]] = IF n = 1 THEN null ELSE t[n - 1]
  <2>0. n \in 1 .. Len(w) - 1 /\ Len(t) = Len(w) - 1
    BY <1>3
  <2>1. CASE n < j
    <3>1. t[n] = w[n] /\ n \in 1 .. Len(w) /\ n # j + 1
      BY <1>1, <1>3, <2>0, <2>1
    <3>2. m.next[t[n]] = IF n + 1 = j THEN l.next[p] ELSE l.next[w[n]]
      BY <1>7, <1>10, <3>1
    <3>3. m.prev[t[n]] = l.prev[w[n]]
      BY <1>7, <1>10, <3>1
    <3>4. m.prev[t[n]] = IF n = 1 THEN null ELSE t[n - 1]
      <4>1. n # 1 => n - 1 \in DOMAIN t /\ n - 1 < j
        BY <1>1, <1>3, <2>0, <2>1
      <4> QED
        BY <1>3, <1>4, <3>1, <3>3, <4>1
    <3>5. m.next[t[n]] = IF n = Len(t) THEN null ELSE t[n + 1]
      <4>1. CASE n + 1 = j
        <5>1. m.next[t[n]] = l.next[p]
          BY <3>2, <4>1
        <5>2. n = Len(t) <=> j = Len(w)
          BY <1>1, <2>0, <4>1
        <5>3. n # Len(t) => t[n + 1] = w[j + 1]
          <6>1. n # Len(t) => n + 1 \in DOMAIN t /\ ~ (n + 1 < j) /\ (n + 1) + 1 = j + 1
            BY <1>1, <1>3, <2>0, <4>1
          <6> QED
            BY <1>3, <6>1
        <5> QED
          BY <1>8, <5>1, <5>2, <5>3
      <4>2. CASE n + 1 # j
        <5>1. m.next[t[n]] = l.next[w[n]] /\ n + 1 < j /\ n # Len(w) /\ n # Len(t)
          BY <1>1, <2>0, <2>1, <3>2, <4>2
        <5>2. n + 1 \in DOMAIN t
          BY <1>1, <1>3, <2>0, <5>1
        <5> QED
          BY <1>3, <1>4, <3>1, <5>1, <5>2
      <4> QED
        BY <4>1, <4>2
    <3> QED
      BY <3>4, <3>5
  <2>2. CASE ~ (n < j)
    <3>1. t[n] = w[n + 1] /\ n + 1 \in 1 .. Len(w) /\ (n + 1) + 1 # j
      BY <1>1, <1>3, <2>0, <2>2
    <3>2. m.next[t[n]] = l.next[w[n + 1]]
      BY <1>7, <1>10, <3>1
    <3>3. m.prev[t[n]] = IF n + 1 = j + 1 THEN l.prev[p] ELSE l.prev[w[n + 1]]
      BY <1>7, <1>10, <3>1
    <3>4. m.next[t[n]] = IF n = Len(t) THEN null ELSE t[n + 1]
      <4>1. n # Len(t) => n + 1 \in DOMAIN t /\ ~ (n + 1 < j)
        BY <1>1, <1>3, <2>0, <2>2
      <4>2. n = Len(t) <=> n + 1 = Len(w)
        BY <1>1, <2>0
      <4> QED
        BY <1>3, <1>4, <3>1, <3>2, <4>1, <4>2
    <3>5. m.prev[t[n]] = IF n = 1 THEN null ELSE t[n - 1]
      <4>1. CASE n = j
        <5>1. m.prev[t[n]] = IF n = 1 THEN null ELSE w[n - 1]
          BY <1>1, <1>8, <2>0, <3>3, <4>1
        <5>2. n # 1 => n - 1 \in DOMAIN t /\ n - 1 < j
          BY <1>1, <1>3, <2>0, <4>1
        <5> QED
          BY <1>3, <5>1, <5>2
      <4>2. CASE n # j
        <5>1. m.prev[t[n]] = l.prev[w[n + 1]] /\ n # 1 /\ n + 1 # 1 /\ (n + 1) - 1 = n
          BY <1>1, <2>0, <2>2, <3>3, <4>2
        <5>2. n - 1 \in DOMAIN t /\ ~ (n - 1 < j) /\ (n - 1) + 1 = n
          BY <1>1, <1>3, <2>0, <2>2, <4>2
        <5>3. m.prev[t[n]] = w[n]
          BY <1>4, <3>1, <5>1
        <5>4. t[n - 1] = w[n]
          BY <1>3, <5>2
        <5> QED
          BY <5>1, <5>3, <5>4
      <4> QED
        BY <4>1, <4>2
    <3> QED
      BY <3>4, <3>5
  <2> QED
    BY <2>1, <2>2
<1>12. m.head = IF t = <<>> THEN null ELSE t[1]
  <2>1. l.head = p <=> j = 1
    <3>1. 1 \in 1 .. Len(w)
      BY <1>1
    <3> QED
      BY <1>1, <1>4, <3>1 DEF p
  <2>2. t # <<>> => 1 \in DOMAIN t /\ Len(w) # 1
    BY <1>1, <1>3
  <2>3. CASE j = 1
    <3>1. m.head = IF 1 = Len(w) THEN null ELSE w[2]
      BY <1>7, <1>8, <1>9, <2>1, <2>3
    <3>2. t # <<>> => t[1] = w[2]
      BY <1>3, <2>2, <2>3
    <3> QED
      BY <1>3, <3>1, <3>2
  <2>4. CASE j # 1
    <3>1. t # <<>> /\ 1 < j
      BY <1>1, <1>3, <2>4
    <3> QED
      BY <1>3, <1>4, <1>7, <2>1, <2>2, <2>4, <3>1
  <2> QED
    BY <2>3, <2>4
<1>13. m.tail = IF t = <<>> THEN null ELSE t[Len(t)]
  <2>1. l.tail = p <=> j = Len(w)
    <3>1. Len(w) \in 1 .. Len(w)
      BY <1>1
    <3> QED
      BY <1>1, <1>4, <3>1 DEF p
  <2>2. t # <<>> => Len(t) \in DOMAIN t /\ Len(w) # 1
    BY <1>1, <1>3
  <2>3. CASE j = Len(w)
    <3>1. m.tail = IF j = 1 THEN null ELSE w[j - 1]
      BY <1>7, <1>8, <1>9, <2>1, <2>3
    <3>2. t # <<>> => t[Len(t)] = w[j - 1]
      <4>1. t # <<>> => Len(t) < j /\ Len(t) = j - 1
        BY <1>1, <1>3, <2>3
      <4> QED
        BY <1>3, <2>2, <4>1
    <3> QED
      BY <1>1, <1>3, <2>3, <3>1, <3>2
  <2>4. CASE j # Len(w)
    <3>1. m.tail = w[Len(w)]
      BY <1>4, <1>7, <2>1, <2>4
    <3>2. t # <<>> /\ ~ (Len(t) < j) /\ Len(t) + 1 = Len(w)
      BY <1>1, <1>3, <2>4
    <3> QED
      BY <1>3, <2>2, <3>1, <3>2
  <2> QED
    BY <2>3, <2>4
<1>14. Linked(m, t)
  BY <1>3, <1>11, <1>12, <1>13 DEF Linked
<1> QED
  BY <1>7, <1>14 DEF m, t, p

(* A list is as good as another that agrees with it on its entries.        *)
LEMMA SameLinks ==
    ASSUME NEW l, NEW m, NEW w, Linked(l, w),
           m.head = l.head, m.tail = l.tail,
           \A n \in Elems(w) : m.next[n] = l.next[n] /\ m.prev[n] = l.prev[n]
    PROVE  Linked(m, w)
<1>1. \A i \in DOMAIN w : w[i] \in Elems(w)
  BY DEF Elems
<1>2. \A i \in DOMAIN w : m.next[w[i]] = l.next[w[i]] /\ m.prev[w[i]] = l.prev[w[i]]
  BY <1>1
<1>3. \A i \in DOMAIN w :
          /\ m.next[w[i]] = IF i = Len(w) THEN null ELSE w[i + 1]
          /\ m.prev[w[i]] = IF i = 1 THEN null ELSE w[i - 1]
  BY <1>2, Zenon DEF Linked
<1> QED
  BY <1>3 DEF Linked

(* The first and the last entry.                                           *)
LEMMA Ends ==
    ASSUME NEW l, NEW w, Linked(l, w)
    PROVE  /\ null \notin Nodes
           /\ w \in Seq(Nodes) /\ Len(w) \in Nat /\ DOMAIN w = 1 .. Len(w)
           /\ w = <<>> => l.head = null /\ l.tail = null
           /\ w # <<>> => /\ 1 \in DOMAIN w /\ Len(w) \in DOMAIN w
                          /\ l.head = w[1] /\ l.tail = w[Len(w)]
                          /\ l.head \in Nodes /\ l.tail \in Nodes
                          /\ l.head # null /\ l.tail # null
<1>1. null \notin Nodes /\ w \in Seq(Nodes) /\ Len(w) \in Nat /\ DOMAIN w = 1 .. Len(w)
  BY NodesAssumption DEF Linked, Nodes, null
<1>2. w = <<>> => l.head = null /\ l.tail = null
  BY DEF Linked
<1>3. ASSUME w # <<>>
      PROVE  /\ 1 \in DOMAIN w /\ Len(w) \in DOMAIN w
             /\ l.head = w[1] /\ l.tail = w[Len(w)]
  <2>1. 1 \in DOMAIN w /\ Len(w) \in DOMAIN w
    BY <1>1, <1>3
  <2> QED
    BY <1>3, <2>1 DEF Linked
<1>4. \A i \in DOMAIN w : w[i] \in Nodes
  BY <1>1
<1>5. \A i \in DOMAIN w : w[i] # null
  BY <1>1, <1>4, Zenon
<1> QED
  BY <1>1, <1>2, <1>3, <1>4, <1>5

(* An entry put in front of a list that has one.                           *)
LEMMA FrontLinked ==
    ASSUME NEW l, ListType(l), NEW w, Linked(l, w), w # <<>>,
           NEW p \in Nodes, p \notin Elems(w), l.next[p] = null, l.prev[p] = null
    PROVE  LET m == [set_from_head(l, p, l.head) EXCEPT !.head = p]
           IN  /\ ListType(m) /\ Linked(m, <<p>> \o w)
               /\ m.used = l.used /\ m.cnt = l.cnt /\ m.data = l.data
<1> DEFINE h == w[1]
           b == Link(l, "prev", h, p)
           c == Link(b, "next", p, h)
           m == [c EXCEPT !.head = p]
           t == <<p>> \o w
<1>1. /\ null \notin Nodes
      /\ w \in Seq(Nodes) /\ Len(w) \in Nat \ {0} /\ DOMAIN w = 1 .. Len(w) /\ NoRepeat(w)
      /\ l.head = h /\ l.tail = w[Len(w)] /\ h \in Nodes /\ h # null
      /\ h \in NodesOrNull /\ p \in NodesOrNull /\ p # null
  <2>1. w \in Seq(Nodes) /\ Len(w) # 0 /\ NoRepeat(w)
    BY DEF Linked
  <2> QED
    BY <2>1, Ends DEF NodesOrNull
<1> HIDE DEF h
<1>2. /\ ListType(b) /\ b.prev = Put(l.prev, h, p) /\ b.next = l.next /\ SameRest(b, l)
  BY <1>1, LinkIs
<1> HIDE DEF b
<1>3. /\ ListType(c) /\ c.next = Put(b.next, p, h) /\ c.prev = b.prev /\ SameRest(c, b)
  BY <1>1, <1>2, LinkIs
<1>4. set_from_head(l, p, l.head) = c
  BY <1>1 DEF set_from_head, c, b
<1> HIDE DEF c
<1>5. /\ ListType(m) /\ m.head = p /\ m.tail = c.tail /\ m.next = c.next /\ m.prev = c.prev
      /\ m.used = c.used /\ m.cnt = c.cnt /\ m.data = c.data
  BY <1>1, <1>3 DEF ListType
<1> HIDE DEF m
<1>6. /\ m.tail = l.tail /\ m.used = l.used /\ m.cnt = l.cnt /\ m.data = l.data
      /\ m.next = Put(l.next, p, h) /\ m.prev = Put(l.prev, h, p)
  BY <1>2, <1>3, <1>5 DEF SameRest
<1>7. /\ m.next = [n \in Nodes |-> IF n = p THEN h ELSE l.next[n]]
      /\ m.prev = [n \in Nodes |-> IF n = h THEN p ELSE l.prev[n]]
  <2>1. l.next \in [Nodes -> NodesOrNull] /\ l.prev \in [Nodes -> NodesOrNull]
    BY DEF ListType
  <2> QED
    BY <1>1, <1>6, <2>1 DEF Put
<1>8. /\ t \in Seq(Nodes) /\ Len(t) = Len(w) + 1 /\ DOMAIN t = 1 .. Len(w) + 1
      /\ t[1] = p /\ \A n \in DOMAIN w : t[n + 1] = w[n]
      /\ NoRepeat(t)
  BY <1>1, ConsElems
<1> HIDE DEF t
<1>9. \A i \in DOMAIN w : w[i] \in Nodes /\ w[i] # p /\ (w[i] = h <=> i = 1)
  <2>1. \A i \in DOMAIN w : w[i] \in Nodes /\ w[i] # p
    BY <1>1 DEF Elems
  <2>2. \A i \in DOMAIN w : (w[i] = h <=> i = 1)
    BY <1>1 DEF NoRepeat, h
  <2> QED
    BY <2>1, <2>2
<1>10. ASSUME NEW i \in DOMAIN w
       PROVE  /\ m.next[w[i]] = IF i = Len(w) THEN null ELSE w[i + 1]
              /\ m.prev[w[i]] = IF i = 1 THEN p ELSE w[i - 1]
  <2>1. /\ l.next[w[i]] = IF i = Len(w) THEN null ELSE w[i + 1]
        /\ l.prev[w[i]] = IF i = 1 THEN null ELSE w[i - 1]
    BY DEF Linked
  <2>2. m.next[w[i]] = l.next[w[i]]
    BY <1>7, <1>9
  <2>3. m.prev[w[i]] = IF i = 1 THEN p ELSE l.prev[w[i]]
    BY <1>7, <1>9
  <2> QED
    BY <2>1, <2>2, <2>3
<1>11. m.next[p] = h /\ m.prev[p] = null
  BY <1>1, <1>7, <1>9 DEF h
<1>12. ASSUME NEW n \in DOMAIN t
       PROVE  /\ m.next[t[n]] = IF n = Len(t) THEN null ELSE t[n + 1]
              /\ m.prev[t[n]] = IF n = 1 THEN null ELSE t[n - 1]
  <2>1. CASE n = 1
    <3>1. t[2] = h /\ n # Len(t)
      BY <1>1, <1>8, <2>1 DEF h
    <3> QED
      BY <1>8, <1>11, <2>1, <3>1
  <2>2. CASE n # 1
    <3>1. PICK i : i = n - 1
      OBVIOUS
    <3>2. i \in DOMAIN w /\ n = i + 1 /\ t[n] = w[i] /\ (n = Len(t) <=> i = Len(w))
      BY <1>1, <1>8, <2>2, <3>1
    <3>3. m.next[t[n]] = IF n = Len(t) THEN null ELSE t[n + 1]
      <4>1. i # Len(w) => i + 1 \in DOMAIN w /\ t[n + 1] = w[i + 1]
        BY <1>1, <1>8, <3>2
      <4> QED
        BY <1>10, <3>2, <4>1
    <3>4. m.prev[t[n]] = t[n - 1]
      <4>1. CASE i = 1
        BY <1>8, <1>10, <3>2, <4>1
      <4>2. CASE i # 1
        <5>1. i - 1 \in DOMAIN w /\ n - 1 = (i - 1) + 1
          BY <1>1, <3>2, <4>2
        <5>2. t[n - 1] = w[i - 1]
          BY <1>8, <5>1
        <5> QED
          BY <1>10, <3>2, <4>2, <5>2
      <4> QED
        BY <4>1, <4>2
    <3> QED
      BY <2>2, <3>3, <3>4
  <2> QED
    BY <2>1, <2>2
<1>13. m.head = t[1] /\ m.tail = t[Len(t)] /\ t # <<>>
  <2>1. Len(w) \in DOMAIN w /\ t[Len(w) + 1] = w[Len(w)]
    BY <1>1, <1>8
  <2> QED
    BY <1>1, <1>5, <1>6, <1>8, <2>1
<1>14. Linked(m, t)
  BY <1>8, <1>12, <1>13 DEF Linked
<1> QED
  BY <1>4, <1>5, <1>6, <1>14 DEF m, t

-----------------------------------------------------------------------------
(* The operations of a list                                                *)

(* The list l with entries w, as every operation leaves it.                *)
Rep(l, w) == ListType(l) /\ Linked(l, w) /\ l.used = Elems(w) /\ l.cnt = Len(w)

(* A new set.                                                              *)
LEMMA EmptyRep == Rep(EmptyList, <<>>)
<1>1. ListType(EmptyList)
  BY DEF EmptyList, ListType, NodesOrNull
<1>2. <<>> \in Seq(Nodes) /\ NoRepeat(<<>>) /\ Elems(<<>>) = {} /\ DOMAIN <<>> = {} /\ Len(<<>>) = 0
  BY DEF NoRepeat, Elems
<1>3. Linked(EmptyList, <<>>)
  BY <1>2 DEF EmptyList, Linked
<1> QED
  BY <1>1, <1>2, <1>3 DEF EmptyList, Rep

(* The pool has room for a list that is shorter than it.                   *)
LEMMA FreeNode ==
    ASSUME NEW l, NEW w, Rep(l, w), Len(w) < MaxNodes
    PROVE  FirstFree(l) \in Nodes \ Elems(w)
<1>1. w \in Seq(Nodes) /\ l.used = Elems(w) /\ Len(w) \in Nat
  BY DEF Rep, Linked
<1>2. IsFiniteSet(Elems(w)) /\ Cardinality(Elems(w)) <= Len(w)
  BY <1>1, ElemsBound
<1>3. IsFiniteSet(Nodes) /\ Cardinality(Nodes) = MaxNodes
  BY NodesAssumption, FS_Interval DEF Nodes
<1>4. Nodes \ Elems(w) # {}
  <2> SUFFICES ASSUME Nodes \ Elems(w) = {} PROVE FALSE
    OBVIOUS
  <2>1. Nodes \subseteq Elems(w)
    OBVIOUS
  <2>2. Cardinality(Nodes) <= Cardinality(Elems(w))
    BY <1>2, <2>1, FS_Subset
  <2>3. Cardinality(Elems(w)) \in Nat
    BY <1>2, FS_CardinalityType
  <2> QED
    BY NodesAssumption, <1>1, <1>2, <1>3, <2>2, <2>3
<1>5. Nodes \ Elems(w) \in SUBSET Nat
  BY DEF Nodes
<1>6. \E n \in Nodes \ Elems(w) : \A i \in Nodes \ Elems(w) : n <= i
  BY <1>4, <1>5, Least
<1> QED
  BY <1>1, <1>6 DEF FirstFree

(* push_front makes a new entry the first.                                 *)
LEMMA PushRep ==
    ASSUME NEW l, NEW w, Rep(l, w), Len(w) < MaxNodes, NEW v \in Nat
    PROVE  LET n == FirstFree(l)
               m == push_front(l, v)
           IN  /\ n \in Nodes \ Elems(w)
               /\ Rep(m, <<n>> \o w)
               /\ m.data = [l.data EXCEPT ![n] = v]
<1> DEFINE n == FirstFree(l)
           a == [alloc(l, v) EXCEPT !.cnt = @ + 1]
           t == <<n>> \o w
           m == push_front(l, v)
<1>1. n \in Nodes \ Elems(w)
  BY FreeNode
<1>2. ListType(l) /\ Linked(l, w) /\ l.used = Elems(w) /\ l.cnt = Len(w) /\ w \in Seq(Nodes)
  BY DEF Rep, Linked
<1> HIDE DEF n
<1>3. a = [l EXCEPT !.used = @ \cup {n}, !.data[n] = v, !.next[n] = null, !.prev[n] = null,
                    !.cnt = @ + 1]
  BY <1>2 DEF alloc, n, ListType
<1> HIDE DEF a
<1>4. /\ a.used = l.used \cup {n} /\ a.data = [l.data EXCEPT ![n] = v]
      /\ a.next = [l.next EXCEPT ![n] = null] /\ a.prev = [l.prev EXCEPT ![n] = null]
      /\ a.cnt = l.cnt + 1 /\ a.head = l.head /\ a.tail = l.tail
      /\ a = [next |-> a.next, prev |-> a.prev, data |-> a.data, used |-> a.used,
              head |-> a.head, tail |-> a.tail, cnt |-> a.cnt]
  BY <1>2, <1>3 DEF ListType
<1>5. ListType(a)
  <2>1. /\ l.next \in [Nodes -> NodesOrNull] /\ l.prev \in [Nodes -> NodesOrNull]
        /\ l.data \in [Nodes -> Nat] /\ l.used \in SUBSET Nodes
        /\ l.head \in NodesOrNull /\ l.tail \in NodesOrNull /\ l.cnt \in Nat
    BY <1>2 DEF ListType
  <2>2. /\ a.next \in [Nodes -> NodesOrNull] /\ a.prev \in [Nodes -> NodesOrNull]
        /\ a.data \in [Nodes -> Nat] /\ a.used \in SUBSET Nodes
        /\ a.head \in NodesOrNull /\ a.tail \in NodesOrNull /\ a.cnt \in Nat
    BY <1>1, <1>4, <2>1 DEF NodesOrNull
  <2> QED
    BY <1>4, <2>2 DEF ListType
<1>6. Linked(a, w)
  <2>1. \A i \in Elems(w) : a.next[i] = l.next[i] /\ a.prev[i] = l.prev[i]
    <3>1. \A i \in Elems(w) : i \in Nodes /\ i # n
      BY <1>1, <1>2 DEF Elems
    <3>2. l.next \in [Nodes -> NodesOrNull] /\ l.prev \in [Nodes -> NodesOrNull]
      BY <1>2 DEF ListType
    <3> QED
      BY <1>4, <3>1, <3>2
  <2>2. a.head = l.head /\ a.tail = l.tail /\ Linked(l, w)
    BY <1>2, <1>4
  <2> QED
    BY <2>1, <2>2, SameLinks, Zenon
<1>7. a.next[n] = null /\ a.prev[n] = null
  BY <1>1, <1>2, <1>4 DEF ListType
<1>8. /\ t \in Seq(Nodes) /\ NoRepeat(t) /\ Elems(t) = Elems(w) \cup {n}
      /\ Len(t) = Len(w) + 1 /\ DOMAIN t = 1 .. Len(w) + 1 /\ t[1] = n
  <2>1. w \in Seq(Nodes) /\ n \in Nodes /\ n \notin Elems(w) /\ NoRepeat(w)
    BY <1>1, <1>2 DEF Linked
  <2> QED
    BY <2>1, ConsElems
<1>9. /\ null \notin Nodes /\ Len(w) \in Nat
      /\ w = <<>> <=> l.head = null /\ l.tail = null
  BY <1>2, Ends
<1>10. CASE w # <<>>
  <2>1. m = [set_from_head(a, n, l.head) EXCEPT !.head = n]
    BY <1>9, <1>10 DEF push_front, a, n
  <2>2. LET b == [set_from_head(a, n, a.head) EXCEPT !.head = n]
        IN  /\ ListType(b) /\ Linked(b, t)
            /\ b.used = a.used /\ b.cnt = a.cnt /\ b.data = a.data
    BY <1>1, <1>5, <1>6, <1>7, <1>10, FrontLinked
  <2>3. /\ ListType(m) /\ Linked(m, t)
        /\ m.used = a.used /\ m.cnt = a.cnt /\ m.data = a.data
    BY <1>4, <2>1, <2>2
  <2>4. m.used = Elems(t) /\ m.cnt = Len(t) /\ m.data = [l.data EXCEPT ![n] = v]
    BY <1>2, <1>4, <1>8, <2>3
  <2> HIDE DEF m, t
  <2>5. Rep(m, t)
    BY <2>3, <2>4 DEF Rep
  <2> QED
    BY <1>1, <2>4, <2>5 DEF m, t, n
<1>11. CASE w = <<>>
  <2>1. m = [a EXCEPT !.head = n, !.tail = n]
    BY <1>9, <1>11 DEF push_front, a, n
  <2> HIDE DEF m
  <2>2. /\ ListType(m) /\ m.head = n /\ m.tail = n
        /\ m.next = a.next /\ m.prev = a.prev
        /\ m.used = a.used /\ m.cnt = a.cnt /\ m.data = a.data
    BY <1>1, <1>5, <2>1 DEF ListType, NodesOrNull
  <2> HIDE DEF t
  <2>3. Len(t) = 1 /\ DOMAIN t = 1 .. 1 /\ t # <<>>
    <3>1. Len(w) = 0
      BY <1>11
    <3>2. t \in Seq(Nodes) /\ Len(t) = 1 /\ DOMAIN t = 1 .. 1
      <4>1. Len(w) + 1 = 1
        BY <3>1
      <4> QED
        BY <1>8, <4>1
    <3> QED
      BY <3>2
  <2>4. m.next[n] = null /\ m.prev[n] = null
    BY <1>7, <2>2
  <2>5. Linked(m, t)
    <3>1. t[Len(t)] = n
      BY <1>8, <2>3
    <3>2. \A i \in DOMAIN t : i = 1 /\ i = Len(t) /\ t[i] = n
      <4>1. \A i \in 1 .. 1 : i = 1
        OBVIOUS
      <4> QED
        BY <1>8, <2>3, <4>1, Zenon
    <3>3. \A i \in DOMAIN t :
              /\ m.next[t[i]] = IF i = Len(t) THEN null ELSE t[i + 1]
              /\ m.prev[t[i]] = IF i = 1 THEN null ELSE t[i - 1]
      BY <2>4, <3>2
    <3> QED
      BY <1>8, <2>2, <2>3, <3>1, <3>3 DEF Linked
  <2>6. m.used = Elems(t) /\ m.cnt = Len(t) /\ m.data = [l.data EXCEPT ![n] = v]
    BY <1>2, <1>4, <1>8, <1>9, <2>2
  <2>7. Rep(m, t)
    BY <2>2, <2>5, <2>6 DEF Rep
  <2> QED
    BY <1>1, <2>6, <2>7 DEF m, t, n
<1> QED
  BY <1>10, <1>11

(* erase takes one entry out and gives its node back.                      *)
LEMMA EraseRep ==
    ASSUME NEW l, NEW w, Rep(l, w), NEW j \in DOMAIN w
    PROVE  LET m == erase(l, w[j])
           IN  /\ Rep(m, RemoveAt(w, j))
               /\ \A n \in Nodes : n # w[j] => m.data[n] = l.data[n]
<1> DEFINE p == w[j]
           o == TakeOut(l, p)
           t == RemoveAt(w, j)
           m == erase(l, p)
<1>1. ListType(l) /\ Linked(l, w) /\ l.used = Elems(w) /\ l.cnt = Len(w) /\ w \in Seq(Nodes)
  BY DEF Rep, Linked
<1>2. p \in Nodes /\ p # null /\ p \in Elems(w) /\ Len(w) \in Nat /\ Len(w) # 0
  <2>1. p \in Nodes /\ p \in Elems(w) /\ Len(w) \in Nat /\ Len(w) # 0
    BY <1>1 DEF Elems
  <2>2. null \notin Nodes
    BY <1>1, Ends
  <2> QED
    BY <2>1, <2>2, Zenon
<1>3. /\ ListType(o) /\ Linked(o, t)
      /\ o.used = l.used /\ o.cnt = l.cnt /\ o.data = l.data
  BY <1>1, TakeOutLinked
<1>4. /\ Len(t) = Len(w) - 1 /\ Elems(t) = Elems(w) \ {p} /\ t \in Seq(Nodes)
  <2>1. NoRepeat(w)
    BY <1>1 DEF Linked
  <2>2. /\ Len(t) = Len(w) - 1 /\ t \in Seq(Nodes)
        /\ Elems(t) \subseteq Elems(w) /\ Elems(w) \subseteq Elems(t) \cup {p} /\ p \notin Elems(t)
    BY <1>1, <2>1, RemoveAtIs
  <2> QED
    BY <2>2
<1>5. m = free(o, p)
  BY <1>2 DEF erase
<1> HIDE DEF p, o, t, m
<1>6. /\ m.used = o.used \ {p} /\ m.cnt = o.cnt - 1
      /\ m.data = [o.data EXCEPT ![p] = 0]
      /\ m.next = [o.next EXCEPT ![p] = null] /\ m.prev = [o.prev EXCEPT ![p] = null]
      /\ m.head = o.head /\ m.tail = o.tail
      /\ m = [next |-> m.next, prev |-> m.prev, data |-> m.data, used |-> m.used,
              head |-> m.head, tail |-> m.tail, cnt |-> m.cnt]
  BY <1>3, <1>5 DEF free, ListType
<1>7. ListType(m)
  <2>1. /\ o.next \in [Nodes -> NodesOrNull] /\ o.prev \in [Nodes -> NodesOrNull]
        /\ o.data \in [Nodes -> Nat] /\ o.used \in SUBSET Nodes
        /\ o.head \in NodesOrNull /\ o.tail \in NodesOrNull
    BY <1>3 DEF ListType
  <2>2. o.cnt - 1 \in Nat
    BY <1>1, <1>2, <1>3
  <2>3. /\ m.next \in [Nodes -> NodesOrNull] /\ m.prev \in [Nodes -> NodesOrNull]
        /\ m.data \in [Nodes -> Nat] /\ m.used \in SUBSET Nodes
        /\ m.head \in NodesOrNull /\ m.tail \in NodesOrNull /\ m.cnt \in Nat
    BY <1>2, <1>6, <2>1, <2>2 DEF NodesOrNull
  <2> QED
    BY <1>6, <2>3 DEF ListType
<1>8. Linked(m, t)
  <2>1. \A i \in Elems(t) : i \in Nodes /\ i # p
    BY <1>1, <1>4 DEF Elems
  <2>2. \A i \in Elems(t) : m.next[i] = o.next[i] /\ m.prev[i] = o.prev[i]
    BY <1>3, <1>6, <2>1 DEF ListType
  <2> QED
    BY <1>3, <1>6, <2>2, SameLinks, ZenonT(40)
<1>9. m.used = Elems(t) /\ m.cnt = Len(t)
  BY <1>1, <1>2, <1>3, <1>4, <1>6
<1>10. \A n \in Nodes : n # p => m.data[n] = l.data[n]
  BY <1>3, <1>6 DEF ListType
<1>11. Rep(m, t)
  BY <1>7, <1>8, <1>9 DEF Rep
<1> QED
  BY <1>10, <1>11 DEF m, t, p

(* pop_back does the same to the last of several; of a single one it would *)
(* leave head behind (sim_cache.hh:100).                                   *)
LEMMA PopIsErase ==
    ASSUME NEW l, NEW w, Rep(l, w), Len(w) >= 2
    PROVE  pop_back(l) = erase(l, w[Len(w)])
<1>1. ListType(l) /\ Linked(l, w) /\ w \in Seq(Nodes) /\ w # <<>> /\ Len(w) \in Nat
  BY DEF Rep, Linked
<1>2. l.tail = w[Len(w)] /\ l.tail # null /\ l.head = w[1] /\ Len(w) \in DOMAIN w /\ 1 \in DOMAIN w
  BY <1>1, Ends
<1>3. l.head # l.tail
  BY <1>1, <1>2 DEF Linked, NoRepeat
<1>4. PICK u : u = unlink(l, l.tail)
  OBVIOUS
<1>5. ListType(u) /\ u.head = l.head /\ u.tail = l.tail
  <2>1. PICK j \in DOMAIN w : j = Len(w)
    BY <1>2
  <2>2. PICK v : v = unlink(l, w[j])
    OBVIOUS
  <2>3. ListType(v) /\ v.head = l.head /\ v.tail = l.tail
    <3>1. ListType(unlink(l, w[j]))
      BY <1>1, UnlinkIs
    <3>2. SameRest(unlink(l, w[j]), l)
      BY <1>1, UnlinkIs
    <3> QED
      BY <2>2, <3>1, <3>2 DEF SameRest
  <2> QED
    BY <1>2, <1>4, <2>1, <2>2, <2>3
<1>6. TakeOut(l, l.tail) = [u EXCEPT !.tail = u.prev[l.tail]]
  BY <1>3, <1>4, <1>5 DEF TakeOut, ListType
<1> QED
  BY <1>2, <1>4, <1>6 DEF pop_back, erase

(* Evicting the last of several entries.                                   *)
LEMMA PopRep ==
    ASSUME NEW l, NEW w, Rep(l, w), Len(w) >= 2
    PROVE  LET m == pop_back(l)
           IN  /\ Rep(m, RemoveAt(w, Len(w)))
               /\ \A n \in Nodes : n # w[Len(w)] => m.data[n] = l.data[n]
<1>1. w \in Seq(Nodes) /\ Len(w) \in Nat
  BY DEF Rep, Linked
<1>2. PICK j \in DOMAIN w : j = Len(w)
  BY <1>1
<1>3. LET m == erase(l, w[j])
      IN  /\ Rep(m, RemoveAt(w, j))
          /\ \A n \in Nodes : n # w[j] => m.data[n] = l.data[n]
  BY EraseRep
<1> QED
  BY <1>2, <1>3, PopIsErase

(* A hit moves its entry to the front.                                     *)
LEMMA MoveRep ==
    ASSUME NEW l, NEW w, Rep(l, w), NEW j \in DOMAIN w
    PROVE  LET m == move_to_head(l, w[j])
           IN  Rep(m, <<w[j]>> \o RemoveAt(w, j)) /\ m.data = l.data
<1> DEFINE p == w[j]
           o == TakeOut(l, p)
           r == RemoveAt(w, j)
           t == <<p>> \o r
           m == move_to_head(l, p)
           out == [o EXCEPT !.next[p] = null, !.prev[p] = null]
<1>1. /\ ListType(l) /\ Linked(l, w) /\ l.used = Elems(w) /\ l.cnt = Len(w)
      /\ w \in Seq(Nodes) /\ NoRepeat(w) /\ Len(w) \in Nat /\ DOMAIN w = 1 .. Len(w)
      /\ j \in 1 .. Len(w) /\ p \in Nodes /\ p \in Elems(w)
  BY DEF Rep, Linked, Elems
<1>2. /\ r \in Seq(Nodes) /\ Len(r) = Len(w) - 1
      /\ Elems(r) \subseteq Elems(w) /\ Elems(w) \subseteq Elems(r) \cup {p}
      /\ p \notin Elems(r)
  BY <1>1, RemoveAtIs
<1>3. ListType(o) /\ Linked(o, r) /\ o.used = l.used /\ o.cnt = l.cnt /\ o.data = l.data
  BY <1>1, TakeOutLinked
<1> HIDE DEF p, r, o
<1>4. /\ t \in Seq(Nodes) /\ Len(t) = Len(w) /\ DOMAIN t = 1 .. Len(w)
      /\ t[1] = p /\ Elems(t) = Elems(w)
  <2>1. Len(t) = Len(r) + 1 /\ DOMAIN t = 1 .. Len(r) + 1 /\ t \in Seq(Nodes) /\ t[1] = p
    <3>1. p \in Nodes /\ r \in Seq(Nodes)
      BY <1>1, <1>2
    <3> QED
      BY <3>1, ConsElems DEF t
  <2>2. Elems(t) = Elems(r) \cup {p}
    BY <1>1, <1>2, ConsElems
  <2>3. Len(r) + 1 = Len(w) /\ 1 .. Len(r) + 1 = 1 .. Len(w)
    BY <1>1, <1>2
  <2>4. Elems(t) = Elems(w)
    BY <1>1, <1>2, <2>2
  <2> QED
    BY <2>1, <2>3, <2>4
<1> HIDE DEF t
<1>5. CASE l.cnt <= 1
  <2>1. m = l
    BY <1>5 DEF move_to_head
  <2>2. Len(w) = 1 /\ j = 1
    BY <1>1, <1>5
  <2>3. t = w
    <3>1. w[1] = p
      BY <2>2 DEF p
    <3>2. \A i \in 1 .. 1 : i = 1
      OBVIOUS
    <3>3. \A i \in 1 .. 1 : t[i] = w[i]
      BY <1>4, <3>1, <3>2
    <3>4. DOMAIN t = 1 .. 1 /\ DOMAIN w = 1 .. 1
      BY <1>1, <1>4, <2>2
    <3> QED
      BY <1>1, <1>4, <3>3, <3>4
  <2>4. Rep(m, t) /\ m.data = l.data
    BY <2>1, <2>3
  <2> QED
    BY <2>4 DEF m, t, r, p
<1>6. CASE ~ (l.cnt <= 1)
  <2>1. m = [set_from_head(out, p, out.head) EXCEPT !.head = p]
    BY <1>6 DEF move_to_head, o
  <2>1a. out = [o EXCEPT !.next[p] = null, !.prev[p] = null]
    OBVIOUS
  <2>2. /\ out.next = [o.next EXCEPT ![p] = null] /\ out.prev = [o.prev EXCEPT ![p] = null]
        /\ out.head = o.head /\ out.tail = o.tail
        /\ out.used = o.used /\ out.cnt = o.cnt /\ out.data = o.data
        /\ out = [next |-> out.next, prev |-> out.prev, data |-> out.data, used |-> out.used,
                  head |-> out.head, tail |-> out.tail, cnt |-> out.cnt]
    <3> HIDE DEF out
    <3> QED
      BY <1>3, <2>1a DEF ListType
  <2> HIDE DEF out, m
  <2>3. ListType(out)
    <3>1. /\ o.next \in [Nodes -> NodesOrNull] /\ o.prev \in [Nodes -> NodesOrNull]
          /\ o.data \in [Nodes -> Nat] /\ o.used \in SUBSET Nodes
          /\ o.head \in NodesOrNull /\ o.tail \in NodesOrNull /\ o.cnt \in Nat
      BY <1>3 DEF ListType
    <3>2. out.next \in [Nodes -> NodesOrNull] /\ out.prev \in [Nodes -> NodesOrNull]
      BY <2>2, <3>1 DEF NodesOrNull
    <3> QED
      BY <2>2, <3>1, <3>2 DEF ListType
  <2>4. Linked(out, r)
    <3>1. \A i \in Elems(r) : i \in Nodes /\ i # p
      BY <1>2 DEF Elems
    <3>2. \A i \in Elems(r) : out.next[i] = o.next[i] /\ out.prev[i] = o.prev[i]
      BY <1>3, <2>2, <3>1 DEF ListType
    <3> QED
      BY <1>3, <2>2, <3>2, SameLinks, ZenonT(40)
  <2>5. out.next[p] = null /\ out.prev[p] = null
    BY <1>1, <1>3, <2>2 DEF ListType
  <2>6. r # <<>>
    BY <1>1, <1>2, <1>6
  <2>7. LET b == [set_from_head(out, p, out.head) EXCEPT !.head = p]
        IN  /\ ListType(b) /\ Linked(b, <<p>> \o r)
            /\ b.used = out.used /\ b.cnt = out.cnt /\ b.data = out.data
    BY <1>1, <1>2, <2>3, <2>4, <2>5, <2>6, FrontLinked
  <2>8. /\ ListType(m) /\ Linked(m, t)
        /\ m.used = out.used /\ m.cnt = out.cnt /\ m.data = out.data
    BY <2>1, <2>7 DEF t
  <2>9. m.used = Elems(t) /\ m.cnt = Len(t) /\ m.data = l.data
    BY <1>1, <1>3, <1>4, <2>2, <2>8
  <2>10. Rep(m, t)
    BY <2>8, <2>9 DEF Rep
  <2> QED
    BY <2>9, <2>10 DEF m, t, r, p
<1> QED
  BY <1>5, <1>6

(* The walk of find() and clear() meets the entries in their order.        *)
LEMMA WalkRep ==
    ASSUME NEW l, NEW w, Rep(l, w), Len(w) <= MaxNodes
    PROVE  /\ WalkTo(l) = [i \in 0 .. MaxNodes |-> IF i < Len(w) THEN w[i + 1] ELSE null]
           /\ WalkLength(l) = Len(w)
           /\ Tags(l) = [i \in 1 .. Len(w) |-> l.data[w[i]]]
<1> DEFINE step(a, i) == IF i = 0 THEN l.head
                         ELSE IF a[i - 1] = null THEN null ELSE l.next[a[i - 1]]
           Is(a) == a = [i \in 0 .. MaxNodes |-> step(a, i)]
           g == [i \in 0 .. MaxNodes |-> IF i < Len(w) THEN w[i + 1] ELSE null]
<1>0. Linked(l, w)
  BY DEF Rep
<1>1. /\ w \in Seq(Nodes) /\ Len(w) \in Nat /\ DOMAIN w = 1 .. Len(w) /\ MaxNodes \in Nat
      /\ null \notin Nodes
  BY <1>0, NodesAssumption, Ends
<1>1a. l.head = IF w = <<>> THEN null ELSE w[1]
  BY <1>0 DEF Linked
<1>1b. \A i \in 1 .. Len(w) : l.next[w[i]] = IF i = Len(w) THEN null ELSE w[i + 1]
  BY <1>0, <1>1, Zenon DEF Linked
<1>2. \A i \in 1 .. Len(w) : w[i] \in Nodes /\ w[i] # null
  <2>1. \A i \in 1 .. Len(w) : w[i] \in Nodes
    BY <1>1
  <2> QED
    BY <1>1, <2>1, Zenon
<1>3. ASSUME NEW i \in 0 .. MaxNodes PROVE g[i] = step(g, i)
  <2>1. CASE i = 0
    <3>1. w = <<>> <=> ~ (0 < Len(w))
      BY <1>1
    <3> QED
      BY <1>1, <1>1a, <2>1, <3>1
  <2>2. CASE i # 0
    <3>1. i - 1 \in 0 .. MaxNodes /\ (i - 1) + 1 = i /\ i \in Nat
      BY <1>1, <2>2
    <3>2. g[i - 1] = IF i - 1 < Len(w) THEN w[i] ELSE null
      BY <3>1
    <3>3. CASE i - 1 < Len(w)
      <4>1. i \in 1 .. Len(w) /\ (i < Len(w) <=> i # Len(w))
        <5>1. i <= Len(w) /\ 1 <= i /\ i \in Nat /\ Len(w) \in Nat
          BY <1>1, <2>2, <3>1, <3>3
        <5> QED
          BY <5>1
      <4>2. g[i - 1] = w[i] /\ w[i] # null
        BY <1>2, <3>2, <3>3, <4>1
      <4>3. step(g, i) = l.next[w[i]]
        BY <2>2, <4>2, Zenon
      <4>4. l.next[w[i]] = IF i = Len(w) THEN null ELSE w[i + 1]
        BY <1>1b, <4>1, Zenon
      <4> QED
        BY <4>1, <4>3, <4>4
    <3>4. CASE ~ (i - 1 < Len(w))
      <4>1. ~ (i < Len(w))
        BY <1>1, <3>1, <3>4
      <4>2. g[i] = null /\ g[i - 1] = null
        BY <3>2, <3>4, <4>1
      <4> QED
        BY <2>2, <4>2, Zenon
    <3> QED
      BY <3>3, <3>4
  <2> QED
    BY <2>1, <2>2
<1> HIDE DEF step
<1>4. Is(g)
  <2>1. g = [i \in 0 .. MaxNodes |-> g[i]]
    OBVIOUS
  <2> HIDE DEF g
  <2>2. [i \in 0 .. MaxNodes |-> g[i]] = [i \in 0 .. MaxNodes |-> step(g, i)]
    BY <1>3
  <2> QED
    BY <2>1, <2>2, Zenon
<1>5. WalkTo(l) = CHOOSE a : Is(a)
  BY Zenon DEF WalkTo, step
<1> HIDE DEF g
<1>6. ASSUME NEW a, Is(a), NEW b, Is(b) PROVE a = b
  <2>1. \A i \in 0 .. MaxNodes : a[i] = step(a, i) /\ b[i] = step(b, i)
    BY <1>6, Zenon
  <2>2. a = [i \in 0 .. MaxNodes |-> a[i]] /\ b = [i \in 0 .. MaxNodes |-> b[i]]
    BY <1>6
  <2> DEFINE T == {i \in 0 .. MaxNodes : a[i] # b[i]}
  <2>3. T = {}
    <3> SUFFICES ASSUME T # {} PROVE FALSE
      OBVIOUS
    <3>1. T \in SUBSET Nat
      BY <1>1
    <3>2. PICK i \in T : \A k \in T : i <= k
      BY <3>1, Least
    <3>3. i \in 0 .. MaxNodes /\ a[i] # b[i]
      OBVIOUS
    <3>4. i # 0
      BY <2>1, <3>3 DEF step
    <3>5. i - 1 \in 0 .. MaxNodes /\ ~ (i <= i - 1)
      BY <1>1, <3>3, <3>4
    <3>6. a[i - 1] = b[i - 1]
      BY <3>2, <3>5
    <3> QED
      BY <2>1, <3>3, <3>4, <3>6 DEF step
  <2>4. \A i \in 0 .. MaxNodes : a[i] = b[i]
    BY <2>3
  <2> HIDE DEF Is, T
  <2> QED
    BY <2>2, <2>4
<1>7. WalkTo(l) = g
  <2> HIDE DEF Is
  <2>1. Is(WalkTo(l))
    BY <1>4, <1>5, Zenon
  <2> QED
    BY <1>4, <1>6, <2>1
<1>8. WalkLength(l) = Len(w)
  <2>1. {i \in 0 .. MaxNodes : g[i] # null} = 0 .. Len(w) - 1
    <3>1. ASSUME NEW i \in 0 .. MaxNodes PROVE g[i] # null <=> i \in 0 .. Len(w) - 1
      <4>1. g[i] = IF i < Len(w) THEN w[i + 1] ELSE null
        BY DEF g
      <4>2. i < Len(w) => i + 1 \in 1 .. Len(w)
        BY <1>1
      <4>3. i \in 0 .. Len(w) - 1 <=> i < Len(w)
        BY <1>1
      <4> QED
        BY <1>2, <4>1, <4>2, <4>3
    <3>2. \A i \in 0 .. Len(w) - 1 : i \in 0 .. MaxNodes
      BY <1>1
    <3> QED
      BY <3>1, <3>2
  <2>2. Cardinality(0 .. Len(w) - 1) = Len(w)
    <3>0. Len(w) - 1 \in Int
      BY <1>1
    <3>1. PICK n \in Int : n = Len(w) - 1
      BY <3>0
    <3>2. Cardinality(0 .. n) = IF 0 > n THEN 0 ELSE n - 0 + 1
      BY FS_Interval
    <3> QED
      BY <1>1, <3>1, <3>2
  <2> QED
    BY <1>7, <2>1, <2>2 DEF WalkLength
<1>9. Tags(l) = [i \in 1 .. Len(w) |-> l.data[w[i]]]
  <2>1. Tags(l) = [i \in 1 .. Len(w) |-> l.data[g[i - 1]]]
    BY <1>7, <1>8 DEF Tags
  <2>2. ASSUME NEW i \in 1 .. Len(w) PROVE g[i - 1] = w[i]
    <3>1. i - 1 \in 0 .. MaxNodes /\ i - 1 < Len(w) /\ (i - 1) + 1 = i
      BY <1>1
    <3> QED
      BY <3>1 DEF g
  <2> QED
    BY <2>1, <2>2
<1> QED
  BY <1>7, <1>8, <1>9 DEF g

(* find() returns the first entry with the tag, or none.                   *)
LEMMA FindRep ==
    ASSUME NEW l, NEW w, Rep(l, w), Len(w) <= MaxNodes, NEW v
    PROVE  \/ /\ find(l, v) = null
              /\ \A i \in DOMAIN w : l.data[w[i]] # v
           \/ \E j \in DOMAIN w : /\ find(l, v) = w[j] /\ w[j] # null
                                  /\ l.data[w[j]] = v
                                  /\ \A i \in 1 .. j - 1 : l.data[w[i]] # v
<1>1. /\ WalkLength(l) = Len(w)
      /\ WalkTo(l) = [i \in 0 .. MaxNodes |-> IF i < Len(w) THEN w[i + 1] ELSE null]
      /\ Tags(l) = [i \in 1 .. Len(w) |-> l.data[w[i]]]
  BY WalkRep
<1>2. Linked(l, w)
  BY DEF Rep
<1>3. /\ w \in Seq(Nodes) /\ Len(w) \in Nat /\ DOMAIN w = 1 .. Len(w) /\ MaxNodes \in Nat
      /\ null \notin Nodes
  BY <1>2, NodesAssumption, Ends
<1>4. \A i \in 1 .. Len(w) : Tags(l)[i] = l.data[w[i]]
  BY <1>1
<1>5. CASE \A i \in 1 .. Len(w) : Tags(l)[i] # v
  <2>1. find(l, v) = null
    BY <1>1, <1>5 DEF find
  <2> QED
    BY <1>3, <1>4, <1>5, <2>1
<1>6. CASE \E i \in 1 .. Len(w) : Tags(l)[i] = v
  <2> DEFINE First(i) == Tags(l)[i + 1] = v /\ \A k \in 1 .. i : Tags(l)[k] # v
             T == {i \in 1 .. Len(w) : Tags(l)[i] = v}
  <2>1. PICK f \in T : \A k \in T : f <= k
    <3>1. T \in SUBSET Nat /\ T # {}
      BY <1>3, <1>6
    <3> HIDE DEF T
    <3> QED
      BY <3>1, Least
  <2>2. \E i \in 0 .. Len(w) - 1 : First(i)
    <3>1. f \in 1 .. Len(w) /\ f - 1 \in 0 .. Len(w) - 1 /\ (f - 1) + 1 = f
      BY <1>3
    <3>2. Tags(l)[(f - 1) + 1] = v
      BY <2>1, <3>1
    <3>3. ASSUME NEW k \in 1 .. f - 1 PROVE Tags(l)[k] # v
      <4>1. k \in 1 .. Len(w) /\ ~ (f <= k)
        BY <1>3, <3>1
      <4> QED
        BY <2>1, <4>1
    <3> QED
      BY <3>1, <3>2, <3>3
  <2>3. PICK c : c = CHOOSE i \in 0 .. Len(w) - 1 : First(i)
    OBVIOUS
  <2>4. c \in 0 .. Len(w) - 1 /\ First(c)
    <3> HIDE DEF First
    <3> QED
      BY <2>2, <2>3, Zenon
  <2>5. find(l, v) = WalkTo(l)[c]
    BY <1>1, <1>6, <2>3 DEF find
  <2>6. PICK j : j = c + 1
    OBVIOUS
  <2>7. j \in 1 .. Len(w) /\ c \in 0 .. MaxNodes /\ c < Len(w) /\ c = j - 1
    BY <1>3, <2>4, <2>6
  <2>8. find(l, v) = w[j]
    BY <1>1, <2>5, <2>6, <2>7
  <2>9. l.data[w[j]] = v
    BY <1>4, <2>4, <2>6, <2>7
  <2>10. \A i \in 1 .. j - 1 : l.data[w[i]] # v
    <3>1. \A i \in 1 .. j - 1 : i \in 1 .. Len(w) /\ i \in 1 .. c
      BY <1>3, <2>7
    <3> QED
      BY <1>4, <2>4, <3>1
  <2>11. w[j] # null
    <3>1. w[j] \in Nodes
      BY <1>3, <2>7
    <3>2. null \notin Nodes
      BY <1>3
    <3> QED
      BY <3>1, <3>2
  <2>12. j \in DOMAIN w
    BY <1>3, <2>7
  <2> QED
    BY <2>8, <2>9, <2>10, <2>11, <2>12
<1> QED
  BY <1>5, <1>6

(* Such a list is intact.                                                  *)
LEMMA IntactRep ==
    ASSUME NEW l, NEW w, Rep(l, w), Len(w) <= MaxNodes
    PROVE  Intact(l)
<1>1. /\ WalkLength(l) = Len(w)
      /\ WalkTo(l) = [i \in 0 .. MaxNodes |-> IF i < Len(w) THEN w[i + 1] ELSE null]
  BY WalkRep
<1>2. Linked(l, w) /\ l.used = Elems(w) /\ l.cnt = Len(w)
  BY DEF Rep
<1>3. /\ w \in Seq(Nodes) /\ Len(w) \in Nat /\ DOMAIN w = 1 .. Len(w) /\ MaxNodes \in Nat
      /\ null \notin Nodes
  BY <1>2, NodesAssumption, Ends
<1>4. WalkTo(l)[MaxNodes] = null
  BY <1>1, <1>3
<1>5. {WalkTo(l)[i] : i \in 0 .. MaxNodes} \ {null} = Elems(w)
  <2>1. ASSUME NEW i \in 0 .. MaxNodes, WalkTo(l)[i] # null PROVE WalkTo(l)[i] \in Elems(w)
    <3>1. i < Len(w) /\ WalkTo(l)[i] = w[i + 1]
      BY <1>1, <2>1
    <3>2. i + 1 \in DOMAIN w
      BY <1>3, <3>1
    <3> QED
      BY <3>1, <3>2 DEF Elems
  <2>2. ASSUME NEW i \in DOMAIN w
        PROVE  w[i] # null /\ \E k \in 0 .. MaxNodes : WalkTo(l)[k] = w[i]
    <3>1. w[i] \in Nodes
      BY <1>3
    <3>2. i - 1 \in 0 .. MaxNodes /\ i - 1 < Len(w) /\ (i - 1) + 1 = i
      BY <1>3
    <3>3. WalkTo(l)[i - 1] = w[i]
      BY <1>1, <3>2
    <3>4. null \notin Nodes
      BY <1>3
    <3> QED
      BY <3>1, <3>2, <3>3, <3>4
  <2> QED
    BY <2>1, <2>2 DEF Elems
<1>6. l.tail = IF l.cnt = 0 THEN null ELSE WalkTo(l)[l.cnt - 1]
  <2>1. CASE w = <<>>
    BY <1>2, <2>1, Ends
  <2>2. CASE w # <<>>
    <3>1. l.tail = w[Len(w)]
      BY <1>2, <2>2, Ends
    <3>2. Len(w) # 0 /\ Len(w) - 1 \in 0 .. MaxNodes /\ Len(w) - 1 < Len(w)
          /\ (Len(w) - 1) + 1 = Len(w)
      BY <1>3, <2>2
    <3>3. WalkTo(l)[Len(w) - 1] = w[Len(w)]
      BY <1>1, <3>2
    <3> QED
      BY <1>2, <3>1, <3>2, <3>3
  <2> QED
    BY <2>1, <2>2
<1>7. \A n \in l.used : l.next[n] # null => l.prev[l.next[n]] = n
  <2> SUFFICES ASSUME NEW i \in DOMAIN w, l.next[w[i]] # null
               PROVE  l.prev[l.next[w[i]]] = w[i]
    BY <1>2 DEF Elems
  <2>1. i # Len(w) /\ l.next[w[i]] = w[i + 1]
    BY <1>2 DEF Linked
  <2>2. i + 1 \in DOMAIN w /\ i + 1 # 1 /\ (i + 1) - 1 = i
    BY <1>3, <2>1
  <2>3. l.prev[w[i + 1]] = w[i]
    BY <1>2, <2>2 DEF Linked
  <2> QED
    BY <2>1, <2>3
<1> QED
  BY <1>1, <1>2, <1>4, <1>5, <1>6, <1>7 DEF Intact

-----------------------------------------------------------------------------
(* The tags of a list                                                      *)

(* The first occurrence of a tag in a sequence of tags.                    *)
LEMMA RemoveFirstIs ==
    ASSUME NEW s \in Seq(Nat), NEW t
    PROVE  /\ ~ Contains(s, t) => RemoveFirst(s, t) = s
           /\ \A j \in DOMAIN s :
                 s[j] = t /\ (\A i \in 1 .. j - 1 : s[i] # t)
                     => Contains(s, t) /\ RemoveFirst(s, t) = RemoveAt(s, j)
<1>1. Len(s) \in Nat /\ DOMAIN s = 1 .. Len(s)
  OBVIOUS
<1>2. ~ Contains(s, t) => RemoveFirst(s, t) = s
  BY DEF Contains, RemoveFirst
<1>3. ASSUME NEW j \in DOMAIN s, s[j] = t, \A i \in 1 .. j - 1 : s[i] # t
      PROVE  Contains(s, t) /\ RemoveFirst(s, t) = RemoveAt(s, j)
  <2> DEFINE T == {i \in 1 .. Len(s) : s[i] = t}
  <2>1. j \in T /\ \A i \in T : j <= i
    <3>1. ASSUME NEW i \in T PROVE j <= i
      <4>1. i \in 1 .. Len(s) /\ j \in 1 .. Len(s) /\ i \notin 1 .. j - 1
        BY <1>1, <1>3
      <4> QED
        BY <1>1, <4>1
    <3> QED
      BY <1>1, <1>3, <3>1
  <2>2. \A x \in T : (\A i \in T : x <= i) => x = j
    BY <1>1, <2>1
  <2>3. \E i \in 1 .. Len(s) : s[i] = t
    BY <1>1, <1>3
  <2>4. RemoveFirst(s, t) = RemoveAt(s, Min(T))
    <3>1. T # {}
      BY <2>1
    <3> QED
      BY <2>3, <3>1 DEF RemoveFirst, SelectInSeq
  <2>5. Min(T) = j
    <3> HIDE DEF T
    <3>1. Min(T) = CHOOSE x \in T : \A i \in T : x <= i
      BY DEF Min
    <3> QED
      BY <2>1, <2>2, <3>1, Zenon
  <2> QED
    BY <2>3, <2>4, <2>5 DEF Contains
<1> QED
  BY <1>2, <1>3

(* The tags of a list, in the order of its entries.                        *)
LEMMA TagsRep ==
    ASSUME NEW l, NEW w, Rep(l, w), Len(w) <= MaxNodes
    PROVE  /\ Tags(l) \in Seq(Nat) /\ Len(Tags(l)) = Len(w)
           /\ \A i \in DOMAIN w : Tags(l)[i] = l.data[w[i]]
<1>1. Tags(l) = [i \in 1 .. Len(w) |-> l.data[w[i]]]
  BY WalkRep
<1>2. w \in Seq(Nodes) /\ Len(w) \in Nat /\ DOMAIN w = 1 .. Len(w) /\ l.data \in [Nodes -> Nat]
  BY DEF Rep, Linked, ListType
<1>3. \A i \in 1 .. Len(w) : l.data[w[i]] \in Nat
  BY <1>2
<1>4. Tags(l) \in Seq(Nat) /\ Len(Tags(l)) = Len(w) /\ DOMAIN Tags(l) = 1 .. Len(w)
  BY <1>1, <1>2, <1>3
<1>5. \A i \in DOMAIN w : Tags(l)[i] = l.data[w[i]]
  BY <1>1, <1>2
<1> QED
  BY <1>4, <1>5

(* What find() finds, in terms of the tags.                                *)
LEMMA FindTags ==
    ASSUME NEW l, NEW w, Rep(l, w), Len(w) <= MaxNodes, NEW t
    PROVE  /\ find(l, t) # null <=> Contains(Tags(l), t)
           /\ find(l, t) = null => RemoveFirst(Tags(l), t) = Tags(l)
           /\ find(l, t) # null =>
                 \E j \in DOMAIN w : /\ find(l, t) = w[j] /\ Tags(l)[j] = t
                                     /\ RemoveFirst(Tags(l), t) = RemoveAt(Tags(l), j)
<1>2. w \in Seq(Nodes) /\ Len(w) \in Nat /\ DOMAIN w = 1 .. Len(w)
  BY DEF Rep, Linked
<1>5. \A i \in DOMAIN w : Tags(l)[i] = l.data[w[i]]
  BY TagsRep
<1>4. Tags(l) \in Seq(Nat) /\ Len(Tags(l)) = Len(w) /\ DOMAIN Tags(l) = 1 .. Len(w)
  BY TagsRep
<1>6. CASE /\ find(l, t) = null
           /\ \A i \in DOMAIN w : l.data[w[i]] # t
  <2>1. ~ Contains(Tags(l), t)
    BY <1>2, <1>4, <1>5, <1>6 DEF Contains
  <2> QED
    BY <1>4, <1>5, <1>6, <2>1, RemoveFirstIs
<1>7. ASSUME NEW j \in DOMAIN w, find(l, t) = w[j], w[j] # null, l.data[w[j]] = t,
             \A i \in 1 .. j - 1 : l.data[w[i]] # t
      PROVE  /\ find(l, t) # null /\ Contains(Tags(l), t)
             /\ Tags(l)[j] = t
             /\ RemoveFirst(Tags(l), t) = RemoveAt(Tags(l), j)
  <2>1. \A i \in 1 .. j - 1 : i \in DOMAIN w
    BY <1>2
  <2>2. Tags(l)[j] = t /\ \A i \in 1 .. j - 1 : Tags(l)[i] # t
    BY <1>5, <1>7, <2>1
  <2>3. j \in DOMAIN Tags(l)
    BY <1>2, <1>4
  <2> QED
    BY <1>4, <1>7, <2>2, <2>3, RemoveFirstIs
<1>8. CASE \E j \in DOMAIN w : /\ find(l, t) = w[j] /\ w[j] # null
                               /\ l.data[w[j]] = t
                               /\ \A i \in 1 .. j - 1 : l.data[w[i]] # t
  BY <1>4, <1>5, <1>7, <1>8
<1> QED
  BY <1>6, <1>8, FindRep

(* Sequences are equal when they agree everywhere.                         *)
LEMMA SameSeq ==
    ASSUME NEW s \in Seq(Nat), NEW r \in Seq(Nat), Len(s) = Len(r),
           \A i \in 1 .. Len(s) : s[i] = r[i]
    PROVE  s = r
OBVIOUS

(* Erasing an entry takes its tag out of the sequence of tags.             *)
LEMMA EraseAtTags ==
    ASSUME NEW l, NEW w, Rep(l, w), Len(w) <= MaxNodes, NEW j \in DOMAIN w
    PROVE  LET m == erase(l, w[j])
           IN  /\ Rep(m, RemoveAt(w, j)) /\ Len(RemoveAt(w, j)) = Len(w) - 1
               /\ Tags(m) = RemoveAt(Tags(l), j)
<1> DEFINE m == erase(l, w[j])
           v == RemoveAt(w, j)
           r == RemoveAt(Tags(l), j)
<1>1. w \in Seq(Nodes) /\ Len(w) \in Nat /\ DOMAIN w = 1 .. Len(w) /\ NoRepeat(w) /\ MaxNodes \in Nat
  BY NodesAssumption DEF Rep, Linked
<1>2. Rep(m, v) /\ \A n \in Nodes : n # w[j] => m.data[n] = l.data[n]
  BY EraseRep
<1>3. /\ v \in Seq(Nodes) /\ Len(v) = Len(w) - 1 /\ DOMAIN v = 1 .. Len(w) - 1
      /\ \A i \in DOMAIN v : v[i] = IF i < j THEN w[i] ELSE w[i + 1]
      /\ w[j] \notin Elems(v)
  BY <1>1, RemoveAtIs
<1>4. Tags(l) \in Seq(Nat) /\ Len(Tags(l)) = Len(w) /\ \A i \in DOMAIN w : Tags(l)[i] = l.data[w[i]]
  BY TagsRep
<1>5. /\ r \in Seq(Nat) /\ Len(r) = Len(w) - 1 /\ DOMAIN r = 1 .. Len(w) - 1
      /\ \A i \in DOMAIN r : r[i] = IF i < j THEN Tags(l)[i] ELSE Tags(l)[i + 1]
  <2>1. j \in DOMAIN Tags(l)
    BY <1>1, <1>4
  <2> QED
    BY <1>4, <2>1, RemoveAtIs, ZenonT(40)
<1> HIDE DEF v, r, m
<1>6. Len(v) <= MaxNodes
  BY <1>1, <1>3
<1>7. Tags(m) \in Seq(Nat) /\ Len(Tags(m)) = Len(v) /\ \A i \in DOMAIN v : Tags(m)[i] = m.data[v[i]]
  BY <1>2, <1>6, TagsRep
<1>8. ASSUME NEW i \in DOMAIN v PROVE Tags(m)[i] = r[i]
  <2>1. v[i] \in Nodes /\ v[i] # w[j]
    BY <1>3 DEF Elems
  <2>2. Tags(m)[i] = l.data[v[i]]
    BY <1>2, <1>7, <2>1
  <2>3. (i < j => i \in DOMAIN w) /\ (~ (i < j) => i + 1 \in DOMAIN w)
    BY <1>1, <1>3
  <2> QED
    BY <1>3, <1>4, <1>5, <2>2, <2>3
<1>9. Tags(m) = r
  BY <1>3, <1>5, <1>7, <1>8, SameSeq
<1> QED
  BY <1>2, <1>3, <1>9 DEF v, r, m

(* flush_line() of a line takes its tag out.                               *)
LEMMA EraseTags ==
    ASSUME NEW l, NEW w, Rep(l, w), Len(w) <= MaxNodes, NEW t
    PROVE  LET m == erase(l, find(l, t))
           IN  /\ \E v : Rep(m, v) /\ Len(v) <= Len(w)
               /\ Tags(m) = RemoveFirst(Tags(l), t)
<1>1. Len(w) \in Nat
  BY DEF Rep, Linked
<1>2. CASE find(l, t) = null
  <2>1. erase(l, find(l, t)) = l
    BY <1>2 DEF erase
  <2> QED
    BY <1>1, <1>2, <2>1, FindTags
<1>3. CASE find(l, t) # null
  <2>1. PICK j \in DOMAIN w : /\ find(l, t) = w[j]
                              /\ RemoveFirst(Tags(l), t) = RemoveAt(Tags(l), j)
    BY <1>3, FindTags
  <2>2. LET m == erase(l, w[j])
        IN  /\ Rep(m, RemoveAt(w, j)) /\ Len(RemoveAt(w, j)) = Len(w) - 1
            /\ Tags(m) = RemoveAt(Tags(l), j)
    BY EraseAtTags
  <2>3. Len(w) - 1 <= Len(w)
    BY <1>1
  <2> QED
    BY <2>1, <2>2, <2>3
<1> QED
  BY <1>2, <1>3

(* Evicting takes the last tag out.                                        *)
LEMMA PopTags ==
    ASSUME NEW l, NEW w, Rep(l, w), Len(w) >= 2, Len(w) <= MaxNodes
    PROVE  LET m == pop_back(l)
           IN  /\ Rep(m, RemoveAt(w, Len(w))) /\ Len(RemoveAt(w, Len(w))) = Len(w) - 1
               /\ Tags(m) = RemoveAt(Tags(l), Len(w))
<1>1. w \in Seq(Nodes) /\ Len(w) \in Nat
  BY DEF Rep, Linked
<1>2. PICK j \in DOMAIN w : j = Len(w)
  BY <1>1
<1>3. LET m == erase(l, w[j])
      IN  /\ Rep(m, RemoveAt(w, j)) /\ Len(RemoveAt(w, j)) = Len(w) - 1
          /\ Tags(m) = RemoveAt(Tags(l), j)
  BY EraseAtTags
<1> QED
  BY <1>2, <1>3, PopIsErase

(* push_front puts its tag in front of the others.                         *)
LEMMA PushTags ==
    ASSUME NEW l, NEW w, Rep(l, w), Len(w) < MaxNodes, NEW t \in Nat
    PROVE  LET m == push_front(l, t)
           IN  /\ \E v : Rep(m, v) /\ Len(v) = Len(w) + 1
               /\ Tags(m) = <<t>> \o Tags(l)
<1> DEFINE m == push_front(l, t)
           n == FirstFree(l)
           v == <<n>> \o w
           r == <<t>> \o Tags(l)
<1>1. w \in Seq(Nodes) /\ Len(w) \in Nat /\ DOMAIN w = 1 .. Len(w) /\ MaxNodes \in Nat
      /\ l.data \in [Nodes -> Nat]
  BY NodesAssumption DEF Rep, Linked, ListType
<1>2. n \in Nodes \ Elems(w) /\ Rep(m, v) /\ m.data = [l.data EXCEPT ![n] = t]
  BY PushRep
<1>3. /\ v \in Seq(Nodes) /\ Len(v) = Len(w) + 1 /\ DOMAIN v = 1 .. Len(w) + 1
      /\ v[1] = n /\ \A i \in DOMAIN w : v[i + 1] = w[i]
  BY <1>1, <1>2, ConsElems
<1>4. Len(w) <= MaxNodes /\ Len(w) + 1 <= MaxNodes
  BY <1>1
<1>5. Tags(l) \in Seq(Nat) /\ Len(Tags(l)) = Len(w) /\ \A i \in DOMAIN w : Tags(l)[i] = l.data[w[i]]
  BY <1>4, TagsRep
<1>6. /\ r \in Seq(Nat) /\ Len(r) = Len(w) + 1
      /\ r[1] = t /\ \A i \in DOMAIN Tags(l) : r[i + 1] = Tags(l)[i]
  BY <1>5, ConsElems
<1> HIDE DEF v, r, m, n
<1>7. Tags(m) \in Seq(Nat) /\ Len(Tags(m)) = Len(v) /\ \A i \in DOMAIN v : Tags(m)[i] = m.data[v[i]]
  <2>1. Len(v) <= MaxNodes
    BY <1>3, <1>4
  <2>2. Rep(m, v)
    BY <1>2
  <2> QED
    BY <2>1, <2>2, TagsRep
<1>8. ASSUME NEW i \in 1 .. Len(w) + 1 PROVE Tags(m)[i] = r[i]
  <2>1. Tags(m)[i] = m.data[v[i]]
    BY <1>3, <1>7
  <2>2. CASE i = 1
    BY <1>1, <1>2, <1>3, <1>6, <2>1, <2>2
  <2>3. CASE i # 1
    <3>1. PICK k : k = i - 1
      OBVIOUS
    <3>2. k \in 1 .. Len(w) /\ i = k + 1
      BY <1>1, <2>3, <3>1
    <3>3. v[i] = w[k] /\ r[i] = l.data[w[k]]
      <4>1. k \in DOMAIN w /\ k \in DOMAIN Tags(l)
        BY <1>1, <1>5, <3>2
      <4>2. v[i] = w[k]
        BY <1>3, <3>2, <4>1
      <4>3. r[i] = Tags(l)[k]
        BY <1>6, <3>2, <4>1
      <4>4. Tags(l)[k] = l.data[w[k]]
        BY <1>5, <4>1
      <4> QED
        BY <4>2, <4>3, <4>4
    <3>4. w[k] \in Nodes /\ w[k] # n
      BY <1>1, <1>2, <3>2 DEF Elems
    <3> QED
      BY <1>1, <1>2, <2>1, <3>3, <3>4
  <2> QED
    BY <2>2, <2>3
<1>9. Tags(m) = r
  BY <1>3, <1>6, <1>7, <1>8, SameSeq
<1> QED
  BY <1>2, <1>3, <1>9 DEF v, r, m, n

(* A hit puts its tag in front of the others.                              *)
LEMMA MoveTags ==
    ASSUME NEW l, NEW w, Rep(l, w), Len(w) <= MaxNodes, NEW j \in DOMAIN w
    PROVE  LET m == move_to_head(l, w[j])
           IN  /\ \E v : Rep(m, v) /\ Len(v) = Len(w)
               /\ Tags(m) = <<Tags(l)[j]>> \o RemoveAt(Tags(l), j)
<1> DEFINE m == move_to_head(l, w[j])
           u == RemoveAt(w, j)
           v == <<w[j]>> \o u
           q == RemoveAt(Tags(l), j)
           r == <<Tags(l)[j]>> \o q
<1>1. w \in Seq(Nodes) /\ Len(w) \in Nat /\ DOMAIN w = 1 .. Len(w) /\ w[j] \in Nodes
  BY DEF Rep, Linked
<1>2. Rep(m, v) /\ m.data = l.data
  BY MoveRep
<1>3. /\ u \in Seq(Nodes) /\ Len(u) = Len(w) - 1 /\ DOMAIN u = 1 .. Len(w) - 1
      /\ \A i \in DOMAIN u : u[i] = IF i < j THEN w[i] ELSE w[i + 1]
  BY <1>1, RemoveAtIs
<1>4. Tags(l) \in Seq(Nat) /\ Len(Tags(l)) = Len(w) /\ \A i \in DOMAIN w : Tags(l)[i] = l.data[w[i]]
  BY TagsRep
<1>5. j \in DOMAIN Tags(l) /\ Tags(l)[j] \in Nat
  BY <1>1, <1>4
<1>6. /\ q \in Seq(Nat) /\ Len(q) = Len(w) - 1 /\ DOMAIN q = 1 .. Len(w) - 1
      /\ \A i \in DOMAIN q : q[i] = IF i < j THEN Tags(l)[i] ELSE Tags(l)[i + 1]
  BY <1>4, <1>5, RemoveAtIs, ZenonT(40)
<1> HIDE DEF u, q, m
<1>7. /\ v \in Seq(Nodes) /\ Len(v) = Len(u) + 1 /\ DOMAIN v = 1 .. Len(u) + 1
      /\ v[1] = w[j] /\ \A i \in DOMAIN u : v[i + 1] = u[i]
  <2>1. PICK x \in Nodes : x = w[j]
    BY <1>1
  <2>2. LET y == <<x>> \o u
        IN  /\ y \in Seq(Nodes) /\ Len(y) = Len(u) + 1 /\ DOMAIN y = 1 .. Len(u) + 1
            /\ y[1] = x /\ \A i \in DOMAIN u : y[i + 1] = u[i]
    BY <1>3, ConsElems
  <2> QED
    BY <2>1, <2>2
<1>8. /\ r \in Seq(Nat) /\ Len(r) = Len(q) + 1
      /\ r[1] = Tags(l)[j] /\ \A i \in DOMAIN q : r[i + 1] = q[i]
  BY <1>5, <1>6, ConsElems
<1> HIDE DEF v, r
<1>9. Len(v) = Len(w) /\ Len(r) = Len(w) /\ DOMAIN v = 1 .. Len(w)
  BY <1>1, <1>3, <1>6, <1>7, <1>8
<1>10. Tags(m) \in Seq(Nat) /\ Len(Tags(m)) = Len(v) /\ \A i \in DOMAIN v : Tags(m)[i] = m.data[v[i]]
  BY <1>2, <1>9, TagsRep
<1>11. ASSUME NEW i \in 1 .. Len(w) PROVE Tags(m)[i] = r[i]
  <2>1. Tags(m)[i] = l.data[v[i]]
    BY <1>2, <1>9, <1>10
  <2>2. CASE i = 1
    BY <1>4, <1>7, <1>8, <2>1, <2>2
  <2>3. CASE i # 1
    <3>1. PICK k : k = i - 1
      OBVIOUS
    <3>2. k \in 1 .. Len(w) - 1 /\ i = k + 1
      BY <1>1, <2>3, <3>1
    <3>3. v[i] = u[k] /\ r[i] = q[k]
      BY <1>3, <1>6, <1>7, <1>8, <3>2
    <3>4. (k < j => k \in DOMAIN w) /\ (~ (k < j) => k + 1 \in DOMAIN w)
      BY <1>1, <3>2
    <3>5. Tags(m)[i] = l.data[u[k]]
      BY <2>1, <3>3
    <3>6. k \in DOMAIN u /\ k \in DOMAIN q
      BY <1>3, <1>6, <3>2
    <3>7. CASE k < j
      <4>1. u[k] = w[k] /\ q[k] = Tags(l)[k]
        BY <1>3, <1>6, <3>6, <3>7
      <4> QED
        BY <1>4, <3>3, <3>4, <3>5, <3>7, <4>1
    <3>8. CASE ~ (k < j)
      <4>1. u[k] = w[k + 1] /\ q[k] = Tags(l)[k + 1]
        BY <1>3, <1>6, <3>6, <3>8
      <4> QED
        BY <1>4, <3>3, <3>4, <3>5, <3>8, <4>1
    <3> QED
      BY <3>7, <3>8
  <2> QED
    BY <2>2, <2>3
<1>12. Tags(m) = r
  BY <1>8, <1>9, <1>10, <1>11, SameSeq
<1> QED
  BY <1>2, <1>9, <1>12 DEF u, v, q, r, m

(* What a set of `assoc' ways holds after an access to t.                  *)
Touched(s, t, assoc) ==
    LET others == RemoveFirst(s, t)
    IN  SubSeq(<<t>> \o others, 1, Min({Len(others) + 1, assoc}))

(* The capacity of a set is the smaller of its ways and its lines.         *)
LEMMA MinOfTwo ==
    ASSUME NEW a \in Nat, NEW b \in Nat
    PROVE  Min({a, b}) = IF a <= b THEN a ELSE b
<1>1. PICK c : c = IF a <= b THEN a ELSE b
  OBVIOUS
<1>2. c \in {a, b} /\ \A y \in {a, b} : c <= y
  BY <1>1
<1>3. \A x \in {a, b} : (\A y \in {a, b} : x <= y) => x = c
  BY <1>1
<1>4. Min({a, b}) = CHOOSE x \in {a, b} : \A y \in {a, b} : x <= y
  BY DEF Min
<1>5. Min({a, b}) = c
  BY <1>2, <1>3, <1>4, Zenon
<1> QED
  BY <1>1, <1>5

(* A prefix, as replacement leaves it of the tags.                         *)
LEMMA PrefixIs ==
    ASSUME NEW s \in Seq(Nat), NEW n \in Nat, n <= Len(s)
    PROVE  /\ SubSeq(s, 1, n) \in Seq(Nat) /\ Len(SubSeq(s, 1, n)) = n
           /\ \A i \in 1 .. n : SubSeq(s, 1, n)[i] = s[i]
           /\ n = Len(s) => SubSeq(s, 1, n) = s
<1>1. /\ SubSeq(s, 1, n) \in Seq(Nat) /\ Len(SubSeq(s, 1, n)) = n
      /\ \A i \in 1 .. n : SubSeq(s, 1, n)[i] = s[i]
  OBVIOUS
<1>2. n = Len(s) => SubSeq(s, 1, n) = s
  <2> DEFINE r == SubSeq(s, 1, n)
  <2> HIDE DEF r
  <2>1. r \in Seq(Nat) /\ Len(r) = n /\ \A i \in 1 .. n : r[i] = s[i]
    BY <1>1 DEF r
  <2>2. n = Len(s) => r = s
    BY <2>1, SameSeq
  <2> QED
    BY <2>2 DEF r
<1> QED
  BY <1>1, <1>2

(* access() of one set of a class with lists keeps the list in order, and  *)
(* makes it what LRU replacement prescribes (sim_cache.cc:17, 660).        *)
LEMMA AccessTags ==
    ASSUME NEW l, NEW w, Rep(l, w), NEW assoc \in Nat, assoc >= 2, assoc <= MaxNodes,
           Len(w) <= assoc, NEW t \in Nat
    PROVE  LET m == ListAccess(l, assoc, t)
           IN  /\ \E v : Rep(m, v) /\ Len(v) <= assoc
               /\ Tags(m) = Touched(Tags(l), t, assoc)
<1> DEFINE m == ListAccess(l, assoc, t)
           s == Tags(l)
           others == RemoveFirst(s, t)
<1>1. w \in Seq(Nodes) /\ Len(w) \in Nat /\ DOMAIN w = 1 .. Len(w) /\ MaxNodes \in Nat
      /\ Len(w) <= MaxNodes /\ l.cnt = Len(w)
  BY NodesAssumption DEF Rep, Linked
<1>2. s \in Seq(Nat) /\ Len(s) = Len(w) /\ DOMAIN s = 1 .. Len(w)
  <2>1. s \in Seq(Nat) /\ Len(s) = Len(w)
    BY <1>1, TagsRep
  <2> QED
    BY <2>1
<1> HIDE DEF s
<1>3. CASE find(l, t) # null
  <2>1. PICK j \in DOMAIN w : find(l, t) = w[j] /\ s[j] = t /\ others = RemoveAt(s, j)
    BY <1>1, <1>3, FindTags DEF s
  <2>2. m = move_to_head(l, w[j])
    BY <1>3, <2>1 DEF ListAccess
  <2>3. LET n == move_to_head(l, w[j])
        IN  /\ \E v : Rep(n, v) /\ Len(v) = Len(w)
            /\ Tags(n) = <<s[j]>> \o RemoveAt(s, j)
    BY <1>1, MoveTags DEF s
  <2>4. Tags(m) = <<t>> \o others
    BY <2>1, <2>2, <2>3
  <2>5. others \in Seq(Nat) /\ Len(others) = Len(w) - 1
    <3>1. PICK i \in DOMAIN s : i = j
      BY <1>1, <1>2
    <3>2. RemoveAt(s, i) \in Seq(Nat) /\ Len(RemoveAt(s, i)) = Len(s) - 1
      BY <1>2, RemoveAtIs
    <3> QED
      BY <1>2, <2>1, <3>1, <3>2
  <2> HIDE DEF others
  <2>6. <<t>> \o others \in Seq(Nat) /\ Len(<<t>> \o others) = Len(others) + 1
    BY <2>5, ConsElems
  <2>7. Len(others) + 1 \in Nat /\ Len(others) + 1 <= assoc
    BY <1>1, <2>5
  <2>8. Min({Len(others) + 1, assoc}) = Len(others) + 1
    BY <2>7, MinOfTwo
  <2>9. Touched(s, t, assoc) = <<t>> \o others
    <3>1. Touched(s, t, assoc) = SubSeq(<<t>> \o others, 1, Len(others) + 1)
      BY <2>8 DEF Touched, others
    <3> QED
      BY <2>6, <2>7, <3>1, PrefixIs
  <2>10. \E v : Rep(m, v) /\ Len(v) <= assoc
    BY <2>2, <2>3
  <2> QED
    BY <2>4, <2>9, <2>10 DEF s
<1>4. CASE find(l, t) = null /\ l.cnt # assoc
  <2>1. others = s
    BY <1>1, <1>4, FindTags DEF s
  <2>2. m = push_front(l, t)
    BY <1>4 DEF ListAccess
  <2>3. Len(w) < MaxNodes /\ Len(w) + 1 <= assoc /\ Len(w) + 1 \in Nat
    <3>1. PICK n : n = Len(w)
      OBVIOUS
    <3>2. n \in Nat /\ n # assoc /\ n <= assoc /\ MaxNodes \in Nat
      BY <1>1, <1>4, <3>1
    <3>3. n < MaxNodes /\ n + 1 <= assoc /\ n + 1 \in Nat
      BY <3>2
    <3> QED
      BY <3>1, <3>3
  <2>4. LET n == push_front(l, t)
        IN  /\ \E v : Rep(n, v) /\ Len(v) = Len(w) + 1
            /\ Tags(n) = <<t>> \o s
    BY <2>3, PushTags DEF s
  <2> HIDE DEF others
  <2>5. <<t>> \o s \in Seq(Nat) /\ Len(<<t>> \o s) = Len(s) + 1
    BY <1>2, ConsElems
  <2>6. Min({Len(s) + 1, assoc}) = Len(s) + 1
    BY <1>2, <2>3, MinOfTwo
  <2>7. Touched(s, t, assoc) = <<t>> \o s
    <3>1. Touched(s, t, assoc) = SubSeq(<<t>> \o s, 1, Len(s) + 1)
      BY <2>1, <2>6 DEF Touched, others
    <3>2. Len(s) + 1 \in Nat /\ Len(s) + 1 <= Len(<<t>> \o s)
      BY <1>2, <2>3, <2>5
    <3> QED
      BY <2>5, <3>1, <3>2, PrefixIs
  <2>8. \E v : Rep(m, v) /\ Len(v) <= assoc
    BY <2>2, <2>3, <2>4
  <2> QED
    BY <2>2, <2>4, <2>7, <2>8 DEF s
<1>5. CASE find(l, t) = null /\ l.cnt = assoc
  <2> DEFINE b == pop_back(l)
             u == RemoveAt(w, Len(w))
             q == RemoveAt(s, Len(w))
  <2>1. others = s
    BY <1>1, <1>5, FindTags DEF s
  <2>2. m = push_front(b, t)
    BY <1>5 DEF ListAccess
  <2>3. Len(w) = assoc
    BY <1>1, <1>5
  <2>4. Rep(b, u) /\ Len(u) = Len(w) - 1 /\ Tags(b) = q
    BY <1>1, <2>3, PopTags DEF s
  <2> HIDE DEF b, u
  <2>5. Len(u) < MaxNodes /\ Len(u) + 1 <= assoc
    BY <1>1, <2>3, <2>4
  <2>6. LET n == push_front(b, t)
        IN  /\ \E v : Rep(n, v) /\ Len(v) = Len(u) + 1
            /\ Tags(n) = <<t>> \o q
    BY <2>4, <2>5, PushTags
  <2>7. /\ q \in Seq(Nat) /\ Len(q) = Len(w) - 1 /\ DOMAIN q = 1 .. Len(w) - 1
        /\ \A i \in DOMAIN q : q[i] = IF i < Len(w) THEN s[i] ELSE s[i + 1]
    <3>1. PICK j \in DOMAIN s : j = Len(w)
      BY <1>1, <1>2, <2>3
    <3>2. LET r == RemoveAt(s, j)
          IN  /\ r \in Seq(Nat) /\ Len(r) = Len(s) - 1 /\ DOMAIN r = 1 .. Len(s) - 1
              /\ \A i \in DOMAIN r : r[i] = IF i < j THEN s[i] ELSE s[i + 1]
      BY <1>2, RemoveAtIs
    <3> QED
      BY <1>2, <3>1, <3>2
  <2> HIDE DEF others, q
  <2> DEFINE long == <<t>> \o s
             short == <<t>> \o q
  <2>8. /\ long \in Seq(Nat) /\ Len(long) = Len(s) + 1
        /\ long[1] = t /\ \A i \in DOMAIN s : long[i + 1] = s[i]
    BY <1>2, ConsElems
  <2>9. /\ short \in Seq(Nat) /\ Len(short) = Len(q) + 1
        /\ short[1] = t /\ \A i \in DOMAIN q : short[i + 1] = q[i]
    BY <2>7, ConsElems
  <2>10. Min({Len(s) + 1, assoc}) = assoc
    <3>1. Len(s) + 1 \in Nat /\ ~ (Len(s) + 1 <= assoc)
      BY <1>1, <1>2, <2>3
    <3> QED
      BY <3>1, MinOfTwo
  <2>11. Touched(s, t, assoc) = SubSeq(long, 1, assoc)
    BY <2>1, <2>10 DEF Touched, others
  <2> HIDE DEF long, short
  <2>12. PICK cut : cut = SubSeq(long, 1, assoc)
    OBVIOUS
  <2>13. cut \in Seq(Nat) /\ Len(cut) = assoc /\ \A i \in 1 .. assoc : cut[i] = long[i]
    <3>1. assoc <= Len(long)
      BY <1>2, <2>3, <2>8
    <3> QED
      BY <2>8, <2>12, <3>1, PrefixIs
  <2>14. ASSUME NEW i \in 1 .. assoc PROVE short[i] = long[i]
    <3>1. CASE i = 1
      BY <2>8, <2>9, <3>1
    <3>2. CASE i # 1
      <4>1. PICK k : k = i - 1
        OBVIOUS
      <4>2. k \in 1 .. Len(w) - 1 /\ i = k + 1 /\ k \in DOMAIN s /\ k < Len(w)
        BY <1>1, <1>2, <2>3, <3>2, <4>1
      <4>3. short[i] = q[k] /\ long[i] = s[k]
        BY <2>7, <2>8, <2>9, <4>2
      <4> QED
        BY <2>7, <4>2, <4>3
    <3> QED
      BY <3>1, <3>2
  <2>15. Len(short) = assoc
    BY <1>1, <2>3, <2>7, <2>9
  <2>16. short = cut
    BY <2>9, <2>13, <2>14, <2>15, SameSeq
  <2>17. \E v : Rep(m, v) /\ Len(v) <= assoc
    BY <2>2, <2>5, <2>6
  <2>18. Tags(m) = short
    BY <2>2, <2>6 DEF short
  <2> QED
    BY <2>11, <2>12, <2>16, <2>17, <2>18 DEF s
<1> QED
  BY <1>3, <1>4, <1>5

-----------------------------------------------------------------------------
(* Sets and levels                                                         *)

(* The levels are those of the constructor, each with its sets.            *)
Shape ==
    /\ cfg \in Configs
    /\ lvl = [k \in Levels |-> [s \in 0 .. cfg[k].sets - 1 |-> lvl[k][s]]]

(* The sets of the classes with lists are lists, no longer than the ways.  *)
ListsHeld ==
    \A k \in Levels : cfg[k].kind \in ListKinds =>
        \A s \in 0 .. cfg[k].sets - 1 :
            \E w : Rep(lvl[k][s], w) /\ Len(w) <= cfg[k].assoc

(* The sets of the classes with trees have the fields of one.              *)
TreeSet(set, assoc) ==
    /\ set = [valid |-> set.valid, tag |-> set.tag, allvalid |-> set.allvalid, lru |-> set.lru]
    /\ set.valid \in [0 .. assoc - 1 -> BOOLEAN]
    /\ DOMAIN set.tag = 0 .. assoc - 1
    /\ set.tag = [i \in 0 .. assoc - 1 |-> set.tag[i]]
    /\ set.allvalid \in BOOLEAN
(* WaysExact, of one set.                                                  *)
WaysOnce(set) ==
    \A i, j \in DOMAIN set.tag :
        set.valid[i] /\ set.valid[j] /\ set.tag[i] = set.tag[j] => i = j
AllValidExact(set) == set.allvalid <=> \A i \in DOMAIN set.valid : set.valid[i]

(* With one way, pop_back() leaves head pointing at the freed entry, and the *)
(* list is none any more (sim_cache.hh:100; the run caches_direct).  The   *)
(* theorems about lists are of levels with at least two.                   *)
Wide == \A c \in Configs : \A k \in DOMAIN c : c[k].kind \in ListKinds => c[k].assoc >= 2

(* The constructor's arguments.                                            *)
LEMMA CfgFacts ==
    ASSUME cfg \in Configs
    PROVE  /\ cfg \in Seq(Geometry) /\ cfg # <<>> /\ Len(cfg) \in Nat \ {0} /\ Levels = 1 .. Len(cfg)
           /\ \A k \in Levels : /\ cfg[k].assoc \in Nat \ {0} /\ cfg[k].sets \in Nat \ {0}
                                /\ cfg[k].line \in Nat \ {0} /\ cfg[k].latency \in Nat
                                /\ cfg[k].kind \in ListKinds => cfg[k].assoc <= MaxNodes
                                /\ cfg[k].kind \in ListKinds \cup TreeKinds
                                                   \cup {"directMapped", "fullRandAssoc"}
<1>1. cfg \in Seq(Geometry) /\ cfg # <<>>
      /\ \A k \in DOMAIN cfg : cfg[k].kind \in ListKinds => cfg[k].assoc <= MaxNodes
  BY ConfigsAssumption
<1>2. Len(cfg) \in Nat \ {0} /\ Levels = 1 .. Len(cfg) /\ DOMAIN cfg = 1 .. Len(cfg)
  BY <1>1 DEF Levels
<1>3. \A k \in Levels : cfg[k] \in Geometry
  BY <1>1, <1>2
<1>4. ASSUME NEW k \in Levels
      PROVE  /\ cfg[k].assoc \in Nat \ {0} /\ cfg[k].sets \in Nat \ {0}
             /\ cfg[k].line \in Nat \ {0} /\ cfg[k].latency \in Nat
             /\ cfg[k].kind \in ListKinds \cup TreeKinds \cup {"directMapped", "fullRandAssoc"}
  <2>1. cfg[k] \in Geometry
    BY <1>3
  <2> QED
    BY <2>1 DEF Geometry
<1> QED
  BY <1>1, <1>2, <1>4

(* Tags and sets of addresses.                                             *)
LEMMA TagsAndSets ==
    ASSUME cfg \in Configs, NEW k \in Levels, NEW a \in Addrs
    PROVE  TagOf(k, a) \in Nat /\ SetOf(k, a) \in 0 .. cfg[k].sets - 1
<1>1. /\ a \in Nat
      /\ cfg[k].sets \in Nat \ {0} /\ cfg[k].line \in Nat \ {0}
  BY AddrsAssumption, CfgFacts
<1>2. PICK n \in Nat \ {0}, d \in Nat \ {0} : n = cfg[k].sets /\ d = cfg[k].line
  BY <1>1
<1>3. PICK q : q = d * n
  OBVIOUS
<1>4. q \in Nat \ {0}
  BY <1>2, <1>3
<1>5. a \div q \in Nat
  BY <1>1, <1>4
<1>6. a \div d \in Nat
  BY <1>1, <1>2
<1>7. (a \div d) % n \in 0 .. n - 1
  BY <1>2, <1>6
<1> QED
  BY <1>2, <1>3, <1>5, <1>7 DEF TagOf, SetOf

(* One set at a time: what every step does to the sets of one level.       *)
LEMMA AccessSets ==
    ASSUME Shape, NEW a \in Addrs, NEW r, access(a, r)
    PROVE  /\ Shape' /\ cfg' = cfg
           /\ \A k \in Levels : \A s \in 0 .. cfg[k].sets - 1 :
                 lvl'[k][s] = IF Reached(k, a) /\ s = SetOf(k, a)
                              THEN Accessed(k, lvl[k][s], TagOf(k, a), r) ELSE lvl[k][s]
<1>1. /\ cfg' = cfg
      /\ lvl' = [k \in Levels |->
                  IF Reached(k, a)
                  THEN [lvl[k] EXCEPT ![SetOf(k, a)] = Accessed(k, @, TagOf(k, a), r)]
                  ELSE lvl[k]]
  BY DEF access
<1>2. lvl = [k \in Levels |-> [s \in 0 .. cfg[k].sets - 1 |-> lvl[k][s]]]
  BY DEF Shape
<1>3. ASSUME NEW k \in Levels
      PROVE  lvl'[k] = [s \in 0 .. cfg[k].sets - 1 |->
                 IF Reached(k, a) /\ s = SetOf(k, a)
                 THEN Accessed(k, lvl[k][s], TagOf(k, a), r) ELSE lvl[k][s]]
  <2>1. lvl[k] = [s \in 0 .. cfg[k].sets - 1 |-> lvl[k][s]]
    BY <1>2
  <2>2. lvl'[k] = IF Reached(k, a)
                  THEN [lvl[k] EXCEPT ![SetOf(k, a)] = Accessed(k, @, TagOf(k, a), r)]
                  ELSE lvl[k]
    BY <1>1
  <2> QED
    BY <2>1, <2>2
<1>4. ASSUME NEW k \in Levels, NEW s \in 0 .. cfg[k].sets - 1
      PROVE  lvl'[k][s] = IF Reached(k, a) /\ s = SetOf(k, a)
                          THEN Accessed(k, lvl[k][s], TagOf(k, a), r) ELSE lvl[k][s]
  BY <1>3
<1>5. ASSUME NEW k \in Levels
      PROVE  lvl'[k] = [s \in 0 .. cfg[k].sets - 1 |-> lvl'[k][s]]
  BY <1>3
<1>6. lvl' = [k \in Levels |-> lvl'[k]]
  BY <1>1
<1>7. lvl' = [k \in Levels |-> [s \in 0 .. cfg[k].sets - 1 |-> lvl'[k][s]]]
  BY <1>5, <1>6, Zenon
<1>8. Shape'
  <2>1. Levels' = Levels
    BY <1>1 DEF Levels
  <2> QED
    BY <1>1, <1>7, <2>1 DEF Shape
<1> QED
  BY <1>1, <1>4, <1>8

(* flush() clears every set of every level.                                *)
LEMMA FlushSets ==
    ASSUME Shape, flush
    PROVE  /\ Shape' /\ cfg' = cfg
           /\ \A k \in Levels : \A s \in 0 .. cfg[k].sets - 1 : lvl'[k][s] = Cleared(k, lvl[k][s])
<1>1. cfg' = cfg /\ lvl' = [k \in Levels |-> [s \in DOMAIN lvl[k] |-> Cleared(k, lvl[k][s])]]
  BY DEF flush
<1>2. lvl = [k \in Levels |-> [s \in 0 .. cfg[k].sets - 1 |-> lvl[k][s]]]
  BY DEF Shape
<1>3. \A k \in Levels : DOMAIN lvl[k] = 0 .. cfg[k].sets - 1
  BY <1>2
<1>4. \A k \in Levels : lvl'[k] = [s \in 0 .. cfg[k].sets - 1 |-> Cleared(k, lvl[k][s])]
  BY <1>1, <1>3
<1>5. ASSUME NEW k \in Levels
      PROVE  lvl'[k] = [s \in 0 .. cfg[k].sets - 1 |-> lvl'[k][s]]
  BY <1>4
<1>6. lvl' = [k \in Levels |-> lvl'[k]]
  BY <1>1
<1>7. lvl' = [k \in Levels |-> [s \in 0 .. cfg[k].sets - 1 |-> lvl'[k][s]]]
  BY <1>5, <1>6, Zenon
<1>8. Shape'
  <2>1. Levels' = Levels
    BY <1>1 DEF Levels
  <2> QED
    BY <1>1, <1>7, <2>1 DEF Shape
<1> QED
  BY <1>1, <1>4, <1>8

(* flush_line() reaches one set of each level with lists.                  *)
LEMMA FlushLineSets ==
    ASSUME Shape, NEW a, flush_line(a)
    PROVE  /\ Shape' /\ cfg' = cfg
           /\ \A k \in Levels : \A s \in 0 .. cfg[k].sets - 1 :
                 lvl'[k][s] = IF cfg[k].kind \in ListKinds /\ s = SetOf(k, a)
                              THEN erase(lvl[k][s], find(lvl[k][s], TagOf(k, a))) ELSE lvl[k][s]
<1>1. /\ cfg' = cfg
      /\ lvl' = [k \in Levels |->
                  IF cfg[k].kind \in ListKinds
                  THEN [lvl[k] EXCEPT ![SetOf(k, a)] = erase(@, find(@, TagOf(k, a)))]
                  ELSE lvl[k]]
  BY DEF flush_line
<1>2. lvl = [k \in Levels |-> [s \in 0 .. cfg[k].sets - 1 |-> lvl[k][s]]]
  BY DEF Shape
<1>3. ASSUME NEW k \in Levels
      PROVE  lvl'[k] = [s \in 0 .. cfg[k].sets - 1 |->
                 IF cfg[k].kind \in ListKinds /\ s = SetOf(k, a)
                 THEN erase(lvl[k][s], find(lvl[k][s], TagOf(k, a))) ELSE lvl[k][s]]
  <2>1. lvl[k] = [s \in 0 .. cfg[k].sets - 1 |-> lvl[k][s]]
    BY <1>2
  <2>2. lvl'[k] = IF cfg[k].kind \in ListKinds
                  THEN [lvl[k] EXCEPT ![SetOf(k, a)] = erase(@, find(@, TagOf(k, a)))]
                  ELSE lvl[k]
    BY <1>1
  <2> QED
    BY <2>1, <2>2
<1>4. ASSUME NEW k \in Levels, NEW s \in 0 .. cfg[k].sets - 1
      PROVE  lvl'[k][s] = IF cfg[k].kind \in ListKinds /\ s = SetOf(k, a)
                          THEN erase(lvl[k][s], find(lvl[k][s], TagOf(k, a))) ELSE lvl[k][s]
  BY <1>3
<1>5. ASSUME NEW k \in Levels
      PROVE  lvl'[k] = [s \in 0 .. cfg[k].sets - 1 |-> lvl'[k][s]]
  BY <1>3
<1>6. lvl' = [k \in Levels |-> lvl'[k]]
  BY <1>1
<1>7. lvl' = [k \in Levels |-> [s \in 0 .. cfg[k].sets - 1 |-> lvl'[k][s]]]
  BY <1>5, <1>6, Zenon
<1>8. Shape'
  <2>1. Levels' = Levels
    BY <1>1 DEF Levels
  <2> QED
    BY <1>1, <1>7, <2>1 DEF Shape
<1> QED
  BY <1>1, <1>4, <1>8

(* The constructors make every set empty.                                  *)
LEMMA InitSets ==
    ASSUME Init
    PROVE  /\ Shape
           /\ \A k \in Levels : \A s \in 0 .. cfg[k].sets - 1 : lvl[k][s] = EmptySet(k)
<1>1. cfg \in Configs /\ lvl = [k \in Levels |-> [s \in 0 .. cfg[k].sets - 1 |-> EmptySet(k)]]
  BY DEF Init
<1>2. \A k \in Levels : \A s \in 0 .. cfg[k].sets - 1 : lvl[k][s] = EmptySet(k)
  BY <1>1
<1>3. lvl = [k \in Levels |-> [s \in 0 .. cfg[k].sets - 1 |-> lvl[k][s]]]
  BY <1>1, <1>2
<1> QED
  BY <1>1, <1>2, <1>3 DEF Shape

(* No class keeps its tags in lists and in a tree (sim_cache.hh:337).      *)
LEMMA KindsApart == ListKinds \cap TreeKinds = {}
BY DEF ListKinds, TreeKinds

-----------------------------------------------------------------------------
(* The classes with lists                                                  *)

(* The lists a constructor makes are empty.                                *)
LEMMA InitLists == ASSUME Init PROVE ListsHeld
<1>1. Shape /\ \A k \in Levels : \A s \in 0 .. cfg[k].sets - 1 : lvl[k][s] = EmptySet(k)
  BY InitSets
<1>2. ASSUME NEW k \in Levels, cfg[k].kind \in ListKinds PROVE EmptySet(k) = EmptyList
  BY <1>2 DEF EmptySet, ListKinds, TreeKinds
<1>3. \A k \in Levels : 0 <= cfg[k].assoc
  BY <1>1, CfgFacts DEF Shape
<1>4. Rep(EmptyList, <<>>) /\ Len(<<>>) = 0
  BY EmptyRep
<1> QED
  BY <1>1, <1>2, <1>3, <1>4 DEF ListsHeld

(* What the step of one set may assume of it.                              *)
LEMMA ListOf ==
    ASSUME Wide, Shape, ListsHeld, NEW k \in Levels, cfg[k].kind \in ListKinds,
           NEW s \in 0 .. cfg[k].sets - 1
    PROVE  \E w : /\ Rep(lvl[k][s], w) /\ Len(w) <= cfg[k].assoc /\ Len(w) <= MaxNodes
                  /\ cfg[k].assoc \in Nat /\ cfg[k].assoc >= 2 /\ cfg[k].assoc <= MaxNodes
<1>1. PICK w : Rep(lvl[k][s], w) /\ Len(w) <= cfg[k].assoc
  BY DEF ListsHeld
<1>2. cfg \in Configs
  BY DEF Shape
<1>3. cfg[k].assoc \in Nat /\ cfg[k].assoc <= MaxNodes
  BY <1>2, CfgFacts
<1>4. cfg[k].assoc >= 2
  BY <1>2 DEF Wide, Levels
<1>5. Len(w) \in Nat /\ MaxNodes \in Nat
  BY <1>1, NodesAssumption DEF Rep, Linked
<1>6. Len(w) <= MaxNodes
  BY <1>1, <1>3, <1>5
<1> QED
  BY <1>1, <1>3, <1>4, <1>6

(* An access leaves lists, and makes the tags of the set what LRU          *)
(* replacement prescribes (sim_cache.cc:17).                               *)
LEMMA AccessLists ==
    ASSUME Wide, Shape, ListsHeld, NEW a \in Addrs, NEW r, access(a, r)
    PROVE  /\ ListsHeld'
           /\ \A k \in Levels : cfg[k].kind \in ListKinds =>
                 \A s \in 0 .. cfg[k].sets - 1 :
                    Tags(lvl'[k][s]) = IF Reached(k, a) /\ s = SetOf(k, a)
                                       THEN Touched(Tags(lvl[k][s]), TagOf(k, a), cfg[k].assoc)
                                       ELSE Tags(lvl[k][s])
<1>1. /\ cfg' = cfg
      /\ \A k \in Levels : \A s \in 0 .. cfg[k].sets - 1 :
            lvl'[k][s] = IF Reached(k, a) /\ s = SetOf(k, a)
                         THEN Accessed(k, lvl[k][s], TagOf(k, a), r) ELSE lvl[k][s]
  BY AccessSets
<1>2. ASSUME NEW k \in Levels, cfg[k].kind \in ListKinds, NEW s \in 0 .. cfg[k].sets - 1
      PROVE  /\ \E w : Rep(lvl'[k][s], w) /\ Len(w) <= cfg[k].assoc
             /\ Tags(lvl'[k][s]) = IF Reached(k, a) /\ s = SetOf(k, a)
                                   THEN Touched(Tags(lvl[k][s]), TagOf(k, a), cfg[k].assoc)
                                   ELSE Tags(lvl[k][s])
  <2>1. PICK w : /\ Rep(lvl[k][s], w) /\ Len(w) <= cfg[k].assoc
                 /\ cfg[k].assoc \in Nat /\ cfg[k].assoc >= 2 /\ cfg[k].assoc <= MaxNodes
    BY <1>2, ListOf
  <2>2. TagOf(k, a) \in Nat
    BY TagsAndSets DEF Shape
  <2>3. CASE Reached(k, a) /\ s = SetOf(k, a)
    <3>1. Accessed(k, lvl[k][s], TagOf(k, a), r) = ListAccess(lvl[k][s], cfg[k].assoc, TagOf(k, a))
      BY <1>2 DEF Accessed, ListKinds, TreeKinds
    <3>2. lvl'[k][s] = ListAccess(lvl[k][s], cfg[k].assoc, TagOf(k, a))
      BY <1>1, <2>3, <3>1
    <3>3. LET m == ListAccess(lvl[k][s], cfg[k].assoc, TagOf(k, a))
          IN  /\ \E v : Rep(m, v) /\ Len(v) <= cfg[k].assoc
              /\ Tags(m) = Touched(Tags(lvl[k][s]), TagOf(k, a), cfg[k].assoc)
      BY <2>1, <2>2, AccessTags
    <3> QED
      BY <2>3, <3>2, <3>3
  <2>4. CASE ~ (Reached(k, a) /\ s = SetOf(k, a))
    BY <1>1, <2>1, <2>4
  <2> QED
    BY <2>3, <2>4
<1>3. ListsHeld'
  BY <1>1, <1>2 DEF ListsHeld, Levels
<1> QED
  BY <1>2, <1>3

(* flush() leaves empty lists.                                             *)
LEMMA FlushLists ==
    ASSUME Shape, ListsHeld, flush
    PROVE  /\ ListsHeld'
           /\ \A k \in Levels : cfg[k].kind \in ListKinds =>
                 \A s \in 0 .. cfg[k].sets - 1 : lvl'[k][s] = EmptyList
<1>1. /\ cfg' = cfg
      /\ \A k \in Levels : \A s \in 0 .. cfg[k].sets - 1 : lvl'[k][s] = Cleared(k, lvl[k][s])
  BY FlushSets
<1>2. ASSUME NEW k \in Levels, cfg[k].kind \in ListKinds, NEW s \in 0 .. cfg[k].sets - 1
      PROVE  lvl'[k][s] = EmptyList
  <2>1. Cleared(k, lvl[k][s]) = EmptySet(k)
    BY <1>2 DEF Cleared, ListKinds, TreeKinds
  <2>2. EmptySet(k) = EmptyList
    BY <1>2 DEF EmptySet, ListKinds, TreeKinds
  <2> QED
    BY <1>1, <2>1, <2>2
<1>3. \A k \in Levels : 0 <= cfg[k].assoc
  BY CfgFacts DEF Shape
<1>4. Rep(EmptyList, <<>>) /\ Len(<<>>) = 0
  BY EmptyRep
<1>5. ListsHeld'
  BY <1>1, <1>2, <1>3, <1>4 DEF ListsHeld, Levels
<1> QED
  BY <1>2, <1>5

(* flush_line() leaves lists, without the tag (sim_cache.cc:327).          *)
LEMMA FlushLineLists ==
    ASSUME Wide, Shape, ListsHeld, NEW a \in Addrs, flush_line(a)
    PROVE  /\ ListsHeld'
           /\ \A k \in Levels : cfg[k].kind \in ListKinds =>
                 \A s \in 0 .. cfg[k].sets - 1 :
                    Tags(lvl'[k][s]) = IF s = SetOf(k, a)
                                       THEN RemoveFirst(Tags(lvl[k][s]), TagOf(k, a))
                                       ELSE Tags(lvl[k][s])
<1>1. /\ cfg' = cfg
      /\ \A k \in Levels : \A s \in 0 .. cfg[k].sets - 1 :
            lvl'[k][s] = IF cfg[k].kind \in ListKinds /\ s = SetOf(k, a)
                         THEN erase(lvl[k][s], find(lvl[k][s], TagOf(k, a))) ELSE lvl[k][s]
  BY FlushLineSets
<1>2. ASSUME NEW k \in Levels, cfg[k].kind \in ListKinds, NEW s \in 0 .. cfg[k].sets - 1
      PROVE  /\ \E w : Rep(lvl'[k][s], w) /\ Len(w) <= cfg[k].assoc
             /\ Tags(lvl'[k][s]) = IF s = SetOf(k, a)
                                   THEN RemoveFirst(Tags(lvl[k][s]), TagOf(k, a))
                                   ELSE Tags(lvl[k][s])
  <2>1. PICK w : /\ Rep(lvl[k][s], w) /\ Len(w) <= cfg[k].assoc /\ Len(w) <= MaxNodes
                 /\ cfg[k].assoc \in Nat
    BY <1>2, ListOf
  <2>2. CASE s = SetOf(k, a)
    <3>1. lvl'[k][s] = erase(lvl[k][s], find(lvl[k][s], TagOf(k, a)))
      BY <1>1, <1>2, <2>2
    <3>2. LET m == erase(lvl[k][s], find(lvl[k][s], TagOf(k, a)))
          IN  /\ \E v : Rep(m, v) /\ Len(v) <= Len(w)
              /\ Tags(m) = RemoveFirst(Tags(lvl[k][s]), TagOf(k, a))
      BY <2>1, EraseTags
    <3>3. PICK v : Rep(lvl'[k][s], v) /\ Len(v) <= Len(w)
      BY <3>1, <3>2
    <3>4. Len(v) \in Nat /\ Len(w) \in Nat
      BY <2>1, <3>3 DEF Rep, Linked
    <3>5. Len(v) <= cfg[k].assoc
      BY <2>1, <3>3, <3>4
    <3> QED
      BY <2>2, <3>1, <3>2, <3>3, <3>5
  <2>3. CASE s # SetOf(k, a)
    BY <1>1, <2>1, <2>3
  <2> QED
    BY <2>2, <2>3
<1>3. ListsHeld'
  BY <1>1, <1>2 DEF ListsHeld, Levels
<1> QED
  BY <1>2, <1>3

ListInv == Shape /\ ListsHeld

(* No operation of a level breaks a list.                                  *)
LEMMA NextLists ==
    ASSUME Wide, ListInv, [Next]_vars
    PROVE  ListInv'
<1>1. ASSUME NEW a \in Addrs, NEW r \in Rands, access(a, r) PROVE ListInv'
  BY <1>1, AccessSets, AccessLists DEF ListInv
<1>2. ASSUME flush PROVE ListInv'
  BY <1>2, FlushSets, FlushLists DEF ListInv
<1>3. ASSUME NEW a \in Addrs, flush_line(a) PROVE ListInv'
  BY <1>3, FlushLineSets, FlushLineLists DEF ListInv
<1>4. ASSUME UNCHANGED vars PROVE ListInv'
  BY <1>4 DEF ListInv, Shape, ListsHeld, vars, Levels
<1> QED
  BY <1>1, <1>2, <1>3, <1>4 DEF Next

(* With two ways or more, the list of every set stays a list, whatever     *)
(* hits, is replaced or is flushed: find() ends, clear() frees all of it   *)
(* (sim_cache.hh:28, sim_cache.cc:17).                                     *)
THEOREM ListsIntact == Wide => (Spec => []ListIntact)
<1> SUFFICES ASSUME Wide PROVE Spec => []ListIntact
  OBVIOUS
<1>1. Init => ListInv
  BY InitSets, InitLists DEF ListInv
<1>2. ListInv /\ [Next]_vars => ListInv'
  BY NextLists
<1>3. ListInv => ListIntact
  <2> SUFFICES ASSUME ListInv, NEW k \in Levels, cfg[k].kind \in ListKinds, NEW s \in DOMAIN lvl[k]
               PROVE  Intact(lvl[k][s])
    BY DEF ListIntact
  <2>1. s \in 0 .. cfg[k].sets - 1
    <3>1. lvl[k] = [x \in 0 .. cfg[k].sets - 1 |-> lvl[k][x]]
      BY DEF ListInv, Shape
    <3> QED
      BY <3>1
  <2>2. PICK w : Rep(lvl[k][s], w) /\ Len(w) <= MaxNodes
    BY <2>1, ListOf DEF ListInv
  <2> QED
    BY <2>2, IntactRep
<1> QED
  BY <1>1, <1>2, <1>3, PTL DEF Spec

-----------------------------------------------------------------------------
(* The classes with trees                                                  *)

TreeOk(set, assoc) == TreeSet(set, assoc) /\ WaysOnce(set) /\ AllValidExact(set)

(* A new set of a tree class has no valid way, and says so.                *)
LEMMA EmptyTree ==
    ASSUME cfg \in Configs, NEW k \in Levels, cfg[k].kind \in TreeKinds
    PROVE  TreeOk(EmptySet(k), cfg[k].assoc)
<1> DEFINE ways == 0 .. cfg[k].assoc - 1
           e == EmptySet(k)
<1>1. PICK q : q = IF cfg[k].kind = "realLRU" THEN <<>> ELSE [n \in 1 .. cfg[k].assoc - 1 |-> 0]
  OBVIOUS
<1>2. e = [valid |-> [i \in ways |-> FALSE], tag |-> [i \in ways |-> 0],
           allvalid |-> FALSE, lru |-> q]
  BY <1>1 DEF EmptySet, ListKinds, TreeKinds
<1> HIDE DEF e
<1>3. /\ e.valid = [i \in ways |-> FALSE] /\ e.tag = [i \in ways |-> 0] /\ e.allvalid = FALSE
      /\ e.lru = q
  BY <1>2
<1>4. 0 \in ways
  BY CfgFacts
<1>5. TreeSet(e, cfg[k].assoc)
  BY <1>2, <1>3 DEF TreeSet
<1>6. WaysOnce(e) /\ AllValidExact(e)
  BY <1>3, <1>4 DEF WaysOnce, AllValidExact
<1> QED
  BY <1>5, <1>6 DEF TreeOk, e

(* updateLRU leaves the tags alone.                                        *)
LEMMA OnlyLru ==
    ASSUME NEW set, NEW assoc, TreeOk(set, assoc), NEW q
    PROVE  TreeOk([set EXCEPT !.lru = q], assoc)
<1> DEFINE m == [set EXCEPT !.lru = q]
<1>1. m = [valid |-> set.valid, tag |-> set.tag, allvalid |-> set.allvalid, lru |-> q]
  <2>1. set = [valid |-> set.valid, tag |-> set.tag, allvalid |-> set.allvalid, lru |-> set.lru]
    BY DEF TreeOk, TreeSet
  <2>2. m = [set EXCEPT !.lru = q]
    OBVIOUS
  <2> HIDE DEF m
  <2> QED
    BY <2>1, <2>2
<1> HIDE DEF m
<1>2. /\ m = [valid |-> m.valid, tag |-> m.tag, allvalid |-> m.allvalid, lru |-> m.lru]
      /\ m.valid = set.valid /\ m.tag = set.tag /\ m.allvalid = set.allvalid
  BY <1>1
<1>3. TreeSet(m, assoc)
  BY <1>2, Zenon DEF TreeOk, TreeSet
<1>4. WaysOnce(m)
  BY <1>2, Zenon DEF TreeOk, WaysOnce
<1>5. AllValidExact(m)
  BY <1>2, Zenon DEF TreeOk, AllValidExact
<1> QED
  BY <1>3, <1>4, <1>5 DEF TreeOk, m

(* A full set that misses: the line goes into one way, which stays valid.  *)
LEMMA Replaced ==
    ASSUME NEW set, NEW assoc, TreeOk(set, assoc), NEW t, WaysOf(set, t) = {}, set.allvalid,
           NEW i, NEW q
    PROVE  TreeOk([set EXCEPT !.tag[i] = t, !.lru = q], assoc)
<1> DEFINE m == [set EXCEPT !.tag[i] = t, !.lru = q]
           g == [set.tag EXCEPT ![i] = t]
<1>1. m = [valid |-> set.valid, tag |-> g, allvalid |-> set.allvalid, lru |-> q]
  <2>1. set = [valid |-> set.valid, tag |-> set.tag, allvalid |-> set.allvalid, lru |-> set.lru]
    BY DEF TreeOk, TreeSet
  <2>2. m = [set EXCEPT !.tag = g, !.lru = q]
    OBVIOUS
  <2> HIDE DEF m, g
  <2> QED
    BY <2>1, <2>2
<1> HIDE DEF m
<1>2. /\ m = [valid |-> m.valid, tag |-> m.tag, allvalid |-> m.allvalid, lru |-> m.lru]
      /\ m.valid = set.valid /\ m.tag = g /\ m.allvalid = set.allvalid
  BY <1>1
<1>3. /\ DOMAIN set.tag = 0 .. assoc - 1 /\ set.tag = [w \in 0 .. assoc - 1 |-> set.tag[w]]
      /\ set.valid \in [0 .. assoc - 1 -> BOOLEAN] /\ set.allvalid \in BOOLEAN
  BY DEF TreeOk, TreeSet
<1>4. DOMAIN g = 0 .. assoc - 1 /\ g = [w \in 0 .. assoc - 1 |-> g[w]]
      /\ \A w \in 0 .. assoc - 1 : g[w] = IF w = i THEN t ELSE set.tag[w]
  BY <1>3
<1> HIDE DEF g
<1>5. \A w \in 0 .. assoc - 1 : set.tag[w] # t
  BY <1>3 DEF WaysOf
<1>6. TreeSet(m, assoc)
  BY <1>2, <1>3, <1>4, Zenon DEF TreeSet
<1>7. WaysOnce(m)
  <2>1. WaysOnce(set)
    BY DEF TreeOk
  <2> SUFFICES ASSUME NEW x \in 0 .. assoc - 1, NEW y \in 0 .. assoc - 1,
                      set.valid[x], set.valid[y], g[x] = g[y]
               PROVE  x = y
    BY <1>2, <1>4 DEF WaysOnce
  <2>2. g[x] = (IF x = i THEN t ELSE set.tag[x]) /\ g[y] = (IF y = i THEN t ELSE set.tag[y])
    BY <1>4
  <2>3. set.tag[x] = set.tag[y] => x = y
    BY <1>3, <2>1, Zenon DEF WaysOnce
  <2>4. set.tag[x] # t /\ set.tag[y] # t
    BY <1>5
  <2> QED
    BY <2>2, <2>3, <2>4
<1>8. AllValidExact(m)
  BY <1>2, Zenon DEF TreeOk, AllValidExact
<1> QED
  BY <1>6, <1>7, <1>8 DEF TreeOk, m

(* A set with room that misses: the line goes into a way that was free.    *)
LEMMA FilledOk ==
    ASSUME NEW set, NEW assoc, TreeOk(set, assoc), NEW t, WaysOf(set, t) = {}, ~ set.allvalid,
           NEW i, NEW kind
    PROVE  TreeOk(Filled(kind, set, assoc, i, t), assoc)
<1> DEFINE m == Filled(kind, set, assoc, i, t)
           v == [set.valid EXCEPT ![i] = TRUE]
           g == [set.tag EXCEPT ![i] = t]
<1>1. PICK q : q = Updated(kind, set.lru, assoc, i)
  OBVIOUS
<1>2. PICK b \in BOOLEAN : b = \A w \in DOMAIN v : v[w]
  OBVIOUS
<1>3. m = [valid |-> v, tag |-> g, allvalid |-> b, lru |-> q]
  <2>1. set = [valid |-> set.valid, tag |-> set.tag, allvalid |-> set.allvalid, lru |-> set.lru]
    BY DEF TreeOk, TreeSet
  <2>2. m = [set EXCEPT !.valid = v, !.tag[i] = t, !.allvalid = b, !.lru = q]
    BY <1>1, <1>2 DEF Filled
  <2> HIDE DEF v, m
  <2> QED
    BY <2>1, <2>2
<1> HIDE DEF m
<1>4. /\ m = [valid |-> m.valid, tag |-> m.tag, allvalid |-> m.allvalid, lru |-> m.lru]
      /\ m.valid = v /\ m.tag = g /\ m.allvalid = b
  <2> HIDE DEF v, g
  <2> QED
    BY <1>3
<1>5. /\ DOMAIN set.tag = 0 .. assoc - 1 /\ set.tag = [w \in 0 .. assoc - 1 |-> set.tag[w]]
      /\ set.valid \in [0 .. assoc - 1 -> BOOLEAN] /\ set.allvalid = FALSE
  BY DEF TreeOk, TreeSet
<1>6. DOMAIN g = 0 .. assoc - 1 /\ g = [w \in 0 .. assoc - 1 |-> g[w]]
      /\ \A w \in 0 .. assoc - 1 : g[w] = IF w = i THEN t ELSE set.tag[w]
  BY <1>5
<1>7. v \in [0 .. assoc - 1 -> BOOLEAN] /\ \A w \in 0 .. assoc - 1 : w # i => v[w] = set.valid[w]
  BY <1>5
<1> HIDE DEF g, v
<1>8. \A w \in 0 .. assoc - 1 : set.valid[w] => set.tag[w] # t
  BY <1>5 DEF WaysOf
<1>9. TreeSet(m, assoc)
  BY <1>2, <1>4, <1>6, <1>7, Zenon DEF TreeSet
<1>10. WaysOnce(m)
  <2>1. WaysOnce(set)
    BY DEF TreeOk
  <2> SUFFICES ASSUME NEW x \in 0 .. assoc - 1, NEW y \in 0 .. assoc - 1,
                      v[x], v[y], g[x] = g[y]
               PROVE  x = y
    BY <1>4, <1>6 DEF WaysOnce
  <2>2. g[x] = (IF x = i THEN t ELSE set.tag[x]) /\ g[y] = (IF y = i THEN t ELSE set.tag[y])
    BY <1>6
  <2>3. (x # i => set.valid[x]) /\ (y # i => set.valid[y])
    BY <1>7, Zenon
  <2>4. x # i /\ y # i /\ set.tag[x] = set.tag[y] => x = y
    BY <1>5, <2>1, <2>3, Zenon DEF WaysOnce
  <2>5. (x # i => set.tag[x] # t) /\ (y # i => set.tag[y] # t)
    BY <1>8, <2>3, Zenon
  <2> QED
    BY <2>2, <2>4, <2>5
<1>11. AllValidExact(m)
  BY <1>2, <1>4, Zenon DEF AllValidExact
<1> QED
  BY <1>9, <1>10, <1>11 DEF TreeOk, m

(* access() of one set of a tree class: a hit, a full set, a set with room *)
(* (sim_cache.cc:420, 548, 868).                                                *)
LEMMA TreeAccessOk ==
    ASSUME NEW set, NEW assoc, TreeOk(set, assoc), NEW t, NEW kind
    PROVE  TreeOk(TreeAccess(kind, set, assoc, t), assoc)
<1>1. CASE WaysOf(set, t) # {}
  <2>1. PICK q : q = Updated(kind, set.lru, assoc, Min(WaysOf(set, t)))
    OBVIOUS
  <2>2. TreeAccess(kind, set, assoc, t) = [set EXCEPT !.lru = q]
    BY <1>1, <2>1 DEF TreeAccess
  <2> QED
    BY <2>2, OnlyLru
<1>2. CASE WaysOf(set, t) = {} /\ set.allvalid
  <2>1. PICK i : i = FoundLRU(kind, set.lru, assoc)
    OBVIOUS
  <2>2. PICK q : q = AfterFind(kind, set.lru, assoc, i)
    OBVIOUS
  <2>3. TreeAccess(kind, set, assoc, t) = [set EXCEPT !.tag[i] = t, !.lru = q]
    BY <1>2, <2>1, <2>2 DEF TreeAccess
  <2>4. TreeOk([set EXCEPT !.tag[i] = t, !.lru = q], assoc)
    BY <1>2, Replaced
  <2> QED
    BY <2>3, <2>4
<1>3. CASE WaysOf(set, t) = {} /\ ~ set.allvalid
  <2>1. PICK i : i = Min({w \in DOMAIN set.tag : ~ set.valid[w]})
    OBVIOUS
  <2>2. TreeAccess(kind, set, assoc, t) = Filled(kind, set, assoc, i, t)
    BY <1>3, <2>1 DEF TreeAccess
  <2> QED
    BY <1>3, <2>2, FilledOk
<1> QED
  BY <1>1, <1>2, <1>3

(* flush() clears valid and allvalid together.                             *)
LEMMA ClearedOk ==
    ASSUME NEW k, cfg[k].kind \in TreeKinds, NEW set, NEW assoc \in Nat \ {0}, TreeOk(set, assoc)
    PROVE  TreeOk(Cleared(k, set), assoc)
<1> DEFINE m == Cleared(k, set)
           v == [i \in 0 .. assoc - 1 |-> FALSE]
<1>1. /\ set = [valid |-> set.valid, tag |-> set.tag, allvalid |-> set.allvalid, lru |-> set.lru]
      /\ DOMAIN set.valid = 0 .. assoc - 1
      /\ DOMAIN set.tag = 0 .. assoc - 1 /\ set.tag = [i \in 0 .. assoc - 1 |-> set.tag[i]]
  BY DEF TreeOk, TreeSet
<1>2. m = [set EXCEPT !.valid = v, !.allvalid = FALSE]
  BY <1>1 DEF Cleared
<1> HIDE DEF m
<1>3. /\ m = [valid |-> m.valid, tag |-> m.tag, allvalid |-> m.allvalid, lru |-> m.lru]
      /\ m.valid = v /\ m.tag = set.tag /\ m.allvalid = FALSE
  BY <1>1, <1>2
<1>4. 0 \in 0 .. assoc - 1
  OBVIOUS
<1>5. TreeSet(m, assoc)
  BY <1>1, <1>3 DEF TreeSet
<1>6. WaysOnce(m) /\ AllValidExact(m)
  BY <1>1, <1>3, <1>4 DEF WaysOnce, AllValidExact
<1> QED
  BY <1>5, <1>6 DEF TreeOk, m

TreeInv ==
    /\ Shape
    /\ \A k \in Levels : cfg[k].kind \in TreeKinds =>
          \A s \in 0 .. cfg[k].sets - 1 : TreeOk(lvl[k][s], cfg[k].assoc)

(* No operation of a level makes a set of ways inexact.                    *)
LEMMA NextTrees ==
    ASSUME TreeInv, [Next]_vars
    PROVE  TreeInv'
<1>0. Shape /\ cfg \in Configs
  BY DEF TreeInv, Shape
<1>1. ASSUME NEW a \in Addrs, NEW r \in Rands, access(a, r) PROVE TreeInv'
  <2>1. /\ Shape' /\ cfg' = cfg
        /\ \A k \in Levels : \A s \in 0 .. cfg[k].sets - 1 :
              lvl'[k][s] = IF Reached(k, a) /\ s = SetOf(k, a)
                           THEN Accessed(k, lvl[k][s], TagOf(k, a), r) ELSE lvl[k][s]
    BY <1>0, <1>1, AccessSets
  <2>2. ASSUME NEW k \in Levels, cfg[k].kind \in TreeKinds, NEW s \in 0 .. cfg[k].sets - 1
        PROVE  TreeOk(lvl'[k][s], cfg[k].assoc)
    <3>1. TreeOk(lvl[k][s], cfg[k].assoc)
      BY <2>2 DEF TreeInv
    <3>2. Accessed(k, lvl[k][s], TagOf(k, a), r)
              = TreeAccess(cfg[k].kind, lvl[k][s], cfg[k].assoc, TagOf(k, a))
      BY <2>2 DEF Accessed, ListKinds, TreeKinds
    <3>3. TreeOk(Accessed(k, lvl[k][s], TagOf(k, a), r), cfg[k].assoc)
      BY <3>1, <3>2, TreeAccessOk
    <3> QED
      BY <2>1, <3>1, <3>3
  <2> QED
    BY <2>1, <2>2 DEF TreeInv, Levels
<1>2. ASSUME flush PROVE TreeInv'
  <2>1. /\ Shape' /\ cfg' = cfg
        /\ \A k \in Levels : \A s \in 0 .. cfg[k].sets - 1 : lvl'[k][s] = Cleared(k, lvl[k][s])
    BY <1>0, <1>2, FlushSets
  <2>2. ASSUME NEW k \in Levels, cfg[k].kind \in TreeKinds, NEW s \in 0 .. cfg[k].sets - 1
        PROVE  TreeOk(lvl'[k][s], cfg[k].assoc)
    <3>1. TreeOk(lvl[k][s], cfg[k].assoc)
      BY <2>2 DEF TreeInv
    <3>2. cfg[k].assoc \in Nat \ {0}
      BY <1>0, CfgFacts
    <3> QED
      BY <2>1, <2>2, <3>1, <3>2, ClearedOk
  <2> QED
    BY <2>1, <2>2 DEF TreeInv, Levels
<1>3. ASSUME NEW a \in Addrs, flush_line(a) PROVE TreeInv'
  <2>1. /\ Shape' /\ cfg' = cfg
        /\ \A k \in Levels : \A s \in 0 .. cfg[k].sets - 1 :
              lvl'[k][s] = IF cfg[k].kind \in ListKinds /\ s = SetOf(k, a)
                           THEN erase(lvl[k][s], find(lvl[k][s], TagOf(k, a))) ELSE lvl[k][s]
    BY <1>0, <1>3, FlushLineSets
  <2>2. ASSUME NEW k \in Levels, cfg[k].kind \in TreeKinds, NEW s \in 0 .. cfg[k].sets - 1
        PROVE  TreeOk(lvl'[k][s], cfg[k].assoc)
    <3>1. cfg[k].kind \notin ListKinds
      BY <2>2, KindsApart
    <3>2. TreeOk(lvl[k][s], cfg[k].assoc)
      BY <2>2 DEF TreeInv
    <3> QED
      BY <2>1, <3>1, <3>2
  <2> QED
    BY <2>1, <2>2 DEF TreeInv, Levels
<1>4. ASSUME UNCHANGED vars PROVE TreeInv'
  BY <1>4 DEF TreeInv, Shape, vars, Levels
<1> QED
  BY <1>1, <1>2, <1>3, <1>4 DEF Next

(* No line is in two ways of a set, and allvalid, on whose word a lookup   *)
(* skips the valid bits, is never stale (sim_cache.cc:429).                *)
THEOREM WaysAreExact == Spec => []WaysExact
<1>1. Init => TreeInv
  BY InitSets, EmptyTree DEF TreeInv, Shape
<1>2. TreeInv /\ [Next]_vars => TreeInv'
  BY NextTrees
<1>3. TreeInv => WaysExact
  <2> SUFFICES ASSUME TreeInv, NEW k \in Levels, cfg[k].kind \in TreeKinds, NEW s \in DOMAIN lvl[k]
               PROVE  WaysOnce(lvl[k][s]) /\ AllValidExact(lvl[k][s])
    BY DEF WaysExact, WaysOnce, AllValidExact
  <2>1. s \in 0 .. cfg[k].sets - 1
    <3>1. lvl[k] = [x \in 0 .. cfg[k].sets - 1 |-> lvl[k][x]]
      BY DEF TreeInv, Shape
    <3> QED
      BY <3>1
  <2> QED
    BY <2>1 DEF TreeInv, TreeOk
<1> QED
  BY <1>1, <1>2, <1>3, PTL DEF Spec

-----------------------------------------------------------------------------
(* The tree of highAssocCache                                              *)

(* The laws of powers up to the ways of a set.                             *)
Doubling(a) == 2 ^ 0 = 1 /\ \A j \in 0 .. a : 2 ^ j \in Nat \ {0} /\ 2 ^ (j + 1) = 2 * 2 ^ j

(* Powers grow, and at least double.                                       *)
LEMMA PowersGrow ==
    ASSUME NEW a \in Nat, Doubling(a)
    PROVE  \A j \in 0 .. a : j + 1 <= 2 ^ j /\ \A i \in 0 .. j - 1 : 2 * 2 ^ i <= 2 ^ j
<1> DEFINE P(j) == j + 1 <= 2 ^ j /\ \A i \in 0 .. j - 1 : 2 * 2 ^ i <= 2 ^ j
           T == {j \in 0 .. a : ~ P(j)}
<1> SUFFICES ASSUME T # {} PROVE FALSE
  OBVIOUS
<1>1. T \in SUBSET Nat
  OBVIOUS
<1>2. PICK j \in T : \A k \in T : j <= k
  BY <1>1, Least
<1>3. j \in 0 .. a /\ ~ P(j)
  OBVIOUS
<1>4. j # 0
  BY <1>3 DEF Doubling
<1>5. j - 1 \in 0 .. a /\ j - 1 \notin T
  BY <1>2, <1>3, <1>4
<1>6. P(j - 1)
  BY <1>5
<1>7. 2 ^ j = 2 * 2 ^ (j - 1)
  <2>1. (j - 1) + 1 = j
    BY <1>3
  <2> QED
    BY <1>5, <2>1 DEF Doubling
<1>8. PICK p, q : p = 2 ^ (j - 1) /\ q = 2 ^ j
  OBVIOUS
<1>9. p \in Nat \ {0} /\ q = 2 * p
  BY <1>5, <1>7, <1>8 DEF Doubling
<1>10. j <= p
  BY <1>3, <1>6, <1>8
<1>11. j + 1 <= q
  BY <1>3, <1>4, <1>9, <1>10
<1>12. ASSUME NEW i \in 0 .. j - 1 PROVE 2 * 2 ^ i <= q
  <2>1. CASE i = j - 1
    BY <1>8, <1>9, <2>1
  <2>2. CASE i # j - 1
    <3>1. i \in 0 .. (j - 1) - 1 /\ i \in 0 .. a
      BY <1>3, <2>2
    <3>2. 2 * 2 ^ i <= p
      BY <1>6, <1>8, <3>1
    <3>3. 2 ^ i \in Nat
      BY <3>1 DEF Doubling
    <3> QED
      BY <1>9, <3>2, <3>3
  <2> QED
    BY <2>1, <2>2
<1> QED
  BY <1>3, <1>8, <1>11, <1>12

(* Dividing by at least twice as much at least halves.                     *)
LEMMA Halved ==
    ASSUME NEW x \in Nat, NEW p \in Nat \ {0}, NEW s \in Nat \ {0}, 2 * p <= s
    PROVE  2 * (x \div s) <= x \div p
<1>1. PICK q, r : q = x \div p /\ r = x \div s
  OBVIOUS
<1>2. q \in Nat /\ r \in Nat
  BY <1>1
<1>3. s * r <= x
  BY <1>1
<1>4. x < p * (q + 1)
  BY <1>1
<1>5. (2 * p) * r <= s * r
  BY <1>2
<1>6. p * (2 * r) < p * (q + 1)
  <2>1. (2 * p) * r = p * (2 * r)
    BY <1>2
  <2>2. s * r \in Nat /\ p * (2 * r) \in Nat /\ p * (q + 1) \in Nat
    BY <1>2
  <2> QED
    BY <1>3, <1>4, <1>5, <2>1, <2>2
<1>7. 2 * r < q + 1
  <2> SUFFICES ASSUME q + 1 <= 2 * r PROVE FALSE
    BY <1>2
  <2>1. p * (q + 1) <= p * (2 * r)
    BY <1>2
  <2> QED
    BY <1>2, <1>6, <2>1
<1> QED
  BY <1>1, <1>2, <1>7

(* Halving a quotient.                                                     *)
LEMMA HalfOf ==
    ASSUME NEW x \in Nat, NEW p \in Nat \ {0}
    PROVE  (x \div p) \div 2 = x \div (2 * p)
<1>1. PICK q, h : q = x \div p /\ h = q \div 2
  OBVIOUS
<1>2. q \in Nat /\ h \in Nat /\ 2 * h <= q /\ q + 1 <= 2 * h + 2
  BY <1>1
<1>3. p * q <= x /\ x < p * (q + 1)
  BY <1>1
<1>4. (2 * p) * h <= x
  <2>1. p * (2 * h) <= p * q
    BY <1>2
  <2>2. (2 * p) * h = p * (2 * h) /\ p * q \in Nat /\ p * (2 * h) \in Nat
    BY <1>2
  <2> QED
    BY <1>3, <2>1, <2>2
<1>5. x < (2 * p) * (h + 1)
  <2>1. p * (q + 1) <= p * (2 * h + 2)
    BY <1>2
  <2>2. (2 * p) * (h + 1) = p * (2 * h + 2) /\ p * (q + 1) \in Nat /\ p * (2 * h + 2) \in Nat
    BY <1>2
  <2> QED
    BY <1>3, <2>1, <2>2
<1>6. x \div (2 * p) = h
  <2>1. PICK s, k : s = 2 * p /\ k = x \div s
    OBVIOUS
  <2>2. s \in Nat \ {0} /\ k \in Nat /\ s * k <= x /\ x < s * (k + 1)
    BY <2>1
  <2>3. s * h <= x /\ x < s * (h + 1)
    BY <1>4, <1>5, <2>1
  <2>4. k < h + 1
    <3> SUFFICES ASSUME h + 1 <= k PROVE FALSE
      BY <1>2, <2>2
    <3>1. s * (h + 1) <= s * k
      BY <1>2, <2>2
    <3>2. s * (h + 1) \in Nat /\ s * k \in Nat
      BY <1>2, <2>2
    <3> QED
      BY <2>2, <2>3, <3>1, <3>2
  <2>5. h < k + 1
    <3> SUFFICES ASSUME k + 1 <= h PROVE FALSE
      BY <1>2, <2>2
    <3>1. s * (k + 1) <= s * h
      BY <1>2, <2>2
    <3>2. s * (k + 1) \in Nat /\ s * h \in Nat
      BY <1>2, <2>2
    <3> QED
      BY <2>2, <2>3, <3>1, <3>2
  <2>6. k = h
    BY <1>2, <2>2, <2>4, <2>5
  <2> QED
    BY <2>1, <2>6
<1> QED
  BY <1>1, <1>6

(* The nodes above a way, from the leaf to the root: each lies at least    *)
(* twice as deep as the one above it, and below an inner one is one of its *)
(* children.                                                               *)
LEMMA AboveIs ==
    ASSUME NEW a \in Nat \ {0}, Doubling(a), NEW i \in 0 .. a - 1
    PROVE  /\ Above(a, i) \subseteq 1 .. a + i /\ a + i \in Above(a, i) /\ 1 \in Above(a, i)
           /\ \A n \in Above(a, i) : n # 1 => n \div 2 \in Above(a, i)
           /\ \A m, n \in Above(a, i) : m < n => 2 * m <= n
           /\ \A n \in Above(a, i) : n < a => 2 * n \in Above(a, i) \/ 2 * n + 1 \in Above(a, i)
           /\ \A j \in 0 .. a : (a + i) \div 2 ^ j # 0 => (a + i) \div 2 ^ j \in Above(a, i)
<1> DEFINE A == Above(a, i)
<1>1. PICK x : x = a + i
  OBVIOUS
<1>2. x \in Nat \ {0} /\ a <= x /\ x <= 2 * a - 1
  BY <1>1
<1>3. A = {x \div 2 ^ j : j \in 0 .. a} \ {0}
  BY <1>1 DEF Above
<1> HIDE DEF A
<1>4. ASSUME NEW j \in 0 .. a PROVE 2 ^ j \in Nat \ {0} /\ x \div 2 ^ j \in Nat /\ x \div 2 ^ j <= x
  <2>1. 2 ^ j \in Nat \ {0}
    BY DEF Doubling
  <2>2. PICK p : p = 2 ^ j
    OBVIOUS
  <2>3. x \div p \in Nat
    BY <1>2, <2>1, <2>2
  <2>4. x \div p <= x
    <3>1. PICK q : q = x \div p
      OBVIOUS
    <3>2. q \in Nat /\ p * q <= x
      BY <1>2, <2>1, <2>2, <3>1
    <3>3. q <= p * q
      BY <2>1, <2>2, <3>2
    <3>4. p * q \in Nat
      BY <2>1, <2>2, <3>2
    <3> QED
      BY <1>2, <3>1, <3>2, <3>3, <3>4
  <2> QED
    BY <2>1, <2>2, <2>3, <2>4
<1>5. x \div 2 ^ 0 = x
  <2>1. x \div 1 = x
    BY <1>2
  <2> QED
    BY <2>1 DEF Doubling
<1>6. A \subseteq 1 .. x
  <2> SUFFICES ASSUME NEW n \in A PROVE n \in 1 .. x
    OBVIOUS
  <2>1. PICK j \in 0 .. a : n = x \div 2 ^ j
    BY <1>3
  <2>2. n # 0
    BY <1>3
  <2>3. n \in Nat /\ n <= x
    BY <1>4, <2>1
  <2> QED
    BY <1>2, <2>2, <2>3
<1>7. x \in A
  <2>1. 0 \in 0 .. a
    OBVIOUS
  <2> QED
    BY <1>2, <1>3, <1>5, <2>1
<1>8. ASSUME NEW n \in A, n # 1 PROVE n \div 2 \in A
  <2>1. PICK j \in 0 .. a : n = x \div 2 ^ j
    BY <1>3
  <2>2. n \in Nat /\ n >= 2
    BY <1>2, <1>6, <1>8
  <2>3. n \div 2 = x \div (2 * 2 ^ j)
    BY <1>2, <1>4, <2>1, HalfOf
  <2>4. j # a
    <3> SUFFICES ASSUME j = a PROVE FALSE
      OBVIOUS
    <3>1. PICK p : p = 2 ^ j
      OBVIOUS
    <3>2. p \in Nat \ {0} /\ a + 1 <= p
      <4>1. a + 1 <= 2 ^ a
        BY PowersGrow
      <4> QED
        BY <1>4, <3>1, <4>1
    <3>3. p * n <= x
      BY <1>2, <2>1, <3>1, <3>2
    <3>4. p * 2 <= p * n
      BY <2>2, <3>2
    <3>5. p * n \in Nat
      BY <2>2, <3>2
    <3> QED
      BY <1>2, <3>2, <3>3, <3>4, <3>5
  <2>5. j + 1 \in 0 .. a /\ 2 ^ (j + 1) = 2 * 2 ^ j
    BY <2>4 DEF Doubling
  <2>6. n \div 2 = x \div 2 ^ (j + 1)
    BY <2>3, <2>5
  <2>7. n \div 2 # 0
    BY <2>2
  <2> QED
    BY <1>3, <2>5, <2>6, <2>7
<1>9. ASSUME NEW m \in A, NEW n \in A, m < n PROVE 2 * m <= n
  <2>1. PICK j \in 0 .. a : m = x \div 2 ^ j
    BY <1>3
  <2>2. PICK k \in 0 .. a : n = x \div 2 ^ k
    BY <1>3
  <2>3. m \in Nat /\ n \in Nat /\ m # 0 /\ n # 0
    BY <1>2, <1>6
  <2>4. j # k
    BY <1>9, <2>1, <2>2, <2>3
  <2>5. CASE j < k
    <3>1. 2 * 2 ^ j <= 2 ^ k
      <4>1. j \in 0 .. k - 1
        BY <2>5
      <4> QED
        BY <4>1, PowersGrow
    <3>2. 2 * n <= m
      BY <1>2, <1>4, <2>1, <2>2, <3>1, Halved
    <3> QED
      BY <1>9, <2>3, <3>2
  <2>6. CASE k < j
    <3>1. 2 * 2 ^ k <= 2 ^ j
      <4>1. k \in 0 .. j - 1
        BY <2>6
      <4> QED
        BY <4>1, PowersGrow
    <3> QED
      BY <1>2, <1>4, <2>1, <2>2, <3>1, Halved
  <2> QED
    BY <2>4, <2>5, <2>6
<1>10. ASSUME NEW n \in A, n < a PROVE 2 * n \in A \/ 2 * n + 1 \in A
  <2>1. PICK j \in 0 .. a : n = x \div 2 ^ j
    BY <1>3
  <2>2. j # 0
    <3>1. n # x
      BY <1>2, <1>6, <1>10
    <3> QED
      BY <1>5, <2>1, <3>1
  <2>3. j - 1 \in 0 .. a /\ (j - 1) + 1 = j
    BY <2>2
  <2>4. 2 ^ j = 2 * 2 ^ (j - 1)
    <3>1. 2 ^ ((j - 1) + 1) = 2 * 2 ^ (j - 1)
      BY <2>3 DEF Doubling
    <3> QED
      BY <2>3, <3>1
  <2>5. PICK c : c = x \div 2 ^ (j - 1)
    OBVIOUS
  <2>6. c \in Nat /\ c \div 2 = n
    BY <1>2, <1>4, <2>1, <2>3, <2>4, <2>5, HalfOf
  <2>7. n \in Nat \ {0}
    BY <1>2, <1>6
  <2>8. c # 0 /\ (c = 2 * n \/ c = 2 * n + 1)
    BY <2>6, <2>7
  <2>9. c \in A
    BY <1>3, <2>3, <2>5, <2>8
  <2> QED
    BY <2>8, <2>9
<1>11. 1 \in A
  <2>1. A \in SUBSET Nat /\ A # {}
    BY <1>2, <1>6, <1>7
  <2>2. PICK n \in A : \A k \in A : n <= k
    BY <2>1, Least
  <2>3. n \in Nat \ {0}
    BY <1>2, <1>6
  <2>4. n # 1 => n \div 2 < n
    BY <2>3
  <2>5. n # 1 => n <= n \div 2
    BY <1>8, <2>2
  <2>6. n \div 2 \in Nat
    BY <2>3
  <2> QED
    BY <2>3, <2>4, <2>5, <2>6
<1>12. \A j \in 0 .. a : x \div 2 ^ j # 0 => x \div 2 ^ j \in A
  BY <1>3
<1> QED
  BY <1>1, <1>6, <1>7, <1>8, <1>9, <1>10, <1>11, <1>12 DEF A

(* A set of nodes shaped like that.                                        *)
Chained(A, a) ==
    /\ A \subseteq Nat \ {0} /\ 1 \in A
    /\ \A n \in A : n # 1 => n \div 2 \in A
    /\ \A m, n \in A : m < n => 2 * m <= n
    /\ \A n \in A : n < a => 2 * n \in A \/ 2 * n + 1 \in A

LEMMA AboveChained ==
    ASSUME NEW a \in Nat \ {0}, Doubling(a), NEW i \in 0 .. a - 1
    PROVE  Chained(Above(a, i), a)
BY AboveIs DEF Chained

(* Two chains that share a node share the nodes above it.                  *)
LEMMA SharedAbove ==
    ASSUME NEW a \in Nat, NEW A, NEW B, Chained(A, a), Chained(B, a),
           NEW n \in A, n \in B, n <= a, NEW m \in A, m <= n
    PROVE  m \in B
<1> DEFINE T == {k \in Nat : k \in A /\ k <= n /\ k \notin B}
           S == {n - k : k \in T}
<1> SUFFICES ASSUME T # {} PROVE FALSE
  BY DEF Chained
<1>1. n \in Nat
  BY DEF Chained
<1>2. S \in SUBSET Nat /\ S # {}
  BY <1>1
<1>3. PICK d \in S : \A e \in S : d <= e
  BY <1>2, Least
<1>4. PICK k \in T : d = n - k
  OBVIOUS
<1>5. k \in Nat /\ k \in A /\ k <= n /\ k \notin B /\ k # n
  OBVIOUS
<1>6. k < n /\ k < a /\ k # 0
  <2>1. k # 0
    BY <1>5 DEF Chained
  <2>2. k < n
    BY <1>1, <1>5
  <2> QED
    BY <1>1, <1>5, <2>1, <2>2
<1>7. 2 * k <= n
  BY <1>1, <1>5, <1>6 DEF Chained
<1>8. PICK c \in A : c = 2 * k \/ c = 2 * k + 1
  BY <1>5, <1>6 DEF Chained
<1>9. c <= n /\ c > k /\ c \in Nat /\ c # 1 /\ c \div 2 = k
  <2>1. c \in Nat /\ c > k /\ c # 1 /\ c \div 2 = k
    BY <1>5, <1>6, <1>8
  <2>2. c > n => 2 * n <= c
    BY <1>1, <1>8, <2>1 DEF Chained
  <2>3. c > n => FALSE
    BY <1>1, <1>5, <1>6, <1>7, <1>8, <2>1, <2>2
  <2> QED
    BY <1>1, <2>1, <2>3
<1>10. c \in B
  <2> SUFFICES ASSUME c \notin B PROVE FALSE
    OBVIOUS
  <2>1. c \in T
    BY <1>8, <1>9
  <2>2. n - c \in S
    BY <2>1
  <2>3. n - k <= n - c
    BY <1>3, <1>4, <2>2
  <2> QED
    BY <1>1, <1>5, <1>9, <2>3
<1>11. k \in B
  BY <1>9, <1>10 DEF Chained
<1> QED
  BY <1>5, <1>11

(* What findLRU does at a node: past the inner nodes it stays.             *)
After(lru, a, n) == IF n >= a THEN n ELSE IF lru[n] \in {1} THEN 2 * n + 1 ELSE 2 * n
(* A walk of it.                                                           *)
Walked(f, lru, a, d) == f = [e \in 0 .. d |-> IF e = 0 THEN 1 ELSE After(lru, a, f[e - 1])]

(* There is a walk of any length.                                          *)
LEMMA WalkExists ==
    ASSUME NEW a \in Nat \ {0}, NEW lru
    PROVE  \E f : Walked(f, lru, a, a)
<1> DEFINE T == {d \in 0 .. a : ~ \E f : Walked(f, lru, a, d)}
<1>1. T = {}
  <2> SUFFICES ASSUME T # {} PROVE FALSE
    OBVIOUS
  <2>1. T \in SUBSET Nat
    OBVIOUS
  <2>2. PICK d \in T : \A e \in T : d <= e
    BY <2>1, Least
  <2>3. d \in 0 .. a /\ ~ \E f : Walked(f, lru, a, d)
    OBVIOUS
  <2>4. d # 0
    <3>1. PICK f : f = [e \in 0 .. 0 |-> 1]
      OBVIOUS
    <3>2. f = [e \in 0 .. 0 |-> IF e = 0 THEN 1 ELSE After(lru, a, f[e - 1])]
      BY <3>1
    <3>3. Walked(f, lru, a, 0)
      BY <3>2 DEF Walked
    <3> QED
      BY <2>3, <3>3
  <2>5. d - 1 \in 0 .. a /\ d - 1 \notin T
    BY <2>2, <2>3, <2>4
  <2>6. PICK f : Walked(f, lru, a, d - 1)
    BY <2>5
  <2> DEFINE v(e, h) == IF e = 0 THEN 1 ELSE After(lru, a, h[e - 1])
             g == [e \in 0 .. d |-> IF e = d THEN After(lru, a, f[d - 1]) ELSE f[e]]
  <2>7. ASSUME NEW e \in 0 .. d PROVE g[e] = v(e, g)
    <3>1. CASE e = d
      <4>1. e - 1 \in 0 .. d /\ e - 1 # d /\ e # 0
        BY <2>3, <2>4, <3>1
      <4>2. g[e - 1] = f[e - 1]
        BY <4>1
      <4> QED
        BY <3>1, <4>1, <4>2
    <3>2. CASE e # d
      <4>1. e \in 0 .. d - 1
        BY <2>3, <3>2
      <4>2. f[e] = v(e, f)
        BY <2>6, <4>1 DEF Walked
      <4>3. g[e] = f[e]
        BY <3>2
      <4>4. e # 0 => e - 1 \in 0 .. d /\ e - 1 # d
        BY <2>3, <4>1
      <4>5. e # 0 => g[e - 1] = f[e - 1]
        BY <4>4
      <4> QED
        BY <4>2, <4>3, <4>5
    <3> QED
      BY <3>1, <3>2
  <2>8. g = [e \in 0 .. d |-> v(e, g)]
    <3>1. g = [e \in 0 .. d |-> g[e]]
      OBVIOUS
    <3> HIDE DEF g, v
    <3>2. [e \in 0 .. d |-> g[e]] = [e \in 0 .. d |-> v(e, g)]
      BY <2>7
    <3> QED
      BY <3>1, <3>2, Zenon
  <2> HIDE DEF g
  <2>9. Walked(g, lru, a, d)
    BY <2>8 DEF Walked
  <2> QED
    BY <2>3, <2>9
<1> QED
  BY <1>1

(* findLRU ends at the leaf of a walk.                                     *)
LEMMA DescendWalks ==
    ASSUME NEW a \in Nat \ {0}, NEW lru
    PROVE  \E f : /\ Descend(lru, a, {1}) = f[a] - a
                  /\ f[0] = 1 /\ \A d \in 0 .. a - 1 : f[d + 1] = After(lru, a, f[d])
<1>1. PICK f : f = CHOOSE g : Walked(g, lru, a, a)
  OBVIOUS
<1>2. Walked(f, lru, a, a)
  BY <1>1, WalkExists
<1>3. Descend(lru, a, {1}) = f[a] - a
  BY <1>1, Zenon DEF Descend, Walked, After
<1>4. f[0] = 1
  BY <1>2 DEF Walked
<1>5. ASSUME NEW d \in 0 .. a - 1 PROVE f[d + 1] = After(lru, a, f[d])
  <2>1. d + 1 \in 0 .. a /\ d + 1 # 0 /\ (d + 1) - 1 = d
    OBVIOUS
  <2> QED
    BY <1>2, <2>1 DEF Walked
<1> QED
  BY <1>3, <1>4, <1>5

(* A node leads to the ways below its child of A.                          *)
Leads(lru, A, n) == IF lru[n] = 1 THEN 2 * n + 1 \in A ELSE 2 * n \in A

(* findLRU finds a way, and every node above it leads there.               *)
LEMMA FoundWay ==
    ASSUME NEW a \in Nat \ {0}, Doubling(a), NEW lru, NEW i, i = Descend(lru, a, {1})
    PROVE  i \in 0 .. a - 1 /\ \A n \in Above(a, i) : n < a => Leads(lru, Above(a, i), n)
<1>1. PICK f : /\ i = f[a] - a
               /\ f[0] = 1 /\ \A d \in 0 .. a - 1 : f[d + 1] = After(lru, a, f[d])
  BY DescendWalks
<1> DEFINE Ok(d) == f[d] \in 1 .. 2 * a - 1 /\ (f[d] >= a \/ f[d] >= d + 1)
<1>2. \A d \in 0 .. a : Ok(d)
  <2> DEFINE T == {d \in 0 .. a : ~ Ok(d)}
  <2> SUFFICES ASSUME T # {} PROVE FALSE
    OBVIOUS
  <2>1. T \in SUBSET Nat
    OBVIOUS
  <2>2. PICK d \in T : \A e \in T : d <= e
    BY <2>1, Least
  <2>3. d \in 0 .. a /\ ~ Ok(d)
    OBVIOUS
  <2>4. d # 0
    BY <1>1, <2>3
  <2>5. d - 1 \in 0 .. a /\ d - 1 \notin T /\ d - 1 \in 0 .. a - 1 /\ (d - 1) + 1 = d
    BY <2>2, <2>3, <2>4
  <2>6. Ok(d - 1)
    BY <2>5
  <2>7. f[d] = After(lru, a, f[d - 1])
    BY <1>1, <2>5
  <2>8. PICK m : m = f[d - 1]
    OBVIOUS
  <2>9. m \in 1 .. 2 * a - 1 /\ (m >= a \/ m >= d)
    BY <2>3, <2>6, <2>8
  <2>10. f[d] \in {m, 2 * m, 2 * m + 1} /\ (m >= a => f[d] = m) /\ (m < a => f[d] # m)
    BY <2>7, <2>8, <2>9 DEF After
  <2> QED
    BY <2>3, <2>9, <2>10
<1> HIDE DEF Ok
<1>3. f[a] \in Nat /\ f[a] >= a /\ f[a] <= 2 * a - 1
  <2>1. Ok(a)
    BY <1>2
  <2> QED
    BY <2>1 DEF Ok
<1>4. i \in 0 .. a - 1 /\ a + i = f[a]
  BY <1>1, <1>3
<1>5. PICK A : A = Above(a, i)
  OBVIOUS
<1>6. Chained(A, a) /\ f[a] \in A
  BY <1>4, <1>5, AboveIs, AboveChained
<1>7. \A d \in 0 .. a : f[d] \in Nat \ {0}
  BY <1>2 DEF Ok
<1>8. \A d \in 0 .. a : f[d] \in A
  <2> DEFINE T == {e \in 0 .. a : f[a - e] \notin A}
  <2> SUFFICES ASSUME T # {} PROVE FALSE
    <3> SUFFICES ASSUME NEW d \in 0 .. a, f[d] \notin A PROVE T # {}
      OBVIOUS
    <3>1. a - d \in 0 .. a /\ a - (a - d) = d
      OBVIOUS
    <3>2. a - d \in T
      BY <3>1
    <3> QED
      BY <3>2
  <2>1. T \in SUBSET Nat
    OBVIOUS
  <2>2. PICK e \in T : \A k \in T : e <= k
    BY <2>1, Least
  <2>3. e \in 0 .. a /\ f[a - e] \notin A
    OBVIOUS
  <2>4. e # 0
    BY <1>6, <2>3
  <2>5. e - 1 \in 0 .. a /\ e - 1 \notin T
    BY <2>2, <2>3, <2>4
  <2>6. PICK d \in 0 .. a - 1 : d = a - e
    BY <2>3, <2>4
  <2>7. a - (e - 1) = d + 1
    BY <2>3, <2>6
  <2>8. f[d + 1] \in A
    BY <2>5, <2>7
  <2>9. f[d + 1] = After(lru, a, f[d])
    BY <1>1
  <2>10. f[d] \in Nat \ {0}
    BY <1>7
  <2>11. f[d + 1] = f[d] \/ (f[d + 1] \div 2 = f[d] /\ f[d + 1] # 1)
    BY <2>9, <2>10 DEF After
  <2>12. f[d] \in A
    BY <1>6, <2>8, <2>11 DEF Chained
  <2> QED
    BY <2>3, <2>6, <2>12
<1>9. ASSUME NEW n \in A, n < a PROVE Leads(lru, A, n)
  <2>0. n \in Nat \ {0}
    BY <1>6 DEF Chained
  <2> DEFINE T == {d \in 0 .. a : f[d] > n}
  <2>1. T \in SUBSET Nat /\ T # {}
    <3>1. a \in T
      BY <1>3, <1>9, <2>0
    <3> QED
      BY <3>1
  <2>2. PICK e \in T : \A k \in T : e <= k
    BY <2>1, Least
  <2>3. e \in 0 .. a /\ f[e] > n
    OBVIOUS
  <2>4. e # 0
    BY <1>1, <2>0, <2>3
  <2>5. PICK d \in 0 .. a - 1 : e = d + 1
    BY <2>3, <2>4
  <2>6. d \notin T
    BY <2>2, <2>5
  <2>7. f[d] \in Nat \ {0} /\ f[e] \in Nat \ {0} /\ f[d] <= n
    BY <1>7, <2>0, <2>3, <2>5, <2>6
  <2>8. f[d] \in A /\ f[e] \in A
    BY <1>8, <2>3, <2>5
  <2>9. f[e] = After(lru, a, f[d])
    BY <1>1, <2>5
  <2>10. f[e] = IF lru[f[d]] = 1 THEN 2 * f[d] + 1 ELSE 2 * f[d]
    BY <1>9, <2>0, <2>7, <2>9 DEF After
  <2>11. f[d] = n
    <3>1. n < f[e] => 2 * n <= f[e]
      BY <1>6, <2>8 DEF Chained
    <3>2. 2 * n <= f[e]
      BY <2>0, <2>3, <2>7, <3>1
    <3>3. f[e] <= 2 * f[d] + 1
      BY <2>7, <2>10
    <3> QED
      BY <2>0, <2>7, <3>2, <3>3
  <2> QED
    BY <2>8, <2>10, <2>11 DEF Leads
<1> QED
  BY <1>4, <1>5, <1>9

(* At n the nodes above one way, A, and above another, B, part.            *)
Splits(n, A, B) ==
    /\ n \in A /\ n \in B
    /\ \/ 2 * n \in A /\ 2 * n + 1 \in B
       \/ 2 * n + 1 \in A /\ 2 * n \in B

(* Both children of a node are not above one way.                          *)
LEMMA OneChild ==
    ASSUME NEW a, NEW A, Chained(A, a), NEW n \in Nat \ {0}, 2 * n \in A, 2 * n + 1 \in A
    PROVE  FALSE
<1>1. 2 * n < 2 * n + 1
  OBVIOUS
<1>2. 2 * (2 * n) <= 2 * n + 1
  BY <1>1 DEF Chained
<1> QED
  BY <1>2

(* Two ways part at one node only.                                         *)
LEMMA SplitsOnce ==
    ASSUME NEW a \in Nat, NEW A, NEW B, Chained(A, a), Chained(B, a),
           NEW m, NEW n, Splits(m, A, B), Splits(n, A, B), m <= a, n <= a
    PROVE  m = n
<1>1. ASSUME NEW x, NEW y, Splits(x, A, B), Splits(y, A, B), y <= a, x < y PROVE FALSE
  <2>1. x \in Nat \ {0} /\ y \in Nat \ {0} /\ y \in A /\ y \in B
    BY <1>1 DEF Splits, Chained
  <2>2. ASSUME NEW C, NEW D, Chained(C, a), Chained(D, a), y \in C, y \in D,
               NEW c \in C, c = 2 * x \/ c = 2 * x + 1
        PROVE  c \in D
    <3>1. c \in Nat
      BY <2>1, <2>2
    <3>2. y < c => 2 * y <= c
      BY <2>2 DEF Chained
    <3>3. c <= y
      BY <1>1, <2>1, <2>2, <3>1, <3>2
    <3> QED
      BY <1>1, <2>2, <3>3, SharedAbove
  <2>3. 2 * x \in B /\ 2 * x + 1 \in B
    BY <1>1, <2>1, <2>2 DEF Splits
  <2> QED
    BY <2>1, <2>3, OneChild
<1>2. m \in Nat /\ n \in Nat
  BY DEF Splits, Chained
<1>3. ~ (m < n) /\ ~ (n < m)
  BY <1>1
<1> QED
  BY <1>2, <1>3

(* updateLRU turns the nodes above the way it is given away from it, and   *)
(* towards another way at most the one where they part.                    *)
LEMMA MarkedLeads ==
    ASSUME NEW a \in Nat \ {0}, Doubling(a), NEW lru, DOMAIN lru = 1 .. a - 1,
           NEW w \in 0 .. a - 1, NEW q, q = Marked(lru, a, w, 1, 2)
    PROVE  /\ DOMAIN q = 1 .. a - 1
           /\ \A n \in Above(a, w) : n < a => ~ Leads(q, Above(a, w), n)
           /\ \A i \in 0 .. a - 1 : \A n \in Above(a, i) :
                 n < a /\ Leads(q, Above(a, i), n)
                     => Leads(lru, Above(a, i), n) \/ Splits(n, Above(a, i), Above(a, w))
<1>1. PICK B : B = Above(a, w)
  OBVIOUS
<1>2. Chained(B, a)
  BY <1>1, AboveChained
<1>3. q = [n \in 1 .. a - 1 |-> IF 2 * n \in B THEN 1 ELSE IF 2 * n + 1 \in B THEN 2 ELSE lru[n]]
  BY <1>1 DEF Marked
<1>4. ASSUME NEW n \in B, n < a PROVE ~ Leads(q, B, n)
  <2>1. n \in 1 .. a - 1 /\ n \in Nat \ {0}
    BY <1>2, <1>4 DEF Chained
  <2>2. 2 * n \in B \/ 2 * n + 1 \in B
    BY <1>2, <1>4 DEF Chained
  <2>3. ~ (2 * n \in B /\ 2 * n + 1 \in B)
    BY <1>2, <2>1, OneChild
  <2>4. q[n] = IF 2 * n \in B THEN 1 ELSE IF 2 * n + 1 \in B THEN 2 ELSE lru[n]
    BY <1>3, <2>1
  <2> QED
    BY <2>2, <2>3, <2>4 DEF Leads
<1>5. ASSUME NEW i \in 0 .. a - 1, NEW A, A = Above(a, i), NEW n \in A, n < a, Leads(q, A, n)
      PROVE  Leads(lru, A, n) \/ Splits(n, A, B)
  <2>0. Chained(A, a)
    BY <1>5, AboveChained
  <2>1. n \in 1 .. a - 1 /\ n \in Nat \ {0}
    BY <1>5, <2>0 DEF Chained
  <2>2. q[n] = IF 2 * n \in B THEN 1 ELSE IF 2 * n + 1 \in B THEN 2 ELSE lru[n]
    BY <1>3, <2>1
  <2>3. 2 * n \in B \/ 2 * n + 1 \in B => n \in B
    <3>1. 2 * n # 1 /\ (2 * n) \div 2 = n /\ 2 * n + 1 # 1 /\ (2 * n + 1) \div 2 = n
      BY <2>1
    <3> QED
      BY <1>2, <3>1 DEF Chained
  <2>4. CASE 2 * n \in B
    <3>1. q[n] = 1
      BY <2>2, <2>4
    <3> QED
      BY <1>5, <2>3, <2>4, <3>1 DEF Leads, Splits
  <2>5. CASE 2 * n \notin B /\ 2 * n + 1 \in B
    <3>1. q[n] = 2
      BY <2>2, <2>5
    <3>2. 2 * n \in A
      BY <1>5, <3>1 DEF Leads
    <3> QED
      BY <1>5, <2>3, <2>5, <3>2 DEF Splits
  <2>6. CASE 2 * n \notin B /\ 2 * n + 1 \notin B
    <3>1. q[n] = lru[n]
      BY <2>2, <2>6
    <3> QED
      BY <1>5, <3>1 DEF Leads
  <2> QED
    BY <2>4, <2>5, <2>6
<1>6. DOMAIN q = 1 .. a - 1
  BY <1>3
<1> QED
  BY <1>1, <1>4, <1>5, <1>6

(* A way of a set may be hit.                                              *)
Usable(set, i) == set.allvalid \/ set.valid[i]
(* W are the ways of the recently used lines s; what leads findLRU to one  *)
(* of them was turned there for a line used since.                         *)
SparedAt(set, a, s, W) ==
    /\ W \in Seq(0 .. a - 1) /\ Len(W) = Len(s)
    /\ \A j \in 1 .. Len(s) :
          /\ Usable(set, W[j]) /\ set.tag[W[j]] = s[j]
          /\ \A n \in Above(a, W[j]) :
                n < a /\ Leads(set.lru, Above(a, W[j]), n)
                    => \E l \in 1 .. j - 1 : Splits(n, Above(a, W[j]), Above(a, W[l]))

(* findLRU finds none of the last d lines, d the depth of the tree.        *)
LEMMA NotFound ==
    ASSUME NEW a \in Nat \ {0}, Doubling(a), NEW set, NEW s \in Seq(Nat), NEW W, SparedAt(set, a, s, W),
           NEW d \in 0 .. a, 2 ^ d <= a, NEW j \in 1 .. Len(s), j <= d
    PROVE  W[j] # Descend(set.lru, a, {1})
<1> SUFFICES ASSUME W[j] = Descend(set.lru, a, {1}) PROVE FALSE
  OBVIOUS
<1>1. W \in Seq(0 .. a - 1) /\ Len(W) = Len(s) /\ Len(s) \in Nat
  BY DEF SparedAt
<1>2. PICK i \in 0 .. a - 1 : i = W[j]
  BY <1>1
<1>3. PICK A : A = Above(a, i)
  OBVIOUS
<1>4. \A n \in A : n < a => Leads(set.lru, A, n)
  BY <1>2, <1>3, FoundWay
<1>5. \A n \in A : n < a => \E l \in 1 .. j - 1 : Splits(n, A, Above(a, W[l]))
  BY <1>2, <1>3, <1>4 DEF SparedAt
<1>6. PICK x : x = a + i
  OBVIOUS
<1>7. x \in Nat \ {0} /\ a <= x /\ x <= 2 * a - 1
  BY <1>6
<1> DEFINE n(e) == x \div 2 ^ e
<1>8. ASSUME NEW e \in 1 .. d PROVE n(e) \in A /\ n(e) \in Nat /\ n(e) < a
  <2>1. 2 ^ e \in Nat \ {0} /\ e \in 0 .. a
    BY DEF Doubling
  <2>2. 2 ^ e <= 2 ^ d
    <3>1. e < d => 2 * 2 ^ e <= 2 ^ d
      BY PowersGrow
    <3>2. 2 ^ d \in Nat
      BY DEF Doubling
    <3> QED
      BY <2>1, <3>1, <3>2
  <2>3. PICK p : p = 2 ^ e
    OBVIOUS
  <2>4. p \in Nat \ {0} /\ p <= x
    <3>1. 2 ^ d \in Nat
      BY DEF Doubling
    <3> QED
      BY <1>7, <2>1, <2>2, <2>3, <3>1
  <2>5. x \div p # 0
    BY <1>7, <2>4
  <2>6. n(e) \in A
    BY <1>3, <1>6, <2>1, <2>3, <2>5, AboveIs
  <2>7. 2 * (x \div p) <= x
    <3>1. 2 * 1 <= p
      <4>1. 2 * 2 ^ 0 <= 2 ^ e
        BY <2>1, PowersGrow
      <4> QED
        BY <2>3, <4>1 DEF Doubling
    <3>2. 1 \in Nat \ {0}
      OBVIOUS
    <3>3. 2 * (x \div p) <= x \div 1
      BY <1>7, <2>4, <3>1, <3>2, Halved
    <3> QED
      BY <1>7, <3>3
  <2>8. x \div p \in Nat
    BY <1>7, <2>4
  <2> QED
    BY <1>7, <2>3, <2>6, <2>7, <2>8
<1>9. ASSUME NEW e \in 1 .. d, NEW f \in 1 .. d, e < f PROVE n(e) # n(f)
  <2>1. 2 * 2 ^ e <= 2 ^ f
    <3>1. e \in 0 .. f - 1 /\ f \in 0 .. a
      BY <1>9
    <3> QED
      BY <3>1, PowersGrow
  <2>2. 2 ^ e \in Nat \ {0} /\ 2 ^ f \in Nat \ {0}
    BY DEF Doubling
  <2>3. 2 * n(f) <= n(e)
    BY <1>7, <2>1, <2>2, Halved
  <2>4. n(f) # 0 /\ n(f) \in Nat /\ n(e) \in Nat
    <3>1. Chained(A, a)
      BY <1>3, AboveChained
    <3> QED
      BY <1>8, <3>1 DEF Chained
  <2> QED
    BY <2>3, <2>4
<1> HIDE DEF n
<1> DEFINE g == [e \in 1 .. d |-> CHOOSE l \in 1 .. j - 1 : Splits(n(e), A, Above(a, W[l]))]
<1>10. ASSUME NEW e \in 1 .. d
       PROVE  g[e] \in 1 .. j - 1 /\ Splits(n(e), A, Above(a, W[g[e]]))
  <2>1. \E l \in 1 .. j - 1 : Splits(n(e), A, Above(a, W[l]))
    BY <1>5, <1>8
  <2> QED
    BY <2>1
<1>11. g \in [1 .. d -> 1 .. j - 1]
  BY <1>10
<1> HIDE DEF g
<1>12. PICK e \in 1 .. d, f \in 1 .. d : e # f /\ g[e] = g[f]
  <2>1. IsFiniteSet(1 .. d) /\ Cardinality(1 .. d) = d
    <3>1. Cardinality(1 .. d) = IF 1 > d THEN 0 ELSE d - 1 + 1
      BY FS_Interval
    <3>2. IsFiniteSet(1 .. d)
      BY FS_Interval
    <3> QED
      BY <3>1, <3>2
  <2>2. IsFiniteSet(1 .. j - 1) /\ Cardinality(1 .. j - 1) < d
    <3>0. j - 1 \in Int
      OBVIOUS
    <3>1. PICK c \in Int : c = j - 1
      BY <3>0
    <3>2. Cardinality(1 .. c) = IF 1 > c THEN 0 ELSE c - 1 + 1
      BY FS_Interval
    <3>3. IsFiniteSet(1 .. c)
      BY FS_Interval
    <3> QED
      BY <3>1, <3>2, <3>3
  <2>3. PICK S, T : S = 1 .. d /\ T = 1 .. j - 1
    OBVIOUS
  <2>4. IsFiniteSet(S) /\ IsFiniteSet(T) /\ Cardinality(T) < Cardinality(S) /\ g \in [S -> T]
    BY <1>11, <2>1, <2>2, <2>3
  <2>5. \E x1, x2 \in S : x1 # x2 /\ g[x1] = g[x2]
    <3>1. \A h \in [S -> T] : \E x1, x2 \in S : x1 # x2 /\ h[x1] = h[x2]
      BY <2>4, FS_PigeonHole
    <3> QED
      BY <2>4, <3>1
  <2> QED
    BY <2>3, <2>5
<1>13. n(e) = n(f)
  <2>1. PICK l \in 1 .. j - 1 : l = g[e]
    BY <1>10
  <2>2. W[l] \in 0 .. a - 1
    BY <1>1
  <2>3. Splits(n(e), A, Above(a, W[l])) /\ Splits(n(f), A, Above(a, W[l]))
    BY <1>10, <1>12, <2>1
  <2>4. Chained(A, a) /\ Chained(Above(a, W[l]), a)
    BY <1>3, <2>2, AboveChained
  <2>5. n(e) <= a /\ n(f) <= a
    BY <1>8
  <2> QED
    BY <2>3, <2>4, <2>5, SplitsOnce
<1> QED
  BY <1>9, <1>12, <1>13

(* The lines of a set used recently, after t was, and where each was       *)
(* before: t comes to the front, and the place it had, p, is closed.       *)
AtFront(s, t, d) ==
    LET others == RemoveFirst(s, t)
    IN  SubSeq(<<t>> \o others, 1, Min({Len(others) + 1, d}))
Place(k, p) == IF k <= p THEN k - 1 ELSE k
MovedFrom(q, s, t, p) ==
    /\ p \in 1 .. Len(s) + 1 /\ Len(q) <= Len(s) + 1
    /\ p <= Len(s) => s[p] = t /\ Len(q) <= Len(s)
    /\ \A k \in 1 .. Len(q) : q[k] = IF k = 1 THEN t ELSE s[Place(k, p)]

(* A sequence without the first t, which is at p, if it has one.           *)
LEMMA WithoutFirst ==
    ASSUME NEW s \in Seq(Nat), NEW t, NEW r, r = RemoveFirst(s, t)
    PROVE  \E p \in 1 .. Len(s) + 1 :
              /\ r \in Seq(Nat) /\ Len(r) <= Len(s)
              /\ p <= Len(s) => s[p] = t /\ Len(r) < Len(s)
              /\ \A k \in 1 .. Len(r) : r[k] = s[IF k < p THEN k ELSE k + 1]
<1>1. PICK n \in Nat : n = Len(s)
  OBVIOUS
<1>2. CASE \E j \in 1 .. n : s[j] = t
  <2> DEFINE T == {j \in 1 .. n : s[j] = t}
  <2>1. T \in SUBSET Nat /\ T # {}
    BY <1>2
  <2>2. PICK p \in T : \A k \in T : p <= k
    BY <2>1, Least
  <2>3. p \in 1 .. n /\ s[p] = t
    OBVIOUS
  <2>4. \A k \in 1 .. p - 1 : s[k] # t
    <3> SUFFICES ASSUME NEW k \in 1 .. p - 1, s[k] = t PROVE FALSE
      OBVIOUS
    <3>1. k \in T
      BY <2>3
    <3> QED
      BY <2>2, <2>3, <3>1
  <2> HIDE DEF T
  <2>5. p \in DOMAIN s
    BY <1>1, <2>3
  <2>6. r = RemoveAt(s, p)
    BY <2>3, <2>4, <2>5, RemoveFirstIs
  <2>7. /\ r \in Seq(Nat) /\ Len(r) = Len(s) - 1 /\ DOMAIN r = 1 .. Len(s) - 1
        /\ \A k \in DOMAIN r : r[k] = IF k < p THEN s[k] ELSE s[k + 1]
    <3>1. \A j \in DOMAIN s :
              /\ RemoveAt(s, j) \in Seq(Nat) /\ Len(RemoveAt(s, j)) = Len(s) - 1
              /\ DOMAIN RemoveAt(s, j) = 1 .. Len(s) - 1
              /\ \A k \in DOMAIN RemoveAt(s, j) :
                    RemoveAt(s, j)[k] = IF k < j THEN s[k] ELSE s[k + 1]
      BY RemoveAtIs
    <3> QED
      BY <2>5, <2>6, <3>1
  <2>8. \A k \in 1 .. n - 1 : r[k] = s[IF k < p THEN k ELSE k + 1]
    BY <1>1, <2>7
  <2>9. Len(r) = n - 1 /\ r \in Seq(Nat)
    BY <1>1, <2>7
  <2>10. p \in 1 .. n + 1 /\ n - 1 < n /\ n - 1 <= n
    BY <2>3
  <2> QED
    BY <1>1, <2>3, <2>8, <2>9, <2>10
<1>3. CASE ~ \E j \in 1 .. n : s[j] = t
  <2>1. r = s
    BY <1>1, <1>3 DEF RemoveFirst
  <2>2. n + 1 \in 1 .. n + 1 /\ ~ (n + 1 <= n) /\ n <= n /\ \A k \in 1 .. n : k < n + 1
    OBVIOUS
  <2>3. \A k \in 1 .. n : s[k] = s[IF k < n + 1 THEN k ELSE k + 1]
    BY <2>2
  <2> QED
    BY <1>1, <2>1, <2>2, <2>3
<1> QED
  BY <1>2, <1>3

LEMMA MovedToFront ==
    ASSUME NEW s \in Seq(Nat), NEW t \in Nat, NEW d \in Nat, NEW q, q = AtFront(s, t, d)
    PROVE  q \in Seq(Nat) /\ Len(q) <= d /\ \E p : MovedFrom(q, s, t, p)
<1>1. PICK r : r = RemoveFirst(s, t)
  OBVIOUS
<1>2. PICK p \in 1 .. Len(s) + 1 :
              /\ r \in Seq(Nat) /\ Len(r) <= Len(s)
              /\ p <= Len(s) => s[p] = t /\ Len(r) < Len(s)
              /\ \A k \in 1 .. Len(r) : r[k] = s[IF k < p THEN k ELSE k + 1]
  BY <1>1, WithoutFirst
<1>3. PICK n \in Nat, l \in Nat : n = Len(s) /\ l = Len(r)
  BY <1>2
<1>4. PICK h : h = <<t>> \o r
  OBVIOUS
<1>5. h \in Seq(Nat) /\ Len(h) = l + 1 /\ h[1] = t /\ \A k \in 2 .. l + 1 : h[k] = r[k - 1]
  BY <1>2, <1>3, <1>4
<1>6. PICK c : c = Min({l + 1, d})
  OBVIOUS
<1>7. c \in Nat /\ c <= d /\ c <= l + 1
  <2>1. l + 1 \in Nat
    OBVIOUS
  <2>2. c = IF l + 1 <= d THEN l + 1 ELSE d
    BY <1>6, <2>1, MinOfTwo
  <2> QED
    BY <2>1, <2>2
<1>8. q = SubSeq(h, 1, c)
  BY <1>1, <1>3, <1>4, <1>6 DEF AtFront
<1>9. q \in Seq(Nat) /\ Len(q) = c /\ \A k \in 1 .. c : q[k] = h[k]
  <2>1. c <= Len(h)
    BY <1>5, <1>7
  <2>2. h \in Seq(Nat) /\ c \in Nat
    BY <1>5, <1>7
  <2>3. PICK g : g = SubSeq(h, 1, c)
    OBVIOUS
  <2>4. g \in Seq(Nat) /\ Len(g) = c /\ \A k \in 1 .. c : g[k] = h[k]
    BY <2>1, <2>2, <2>3, PrefixIs
  <2> QED
    BY <1>8, <2>3, <2>4
<1>10. ASSUME NEW k \in 1 .. c PROVE q[k] = IF k = 1 THEN t ELSE s[Place(k, p)]
  <2>1. CASE k = 1
    BY <1>5, <1>9, <2>1
  <2>2. CASE k # 1
    <3>1. k \in 2 .. l + 1 /\ k - 1 \in 1 .. l /\ (k - 1) + 1 = k /\ (k - 1 < p <=> k <= p)
      BY <1>7, <2>2
    <3>2. q[k] = r[k - 1]
      BY <1>5, <1>9, <3>1
    <3>3. r[k - 1] = s[IF k - 1 < p THEN k - 1 ELSE k]
      BY <1>2, <1>3, <3>1
    <3> QED
      BY <2>2, <3>1, <3>2, <3>3 DEF Place
  <2> QED
    BY <2>1, <2>2
<1>11. c <= n + 1 /\ (p <= n => s[p] = t /\ c <= n)
  <2>1. l <= n /\ (p <= n => s[p] = t /\ l < n)
    BY <1>2, <1>3
  <2> QED
    BY <1>7, <2>1
<1>12. MovedFrom(q, s, t, p)
  BY <1>3, <1>9, <1>10, <1>11 DEF MovedFrom
<1> QED
  BY <1>7, <1>9, <1>12

(* A line t was used, in way w, by which the other ways did not change.    *)
UsedIn(set, m, a, s, W, w, t) ==
    /\ m.lru = Marked(set.lru, a, w, 1, 2) /\ Usable(m, w) /\ m.tag[w] = t
    /\ \A j \in 1 .. Len(s) : \/ s[j] = t /\ W[j] = w
                              \/ s[j] # t /\ Usable(m, W[j]) /\ m.tag[W[j]] = s[j]

(* The lines used recently are spared after that.                          *)
LEMMA UsedSpared ==
    ASSUME NEW a \in Nat \ {0}, Doubling(a), NEW set, NEW m, NEW s \in Seq(Nat), NEW W, SparedAt(set, a, s, W),
           DOMAIN set.lru = 1 .. a - 1, NEW w \in 0 .. a - 1, NEW t \in Nat, NEW d \in Nat,
           UsedIn(set, m, a, s, W, w, t), NEW q, q = AtFront(s, t, d)
    PROVE  q \in Seq(Nat) /\ Len(q) <= d /\ DOMAIN m.lru = 1 .. a - 1 /\ \E V : SparedAt(m, a, q, V)
<1>1. q \in Seq(Nat) /\ Len(q) <= d
  BY MovedToFront
<1>2. PICK p : MovedFrom(q, s, t, p)
  BY MovedToFront
<1>3. PICK x \in Nat, y \in Nat : x = Len(s) /\ y = Len(q)
  BY <1>1
<1>4. /\ p \in 1 .. x + 1 /\ y <= x + 1
      /\ p <= x => s[p] = t /\ y <= x
      /\ \A k \in 1 .. y : q[k] = IF k = 1 THEN t ELSE s[Place(k, p)]
  BY <1>2, <1>3 DEF MovedFrom
<1>5. W \in Seq(0 .. a - 1) /\ Len(W) = x
  BY <1>3 DEF SparedAt
<1>5a. \A j \in 1 .. x : W[j] \in 0 .. a - 1
  BY <1>5
<1> DEFINE V == [k \in 1 .. y |-> IF k = 1 THEN w ELSE W[Place(k, p)]]
<1>6. ASSUME NEW k \in 1 .. y, k # 1 PROVE Place(k, p) \in 1 .. x
  BY <1>4, <1>6 DEF Place
<1>7. \A k \in 1 .. y : V[k] = (IF k = 1 THEN w ELSE W[Place(k, p)]) /\ V[k] \in 0 .. a - 1
  BY <1>5a, <1>6
<1>8. V \in Seq(0 .. a - 1) /\ Len(V) = y
  <2>1. V \in [1 .. y -> 0 .. a - 1]
    BY <1>7
  <2> HIDE DEF V
  <2> QED
    BY <2>1
<1> HIDE DEF V
<1>9. /\ DOMAIN m.lru = 1 .. a - 1
      /\ \A n \in Above(a, w) : n < a => ~ Leads(m.lru, Above(a, w), n)
      /\ \A i \in 0 .. a - 1 : \A n \in Above(a, i) :
            n < a /\ Leads(m.lru, Above(a, i), n)
                => Leads(set.lru, Above(a, i), n) \/ Splits(n, Above(a, i), Above(a, w))
  <2>1. PICK lru : lru = set.lru
    OBVIOUS
  <2>2. PICK r : r = m.lru
    OBVIOUS
  <2>3. DOMAIN lru = 1 .. a - 1 /\ r = Marked(lru, a, w, 1, 2)
    BY <2>1, <2>2 DEF UsedIn
  <2> QED
    BY <2>1, <2>2, <2>3, MarkedLeads
<1>10. ASSUME NEW k \in 1 .. y
      PROVE  /\ Usable(m, V[k]) /\ m.tag[V[k]] = q[k]
             /\ \A n \in Above(a, V[k]) :
                   n < a /\ Leads(m.lru, Above(a, V[k]), n)
                       => \E l \in 1 .. k - 1 : Splits(n, Above(a, V[k]), Above(a, V[l]))
  <2>1. CASE V[k] = w /\ q[k] = t
    BY <1>9, <2>1 DEF UsedIn
  <2>2. CASE ~ (V[k] = w /\ q[k] = t)
    <3>1. k # 1
      BY <1>4, <1>7, <2>2
    <3>2. PICK j \in 1 .. x : j = Place(k, p)
      BY <1>6, <3>1
    <3>3. V[k] = W[j] /\ q[k] = s[j] /\ V[k] \in 0 .. a - 1
      BY <1>4, <1>7, <3>1, <3>2
    <3>4. Usable(m, V[k]) /\ m.tag[V[k]] = q[k]
      BY <1>3, <2>2, <3>3 DEF UsedIn
    <3>5. ASSUME NEW n \in Above(a, V[k]), n < a, Leads(m.lru, Above(a, V[k]), n)
          PROVE  \E l \in 1 .. k - 1 : Splits(n, Above(a, V[k]), Above(a, V[l]))
      <4>1. 1 \in 1 .. k - 1 /\ V[1] = w
        <5>1. 1 \in 1 .. y /\ 1 \in 1 .. k - 1
          BY <3>1
        <5> QED
          BY <1>7, <5>1
      <4>2. CASE Splits(n, Above(a, V[k]), Above(a, w))
        BY <4>1, <4>2
      <4>3. CASE ~ Splits(n, Above(a, V[k]), Above(a, w))
        <5>1. Leads(set.lru, Above(a, V[k]), n)
          BY <1>9, <3>3, <3>5, <4>3
        <5>2. PICK l \in 1 .. j - 1 : Splits(n, Above(a, V[k]), Above(a, W[l]))
          BY <1>3, <3>3, <3>5, <5>1 DEF SparedAt
        <5>3. l # p
          <6> SUFFICES ASSUME l = p PROVE FALSE
            OBVIOUS
          <6>1. l \in 1 .. x /\ p <= x
            OBVIOUS
          <6>2. s[l] = t
            BY <1>4, <6>1
          <6>3. W[l] = w
            BY <1>3, <6>1, <6>2 DEF UsedIn
          <6> QED
            BY <4>3, <5>2, <6>3
        <5>4. CASE l < p
          <6>1. l + 1 \in 1 .. k - 1 /\ l + 1 \in 1 .. y /\ l + 1 # 1 /\ Place(l + 1, p) = l
            BY <1>4, <3>1, <3>2, <5>4 DEF Place
          <6>2. V[l + 1] = W[l]
            BY <1>7, <6>1
          <6> QED
            BY <5>2, <6>1, <6>2
        <5>5. CASE l > p
          <6>1. l \in 1 .. k - 1 /\ l \in 1 .. y /\ l # 1 /\ Place(l, p) = l
            BY <1>4, <3>1, <3>2, <5>5 DEF Place
          <6>2. V[l] = W[l]
            BY <1>7, <6>1
          <6> QED
            BY <5>2, <6>1, <6>2
        <5> QED
          BY <1>4, <5>3, <5>4, <5>5
      <4> QED
        BY <4>2, <4>3
    <3> QED
      BY <3>4, <3>5
  <2> QED
    BY <2>1, <2>2
<1>11. SparedAt(m, a, q, V)
  BY <1>3, <1>8, <1>10 DEF SparedAt
<1> QED
  BY <1>1, <1>9, <1>11

(* The least of some ways is one of them.                                  *)
LEMMA MinIn ==
    ASSUME NEW T \in SUBSET Nat, T # {}
    PROVE  Min(T) \in T
<1>1. PICK x \in T : \A y \in T : x <= y
  BY Least
<1>2. Min(T) = CHOOSE z \in T : \A y \in T : z <= y
  BY DEF Min
<1> QED
  BY <1>1, <1>2, Zenon

(* In a set with exact ways the usable ones are the valid ones.            *)
LEMMA UsableValid ==
    ASSUME NEW set, NEW a, TreeOk(set, a), NEW i \in 0 .. a - 1
    PROVE  Usable(set, i) <=> set.valid[i]
<1>1. set.valid \in [0 .. a - 1 -> BOOLEAN] /\ AllValidExact(set)
  BY DEF TreeOk, TreeSet
<1>2. DOMAIN set.valid = 0 .. a - 1
  BY <1>1
<1>3. set.allvalid => set.valid[i]
  BY <1>1, <1>2, Zenon DEF AllValidExact
<1> QED
  BY <1>3 DEF Usable

(* An access to a set of highAssocCache uses one way, with the line in it, *)
(* and leaves the lines used recently: a miss replaces none of them, as    *)
(* long as they are no more than the tree is deep (sim_cache.cc:186, 420). *)
LEMMA AccessUses ==
    ASSUME NEW a \in Nat \ {0}, Doubling(a), NEW set, TreeOk(set, a), DOMAIN set.lru = 1 .. a - 1,
           NEW s \in Seq(Nat), NEW W, SparedAt(set, a, s, W),
           NEW d \in 0 .. a, 2 ^ d <= a, Len(s) <= d,
           NEW t \in Nat, NEW m, m = TreeAccess("highAssoc", set, a, t)
    PROVE  \E w \in 0 .. a - 1 : UsedIn(set, m, a, s, W, w, t)
<1>1. /\ set = [valid |-> set.valid, tag |-> set.tag, allvalid |-> set.allvalid, lru |-> set.lru]
      /\ set.valid \in [0 .. a - 1 -> BOOLEAN] /\ set.allvalid \in BOOLEAN
      /\ DOMAIN set.tag = 0 .. a - 1 /\ WaysOnce(set)
  BY DEF TreeOk, TreeSet
<1>2. PICK x \in Nat : x = Len(s)
  OBVIOUS
<1>3. \A j \in 1 .. x : /\ W[j] \in 0 .. a - 1 /\ Usable(set, W[j]) /\ set.valid[W[j]]
                        /\ set.tag[W[j]] = s[j]
  <2>1. \A j \in 1 .. x : W[j] \in 0 .. a - 1 /\ Usable(set, W[j]) /\ set.tag[W[j]] = s[j]
    BY <1>2 DEF SparedAt
  <2> QED
    BY <2>1, UsableValid
<1>4. WaysOf(set, t) \in SUBSET (0 .. a - 1)
  BY <1>1 DEF WaysOf
<1>5. WaysOf(set, t) = {i \in 0 .. a - 1 : Usable(set, i) /\ set.tag[i] = t}
  BY <1>1 DEF WaysOf, Usable
<1>6. \A lru, i : Updated("highAssoc", lru, a, i) = Marked(lru, a, i, 1, 2)
                  /\ AfterFind("highAssoc", lru, a, i) = Marked(lru, a, i, 1, 2)
                  /\ FoundLRU("highAssoc", lru, a) = Descend(lru, a, {1})
  BY DEF Updated, AfterFind, FoundLRU
<1>7. CASE WaysOf(set, t) # {}
  <2>1. PICK w : w = Min(WaysOf(set, t))
    OBVIOUS
  <2>2. w \in 0 .. a - 1 /\ Usable(set, w) /\ set.tag[w] = t
    <3>1. WaysOf(set, t) \in SUBSET Nat
      BY <1>4
    <3>2. w \in WaysOf(set, t)
      BY <1>7, <2>1, <3>1, MinIn
    <3> QED
      BY <1>5, <3>2
  <2>3. PICK q : q = Marked(set.lru, a, w, 1, 2)
    OBVIOUS
  <2>4. m = [set EXCEPT !.lru = q]
    BY <1>6, <1>7, <2>1, <2>3 DEF TreeAccess
  <2>5. m.valid = set.valid /\ m.tag = set.tag /\ m.allvalid = set.allvalid /\ m.lru = q
    <3>1. m = [valid |-> set.valid, tag |-> set.tag, allvalid |-> set.allvalid, lru |-> q]
      BY <1>1, <2>4
    <3> QED
      BY <3>1
  <2>6. \A i : Usable(m, i) <=> Usable(set, i)
    BY <2>5 DEF Usable
  <2>7. ASSUME NEW j \in 1 .. x
        PROVE  \/ s[j] = t /\ W[j] = w
               \/ s[j] # t /\ Usable(m, W[j]) /\ m.tag[W[j]] = s[j]
    <3>1. CASE s[j] = t
      <4>1. set.valid[w]
        BY <2>2, UsableValid
      <4>2. set.valid[W[j]] /\ set.tag[W[j]] = set.tag[w] /\ W[j] \in DOMAIN set.tag /\ w \in DOMAIN set.tag
        BY <1>1, <1>3, <2>2, <3>1
      <4>3. W[j] = w
        BY <1>1, <4>1, <4>2, Zenon DEF WaysOnce
      <4> QED
        BY <3>1, <4>3
    <3>2. CASE s[j] # t
      BY <1>3, <2>5, <2>6, <3>2
    <3> QED
      BY <3>1, <3>2
  <2>8. UsedIn(set, m, a, s, W, w, t)
    BY <1>2, <2>2, <2>3, <2>5, <2>6, <2>7 DEF UsedIn
  <2> QED
    BY <2>2, <2>8
<1>8. ASSUME WaysOf(set, t) = {} PROVE \A j \in 1 .. x : s[j] # t
  <2> SUFFICES ASSUME NEW j \in 1 .. x, s[j] = t PROVE FALSE
    OBVIOUS
  <2>1. W[j] \in WaysOf(set, t)
    BY <1>3, <1>5
  <2> QED
    BY <1>8, <2>1
<1>9. CASE WaysOf(set, t) = {} /\ set.allvalid
  <2>1. PICK w : w = Descend(set.lru, a, {1})
    OBVIOUS
  <2>2. w \in 0 .. a - 1
    BY <2>1, FoundWay
  <2>3. PICK q : q = Marked(set.lru, a, w, 1, 2)
    OBVIOUS
  <2>4. PICK g : g = [set.tag EXCEPT ![w] = t]
    OBVIOUS
  <2>5. m = [set EXCEPT !.tag[w] = t, !.lru = q]
    BY <1>6, <1>9, <2>1, <2>3 DEF TreeAccess
  <2>6. m.valid = set.valid /\ m.tag = g /\ m.allvalid = set.allvalid /\ m.lru = q
    <3>1. m = [set EXCEPT !.tag = g, !.lru = q]
      BY <2>4, <2>5
    <3>2. m = [valid |-> set.valid, tag |-> g, allvalid |-> set.allvalid, lru |-> q]
      BY <1>1, <3>1
    <3> QED
      BY <3>2
  <2>7. g[w] = t /\ \A i \in 0 .. a - 1 : i # w => g[i] = set.tag[i]
    BY <1>1, <2>2, <2>4
  <2>8. \A i : Usable(m, i)
    BY <1>9, <2>6 DEF Usable
  <2>9. ASSUME NEW j \in 1 .. x PROVE s[j] # t /\ Usable(m, W[j]) /\ m.tag[W[j]] = s[j]
    <3>1. j <= d
      BY <1>2
    <3>2. W[j] # w
      BY <1>2, <2>1, <3>1, NotFound
    <3> QED
      BY <1>3, <1>8, <1>9, <2>6, <2>7, <2>8, <3>2
  <2>10. UsedIn(set, m, a, s, W, w, t)
    BY <1>2, <2>3, <2>6, <2>7, <2>8, <2>9 DEF UsedIn
  <2> QED
    BY <2>2, <2>10
<1>10. CASE WaysOf(set, t) = {} /\ ~ set.allvalid
  <2> DEFINE F == {i \in DOMAIN set.tag : ~ set.valid[i]}
  <2>1. PICK w : w = Min(F)
    OBVIOUS
  <2>2. w \in 0 .. a - 1 /\ ~ set.valid[w]
    <3>1. F \in SUBSET Nat /\ F # {}
      <4>1. F \in SUBSET Nat
        BY <1>1
      <4>2. PICK i \in DOMAIN set.valid : ~ set.valid[i]
        BY <1>10 DEF TreeOk, AllValidExact
      <4>3. i \in F
        BY <1>1, <4>2
      <4> QED
        BY <4>1, <4>3
    <3>2. w \in F
      BY <2>1, <3>1, MinIn
    <3> QED
      BY <1>1, <3>2
  <2> HIDE DEF F
  <2>3. PICK q : q = Marked(set.lru, a, w, 1, 2)
    OBVIOUS
  <2>4. PICK g : g = [set.tag EXCEPT ![w] = t]
    OBVIOUS
  <2>5. PICK v : v = [set.valid EXCEPT ![w] = TRUE]
    OBVIOUS
  <2>6. PICK b : b = \A i \in DOMAIN v : v[i]
    OBVIOUS
  <2>7. m = [set EXCEPT !.valid = v, !.tag[w] = t, !.allvalid = b, !.lru = q]
    <3>1. m = Filled("highAssoc", set, a, w, t)
      BY <1>10, <2>1 DEF TreeAccess, F
    <3> QED
      BY <1>6, <2>3, <2>5, <2>6, <3>1 DEF Filled
  <2>8. m.valid = v /\ m.tag = g /\ m.allvalid = b /\ m.lru = q
    <3>1. m = [set EXCEPT !.valid = v, !.tag = g, !.allvalid = b, !.lru = q]
      BY <2>4, <2>7
    <3>2. m = [valid |-> v, tag |-> g, allvalid |-> b, lru |-> q]
      BY <1>1, <3>1
    <3> QED
      BY <3>2
  <2>9. g[w] = t /\ \A i \in 0 .. a - 1 : i # w => g[i] = set.tag[i]
    BY <1>1, <2>2, <2>4
  <2>10. v[w] /\ \A i \in 0 .. a - 1 : i # w => v[i] = set.valid[i]
    BY <1>1, <2>2, <2>5
  <2>11. ASSUME NEW j \in 1 .. x PROVE s[j] # t /\ Usable(m, W[j]) /\ m.tag[W[j]] = s[j]
    <3>1. W[j] # w
      BY <1>3, <2>2
    <3>2. v[W[j]]
      BY <1>3, <2>10, <3>1
    <3> QED
      BY <1>3, <1>8, <1>10, <2>8, <2>9, <3>1, <3>2 DEF Usable
  <2>12. Usable(m, w) /\ m.tag[w] = t
    BY <2>8, <2>9, <2>10 DEF Usable
  <2>13. UsedIn(set, m, a, s, W, w, t)
    BY <1>2, <2>3, <2>8, <2>11, <2>12 DEF UsedIn
  <2> QED
    BY <2>2, <2>13
<1> QED
  BY <1>1, <1>7, <1>9, <1>10

(* The laws of powers, for the ways of a level.                            *)
LEMMA WaysDouble ==
    ASSUME cfg \in Configs, NEW k \in Levels
    PROVE  Doubling(cfg[k].assoc)
BY PowersAssumption DEF Levels, Doubling

(* A tree of highAssocCache keeps as many lines as it is deep; the other   *)
(* classes are not said to keep any.                                       *)
LEMMA KeptIs ==
    ASSUME cfg \in Configs, NEW k \in Levels
    PROVE  /\ cfg[k].kind = "highAssoc" => Kept(k) \in 0 .. cfg[k].assoc /\ 2 ^ Kept(k) <= cfg[k].assoc
           /\ cfg[k].kind # "highAssoc" => Kept(k) = 0
           /\ Kept(k) \in Nat
<1>1. PICK a \in Nat \ {0} : a = cfg[k].assoc
  BY CfgFacts
<1>2. Doubling(a)
  BY <1>1, WaysDouble
<1> DEFINE T == {n \in 0 .. a : 2 ^ n <= a}
<1>3. \E x \in T : \A y \in T : x >= y
  <2> DEFINE D == {a - n : n \in T}
  <2>1. 0 \in T
    BY <1>2 DEF Doubling
  <2>2. D \in SUBSET Nat
    OBVIOUS
  <2>3. a - 0 \in D
    BY <2>1
  <2>4. PICK z \in D : \A y \in D : z <= y
    BY <2>2, <2>3, Least
  <2>5. PICK x \in T : z = a - x
    OBVIOUS
  <2>6. ASSUME NEW y \in T PROVE x >= y
    <3>1. a - x <= a - y
      BY <2>4, <2>5
    <3>2. x \in Nat /\ y \in Nat
      OBVIOUS
    <3> QED
      BY <3>1, <3>2
  <2> QED
    BY <2>6
<1>4. Max(T) = CHOOSE x \in T : \A y \in T : x >= y
  BY DEF Max
<1>5. Max(T) \in T
  BY <1>3, <1>4, Zenon
<1>6. cfg[k].kind = "highAssoc" => Kept(k) \in T
  BY <1>1, <1>5 DEF Kept
<1>7. cfg[k].kind # "highAssoc" => Kept(k) = 0
  BY DEF Kept
<1> QED
  BY <1>1, <1>6, <1>7

(* One set at a time: the lines an access notes.                           *)
NotesHeld == recent = [k \in Levels |-> [s \in 0 .. cfg[k].sets - 1 |-> recent[k][s]]]
LEMMA AccessNotes ==
    ASSUME NotesHeld, NEW a, NEW r, access(a, r)
    PROVE  /\ NotesHeld'
           /\ \A k \in Levels : \A s \in 0 .. cfg[k].sets - 1 :
                 recent'[k][s] = IF Reached(k, a) /\ s = SetOf(k, a)
                                 THEN AtFront(recent[k][s], TagOf(k, a), Kept(k)) ELSE recent[k][s]
<1>1. /\ cfg' = cfg
      /\ recent' = [k \in Levels |->
                     IF Reached(k, a)
                     THEN [recent[k] EXCEPT ![SetOf(k, a)] = Noted(k, @, TagOf(k, a))]
                     ELSE recent[k]]
  BY DEF access
<1>2. recent = [k \in Levels |-> [s \in 0 .. cfg[k].sets - 1 |-> recent[k][s]]]
  BY DEF NotesHeld
<1>3. ASSUME NEW k \in Levels
      PROVE  recent'[k] = [s \in 0 .. cfg[k].sets - 1 |->
                 IF Reached(k, a) /\ s = SetOf(k, a)
                 THEN Noted(k, recent[k][s], TagOf(k, a)) ELSE recent[k][s]]
  <2>1. recent[k] = [s \in 0 .. cfg[k].sets - 1 |-> recent[k][s]]
    BY <1>2
  <2>2. recent'[k] = IF Reached(k, a)
                     THEN [recent[k] EXCEPT ![SetOf(k, a)] = Noted(k, @, TagOf(k, a))]
                     ELSE recent[k]
    BY <1>1
  <2> QED
    BY <2>1, <2>2
<1>4. ASSUME NEW k \in Levels, NEW s \in 0 .. cfg[k].sets - 1
      PROVE  recent'[k][s] = IF Reached(k, a) /\ s = SetOf(k, a)
                             THEN AtFront(recent[k][s], TagOf(k, a), Kept(k)) ELSE recent[k][s]
  <2>1. Noted(k, recent[k][s], TagOf(k, a)) = AtFront(recent[k][s], TagOf(k, a), Kept(k))
    BY DEF Noted, AtFront
  <2> QED
    BY <1>3, <2>1
<1>5. ASSUME NEW k \in Levels
      PROVE  recent'[k] = [s \in 0 .. cfg[k].sets - 1 |-> recent'[k][s]]
  BY <1>3
<1>6. recent' = [k \in Levels |-> recent'[k]]
  BY <1>1
<1>7. recent' = [k \in Levels |-> [s \in 0 .. cfg[k].sets - 1 |-> recent'[k][s]]]
  BY <1>5, <1>6, Zenon
<1>8. NotesHeld'
  <2>1. Levels' = Levels
    BY <1>1 DEF Levels
  <2> QED
    BY <1>1, <1>7, <2>1 DEF NotesHeld
<1> QED
  BY <1>4, <1>8

(* flush() forgets them.                                                   *)
LEMMA FlushNotes ==
    ASSUME NotesHeld, flush
    PROVE  /\ NotesHeld'
           /\ \A k \in Levels : \A s \in 0 .. cfg[k].sets - 1 : recent'[k][s] = <<>>
<1>1. cfg' = cfg /\ recent' = [k \in Levels |-> [s \in DOMAIN recent[k] |-> <<>>]]
  BY DEF flush
<1>2. recent = [k \in Levels |-> [s \in 0 .. cfg[k].sets - 1 |-> recent[k][s]]]
  BY DEF NotesHeld
<1>3. \A k \in Levels : DOMAIN recent[k] = 0 .. cfg[k].sets - 1
  BY <1>2
<1>4. \A k \in Levels : recent'[k] = [s \in 0 .. cfg[k].sets - 1 |-> <<>>]
  BY <1>1, <1>3
<1>5. ASSUME NEW k \in Levels
      PROVE  recent'[k] = [s \in 0 .. cfg[k].sets - 1 |-> recent'[k][s]]
  BY <1>4
<1>6. recent' = [k \in Levels |-> recent'[k]]
  BY <1>1
<1>7. recent' = [k \in Levels |-> [s \in 0 .. cfg[k].sets - 1 |-> recent'[k][s]]]
  BY <1>5, <1>6, Zenon
<1>8. NotesHeld'
  <2>1. Levels' = Levels
    BY <1>1 DEF Levels
  <2> QED
    BY <1>1, <1>7, <2>1 DEF NotesHeld
<1> QED
  BY <1>4, <1>8

(* No lines are spared anywhere.                                           *)
LEMMA NoneSpared == ASSUME NEW set, NEW a \in Nat \ {0} PROVE SparedAt(set, a, <<>>, <<>>)
<1>1. <<>> \in Seq(0 .. a - 1) /\ Len(<<>>) = 0
  OBVIOUS
<1> QED
  BY <1>1 DEF SparedAt

(* What a set of highAssocCache and the d lines used in it last are.       *)
Spares(set, a, s, d) ==
    /\ DOMAIN set.lru = 1 .. a - 1
    /\ s \in Seq(Nat) /\ Len(s) <= d
    /\ \E W : SparedAt(set, a, s, W)
RecentInv ==
    /\ TreeInv /\ NotesHeld
    /\ \A k \in Levels : \A s \in 0 .. cfg[k].sets - 1 :
          IF cfg[k].kind = "highAssoc" THEN Spares(lvl[k][s], cfg[k].assoc, recent[k][s], Kept(k))
          ELSE recent[k][s] = <<>>

(* An access to a set spares the lines used in it last, and the new one.   *)
LEMMA AccessSpares ==
    ASSUME NEW a \in Nat \ {0}, Doubling(a), NEW set, TreeOk(set, a), NEW s, NEW d \in 0 .. a, 2 ^ d <= a,
           Spares(set, a, s, d), NEW t \in Nat
    PROVE  Spares(TreeAccess("highAssoc", set, a, t), a, AtFront(s, t, d), d)
<1>1. PICK W : SparedAt(set, a, s, W)
  BY DEF Spares
<1>2. s \in Seq(Nat) /\ Len(s) <= d /\ DOMAIN set.lru = 1 .. a - 1
  BY DEF Spares
<1>3. PICK m : m = TreeAccess("highAssoc", set, a, t)
  OBVIOUS
<1>4. PICK w \in 0 .. a - 1 : UsedIn(set, m, a, s, W, w, t)
  BY <1>1, <1>2, <1>3, AccessUses
<1>5. PICK q : q = AtFront(s, t, d)
  OBVIOUS
<1>6. d \in Nat
  OBVIOUS
<1>7. q \in Seq(Nat) /\ Len(q) <= d /\ DOMAIN m.lru = 1 .. a - 1 /\ \E V : SparedAt(m, a, q, V)
  BY <1>1, <1>2, <1>4, <1>5, <1>6, UsedSpared
<1>8. Spares(m, a, q, d)
  BY <1>7 DEF Spares
<1> QED
  BY <1>3, <1>5, <1>8

(* The constructors.                                                       *)
LEMMA InitRecent == ASSUME Init PROVE RecentInv
<1>1. Shape /\ \A k \in Levels : \A s \in 0 .. cfg[k].sets - 1 : lvl[k][s] = EmptySet(k)
  BY InitSets
<1>2. TreeInv
  BY <1>1, EmptyTree DEF TreeInv, Shape
<1>3. recent = [k \in Levels |-> [s \in 0 .. cfg[k].sets - 1 |-> <<>>]]
  BY DEF Init
<1>4. \A k \in Levels : \A s \in 0 .. cfg[k].sets - 1 : recent[k][s] = <<>>
  BY <1>3
<1>5. NotesHeld
  BY <1>3, <1>4 DEF NotesHeld
<1>6. ASSUME NEW k \in Levels, cfg[k].kind = "highAssoc", NEW s \in 0 .. cfg[k].sets - 1
      PROVE  Spares(lvl[k][s], cfg[k].assoc, recent[k][s], Kept(k))
  <2>1. cfg[k].assoc \in Nat \ {0} /\ Kept(k) \in Nat
    BY <1>1, CfgFacts, KeptIs DEF Shape
  <2>2. lvl[k][s].lru = [n \in 1 .. cfg[k].assoc - 1 |-> 0]
    <3>1. PICK e : e = EmptySet(k)
      OBVIOUS
    <3>2. PICK q : q = [n \in 1 .. cfg[k].assoc - 1 |-> 0]
      OBVIOUS
    <3>3. e = [valid |-> [i \in 0 .. cfg[k].assoc - 1 |-> FALSE], tag |-> [i \in 0 .. cfg[k].assoc - 1 |-> 0],
               allvalid |-> FALSE, lru |-> q]
      BY <1>6, <3>1, <3>2 DEF EmptySet, ListKinds, TreeKinds
    <3>4. e.lru = q
      BY <3>3
    <3> QED
      BY <1>1, <3>1, <3>2, <3>4
  <2>3. DOMAIN lvl[k][s].lru = 1 .. cfg[k].assoc - 1
    BY <2>2
  <2>4. SparedAt(lvl[k][s], cfg[k].assoc, <<>>, <<>>)
    BY <2>1, NoneSpared
  <2>5. <<>> \in Seq(Nat) /\ Len(<<>>) <= Kept(k)
    BY <2>1
  <2> QED
    BY <1>4, <2>3, <2>4, <2>5 DEF Spares
<1> QED
  BY <1>2, <1>4, <1>5, <1>6 DEF RecentInv

(* No operation lets a recent line be the next one replaced.               *)
LEMMA NextRecent ==
    ASSUME RecentInv, [Next]_vars
    PROVE  RecentInv'
<1>0. Shape /\ cfg \in Configs /\ TreeInv /\ TreeInv' /\ NotesHeld
  BY NextTrees DEF RecentInv, TreeInv, Shape
<1>1. ASSUME NEW a \in Addrs, NEW r \in Rands, access(a, r) PROVE RecentInv'
  <2>1. /\ cfg' = cfg
        /\ \A k \in Levels : \A s \in 0 .. cfg[k].sets - 1 :
              lvl'[k][s] = IF Reached(k, a) /\ s = SetOf(k, a)
                           THEN Accessed(k, lvl[k][s], TagOf(k, a), r) ELSE lvl[k][s]
    BY <1>0, <1>1, AccessSets
  <2>2. /\ NotesHeld'
        /\ \A k \in Levels : \A s \in 0 .. cfg[k].sets - 1 :
              recent'[k][s] = IF Reached(k, a) /\ s = SetOf(k, a)
                              THEN AtFront(recent[k][s], TagOf(k, a), Kept(k)) ELSE recent[k][s]
    BY <1>0, <1>1, AccessNotes
  <2>3. ASSUME NEW k \in Levels, cfg[k].kind = "highAssoc", NEW s \in 0 .. cfg[k].sets - 1
        PROVE  Spares(lvl'[k][s], cfg[k].assoc, recent'[k][s], Kept(k))
    <3>1. Spares(lvl[k][s], cfg[k].assoc, recent[k][s], Kept(k))
      BY <2>3 DEF RecentInv
    <3>2. CASE Reached(k, a) /\ s = SetOf(k, a)
      <4>1. TreeOk(lvl[k][s], cfg[k].assoc)
        BY <1>0, <2>3 DEF TreeInv, TreeKinds
      <4>2. Accessed(k, lvl[k][s], TagOf(k, a), r)
                = TreeAccess("highAssoc", lvl[k][s], cfg[k].assoc, TagOf(k, a))
        BY <2>3 DEF Accessed, ListKinds, TreeKinds
      <4>3. Kept(k) \in 0 .. cfg[k].assoc /\ 2 ^ Kept(k) <= cfg[k].assoc
        BY <1>0, <2>3, KeptIs
      <4>4. cfg[k].assoc \in Nat \ {0} /\ Doubling(cfg[k].assoc) /\ TagOf(k, a) \in Nat
        BY <1>0, CfgFacts, WaysDouble, TagsAndSets
      <4>5. Spares(TreeAccess("highAssoc", lvl[k][s], cfg[k].assoc, TagOf(k, a)), cfg[k].assoc,
                   AtFront(recent[k][s], TagOf(k, a), Kept(k)), Kept(k))
        BY <3>1, <4>1, <4>3, <4>4, AccessSpares
      <4> QED
        BY <2>1, <2>2, <3>2, <4>2, <4>5
    <3>3. CASE ~ (Reached(k, a) /\ s = SetOf(k, a))
      <4>1. lvl'[k][s] = lvl[k][s] /\ recent'[k][s] = recent[k][s]
        BY <2>1, <2>2, <3>3
      <4> QED
        BY <3>1, <4>1
    <3> QED
      BY <3>2, <3>3
  <2>4. ASSUME NEW k \in Levels, cfg[k].kind # "highAssoc", NEW s \in 0 .. cfg[k].sets - 1
        PROVE  recent'[k][s] = <<>>
    <3>1. recent[k][s] = <<>>
      BY <2>4 DEF RecentInv
    <3>2. AtFront(<<>>, TagOf(k, a), Kept(k)) = <<>>
      <4>1. TagOf(k, a) \in Nat /\ Kept(k) = 0
        BY <1>0, <2>4, TagsAndSets, KeptIs
      <4>2. PICK q : q = AtFront(<<>>, TagOf(k, a), 0)
        OBVIOUS
      <4>3. <<>> \in Seq(Nat) /\ 0 \in Nat
        OBVIOUS
      <4>4. q \in Seq(Nat) /\ Len(q) <= 0
        BY <4>1, <4>2, <4>3, MovedToFront
      <4>5. q = <<>>
        BY <4>4
      <4> QED
        BY <4>1, <4>2, <4>5
    <3> QED
      BY <2>2, <3>1, <3>2
  <2> QED
    BY <1>0, <2>1, <2>2, <2>3, <2>4 DEF RecentInv, Levels, Kept
<1>2. ASSUME flush PROVE RecentInv'
  <2>1. cfg' = cfg /\ \A k \in Levels : \A s \in 0 .. cfg[k].sets - 1 : lvl'[k][s] = Cleared(k, lvl[k][s])
    BY <1>0, <1>2, FlushSets
  <2>2. NotesHeld' /\ \A k \in Levels : \A s \in 0 .. cfg[k].sets - 1 : recent'[k][s] = <<>>
    BY <1>0, <1>2, FlushNotes
  <2>3. ASSUME NEW k \in Levels, cfg[k].kind = "highAssoc", NEW s \in 0 .. cfg[k].sets - 1
        PROVE  Spares(lvl'[k][s], cfg[k].assoc, recent'[k][s], Kept(k))
    <3>1. Spares(lvl[k][s], cfg[k].assoc, recent[k][s], Kept(k)) /\ TreeOk(lvl[k][s], cfg[k].assoc)
      BY <1>0, <2>3 DEF RecentInv, TreeInv, TreeKinds
    <3>2. PICK set : set = lvl[k][s]
      OBVIOUS
    <3>3. PICK m : m = Cleared(k, set)
      OBVIOUS
    <3>4. set = [valid |-> set.valid, tag |-> set.tag, allvalid |-> set.allvalid, lru |-> set.lru]
      BY <3>1, <3>2 DEF TreeOk, TreeSet
    <3>5. m.lru = set.lru
      <4>1. PICK v : v = [i \in DOMAIN set.valid |-> FALSE]
        OBVIOUS
      <4>2. m = [set EXCEPT !.valid = v, !.allvalid = FALSE]
        BY <2>3, <3>3, <4>1 DEF Cleared, TreeKinds
      <4>3. m = [valid |-> v, tag |-> set.tag, allvalid |-> FALSE, lru |-> set.lru]
        BY <3>4, <4>2
      <4> QED
        BY <4>3
    <3>6. cfg[k].assoc \in Nat \ {0} /\ Kept(k) \in Nat
      BY <1>0, CfgFacts, KeptIs
    <3>7. DOMAIN m.lru = 1 .. cfg[k].assoc - 1
      BY <3>1, <3>2, <3>5 DEF Spares
    <3>8. SparedAt(m, cfg[k].assoc, <<>>, <<>>)
      BY <3>6, NoneSpared
    <3>9. <<>> \in Seq(Nat) /\ Len(<<>>) <= Kept(k)
      BY <3>6
    <3>10. Spares(m, cfg[k].assoc, <<>>, Kept(k))
      BY <3>7, <3>8, <3>9 DEF Spares
    <3> QED
      BY <2>1, <2>2, <3>2, <3>3, <3>10
  <2> QED
    BY <1>0, <2>1, <2>2, <2>3 DEF RecentInv, Levels, Kept
<1>3. ASSUME NEW a \in Addrs, flush_line(a) PROVE RecentInv'
  <2>1. /\ cfg' = cfg
        /\ \A k \in Levels : \A s \in 0 .. cfg[k].sets - 1 :
              lvl'[k][s] = IF cfg[k].kind \in ListKinds /\ s = SetOf(k, a)
                           THEN erase(lvl[k][s], find(lvl[k][s], TagOf(k, a))) ELSE lvl[k][s]
    BY <1>0, <1>3, FlushLineSets
  <2>2. recent' = recent
    BY <1>3 DEF flush_line
  <2>3. NotesHeld'
    BY <1>0, <2>1, <2>2 DEF NotesHeld, Levels
  <2>4. ASSUME NEW k \in Levels, cfg[k].kind = "highAssoc", NEW s \in 0 .. cfg[k].sets - 1
        PROVE  Spares(lvl'[k][s], cfg[k].assoc, recent'[k][s], Kept(k))
    <3>1. cfg[k].kind \notin ListKinds
      BY <2>4 DEF ListKinds
    <3>2. Spares(lvl[k][s], cfg[k].assoc, recent[k][s], Kept(k))
      BY <2>4 DEF RecentInv
    <3> QED
      BY <2>1, <2>2, <3>1, <3>2
  <2>5. \A k \in Levels : \A s \in 0 .. cfg[k].sets - 1 : cfg[k].kind # "highAssoc" => recent'[k][s] = <<>>
    BY <2>2 DEF RecentInv
  <2> QED
    BY <1>0, <2>1, <2>3, <2>4, <2>5 DEF RecentInv, Levels, Kept
<1>4. ASSUME UNCHANGED vars PROVE RecentInv'
  BY <1>0, <1>4 DEF RecentInv, NotesHeld, Kept, vars, Levels
<1> QED
  BY <1>1, <1>2, <1>3, <1>4 DEF Next

(* A set of highAssocCache never replaces a line that is among the last d  *)
(* used in it, d the depth of its tree, in whatever order lines are        *)
(* accessed and the cache is flushed (sim_cache.cc:186).                   *)
THEOREM RecentKept == Spec => []KeepsRecent
<1>1. Init => RecentInv
  BY InitRecent
<1>2. RecentInv /\ [Next]_vars => RecentInv'
  BY NextRecent
<1>3. RecentInv => KeepsRecent
  <2> SUFFICES ASSUME RecentInv, NEW k \in Levels, NEW s \in DOMAIN recent[k], NEW j \in DOMAIN recent[k][s]
               PROVE  WaysOf(lvl[k][s], recent[k][s][j]) # {}
    BY DEF KeepsRecent
  <2>1. s \in 0 .. cfg[k].sets - 1
    <3>1. recent[k] = [x \in 0 .. cfg[k].sets - 1 |-> recent[k][x]]
      BY DEF RecentInv, NotesHeld
    <3> QED
      BY <3>1
  <2>2. CASE cfg[k].kind # "highAssoc"
    <3>1. recent[k][s] = <<>>
      BY <2>1, <2>2 DEF RecentInv
    <3> QED
      BY <3>1
  <2>3. CASE cfg[k].kind = "highAssoc"
    <3>1. Spares(lvl[k][s], cfg[k].assoc, recent[k][s], Kept(k)) /\ TreeOk(lvl[k][s], cfg[k].assoc)
      BY <2>1, <2>3 DEF RecentInv, TreeInv, TreeKinds
    <3>2. PICK set, q, a : set = lvl[k][s] /\ q = recent[k][s] /\ a = cfg[k].assoc
      OBVIOUS
    <3>2a. a \in Nat
      BY <3>2, CfgFacts DEF RecentInv, TreeInv, Shape
    <3>3. PICK W : SparedAt(set, a, q, W)
      BY <3>1, <3>2 DEF Spares
    <3>4. j \in 1 .. Len(q) /\ W[j] \in 0 .. a - 1 /\ Usable(set, W[j]) /\ set.tag[W[j]] = q[j]
      <4>1. q \in Seq(Nat) /\ j \in DOMAIN q
        BY <3>1, <3>2 DEF Spares
      <4>2. j \in 1 .. Len(q)
        BY <4>1
      <4>3. Usable(set, W[j]) /\ set.tag[W[j]] = q[j]
        BY <3>3, <4>2, Zenon DEF SparedAt
      <4>4. W \in Seq(0 .. a - 1) /\ Len(W) = Len(q)
        BY <3>3, Zenon DEF SparedAt
      <4>5. W[j] \in 0 .. a - 1
        <5>1. PICK x \in Nat : x = Len(q)
          BY <4>1
        <5> QED
          BY <3>2a, <4>2, <4>4, <5>1
      <4> QED
        BY <4>2, <4>3, <4>5
    <3>5. DOMAIN set.tag = 0 .. a - 1
      BY <3>1, <3>2 DEF TreeOk, TreeSet
    <3>6. W[j] \in WaysOf(set, q[j])
      BY <3>4, <3>5 DEF WaysOf, Usable
    <3> QED
      BY <3>2, <3>6
  <2> QED
    BY <2>2, <2>3
<1> QED
  BY <1>1, <1>2, <1>3, PTL DEF Spec

-----------------------------------------------------------------------------
(* Levels of setAssocCache                                                 *)

(* The abstract state: the tags of each set, in the order of its list.     *)
Lists ==
    [k \in Levels |->
        [s \in DOMAIN lvl[k] |->
            IF cfg[k].kind \in ListKinds THEN Tags(lvl[k][s]) ELSE <<>>]]

(* The helpers of the two specifications are the same.                     *)
LEMMA SameSum == ASSUME NEW f PROVE Lru!SumFunction(f) = SumFunction(f)
BY DEF Lru!SumFunction, SumFunction, Lru!SumFunctionOnSet, SumFunctionOnSet,
       Lru!FoldFunctionOnSet, FoldFunctionOnSet, Lru!MapThenFoldSet, MapThenFoldSet

(* The abstract set forgets a line as RemoveFirst does.                    *)
LEMMA SameRemoveFirst ==
    ASSUME NEW s, NEW t PROVE Lru!RemoveFirst(s, t) = RemoveFirst(s, t)
BY DEF Lru!RemoveFirst, RemoveFirst, Lru!RemoveAt, RemoveAt,
       Lru!SelectInSeq, SelectInSeq, Lru!Min, Min

(* An abstract set ages as the lists do.                                   *)
LEMMA SameTouch ==
    ASSUME NEW k, NEW s, NEW t
    PROVE  Lru!Touch(k, s, t) = Touched(s, t, cfg[k].assoc)
<1>1. PICK others : others = RemoveFirst(s, t)
  OBVIOUS
<1>2. Lru!RemoveFirst(s, t) = others
  BY <1>1, SameRemoveFirst
<1>3. Lru!Touch(k, s, t) = SubSeq(<<t>> \o others, 1, Lru!Min({Len(others) + 1, cfg[k].assoc}))
  BY <1>2 DEF Lru!Touch
<1>4. Touched(s, t, cfg[k].assoc) = SubSeq(<<t>> \o others, 1, Min({Len(others) + 1, cfg[k].assoc}))
  BY <1>1 DEF Touched
<1>5. Lru!Min({Len(others) + 1, cfg[k].assoc}) = Min({Len(others) + 1, cfg[k].assoc})
  BY DEF Lru!Min, Min
<1> QED
  BY <1>3, <1>4, <1>5

(* simCache::index, on both sides.                                         *)
LEMMA SameIndex ==
    /\ Lru!Levels = Levels
    /\ \A k, a : Lru!SetOf(k, a) = SetOf(k, a) /\ Lru!TagOf(k, a) = TagOf(k, a)
BY DEF Lru!Levels, Levels, Lru!SetOf, SetOf, Lru!TagOf, TagOf

(* What the abstract state is, where all levels have lists.                *)
LEMMA ListsIs ==
    ASSUME Shape, AllSetAssoc
    PROVE  /\ Lists = [k \in Levels |-> [s \in 0 .. cfg[k].sets - 1 |-> Tags(lvl[k][s])]]
           /\ \A k \in Levels : cfg[k].kind \in ListKinds /\ ~ Leaf(k)
<1>1. \A k \in Levels : cfg[k].kind \in ListKinds /\ ~ Leaf(k)
  BY DEF AllSetAssoc, ListKinds, Leaf
<1>2. \A k \in Levels : DOMAIN lvl[k] = 0 .. cfg[k].sets - 1
  <2>1. lvl = [k \in Levels |-> [s \in 0 .. cfg[k].sets - 1 |-> lvl[k][s]]]
    BY DEF Shape
  <2>2. \A k \in Levels : lvl[k] = [s \in 0 .. cfg[k].sets - 1 |-> lvl[k][s]]
    BY <2>1
  <2> QED
    BY <2>2
<1>3. Lists = [k \in Levels |-> [s \in 0 .. cfg[k].sets - 1 |-> Tags(lvl[k][s])]]
  BY <1>1, <1>2 DEF Lists
<1> QED
  BY <1>1, <1>3

(* The tags of a new list.                                                 *)
LEMMA EmptyTags == Tags(EmptyList) = <<>>
<1>1. Rep(EmptyList, <<>>) /\ Len(<<>>) = 0 /\ 0 <= MaxNodes
  BY EmptyRep, NodesAssumption
<1>2. Tags(EmptyList) \in Seq(Nat) /\ Len(Tags(EmptyList)) = 0
  BY <1>1, TagsRep
<1> QED
  BY <1>2

(* A level finds a line when its set has the tag, so both specifications   *)
(* descend to the same levels.                                             *)
LEMMA SameHolds ==
    ASSUME Wide, Shape, ListsHeld, AllSetAssoc, NEW a \in Addrs
    PROVE  /\ \A k \in Levels : Lru!Holds(k, a) <=> Holds(k, a)
           /\ \A k \in Levels : Lru!Reached(k, a) <=> Reached(k, a)
<1>1. ASSUME NEW k \in Levels PROVE Lru!Holds(k, a) <=> Holds(k, a)
  <2>1. cfg[k].kind \in ListKinds /\ SetOf(k, a) \in 0 .. cfg[k].sets - 1
    BY ListsIs, TagsAndSets DEF Shape
  <2>2. PICK w : Rep(lvl[k][SetOf(k, a)], w) /\ Len(w) <= MaxNodes
    BY <2>1, ListOf
  <2>3. find(lvl[k][SetOf(k, a)], TagOf(k, a)) # null
            <=> Contains(Tags(lvl[k][SetOf(k, a)]), TagOf(k, a))
    BY <2>2, FindTags
  <2>4. Holds(k, a) <=> find(lvl[k][SetOf(k, a)], TagOf(k, a)) # null
    BY <2>1 DEF Holds, ListKinds, TreeKinds
  <2>5. Lists[k][SetOf(k, a)] = Tags(lvl[k][SetOf(k, a)])
    <3>1. PICK s : s = SetOf(k, a)
      OBVIOUS
    <3>2. Lists[k] = [x \in 0 .. cfg[k].sets - 1 |-> Tags(lvl[k][x])]
      BY ListsIs
    <3> QED
      BY <2>1, <3>1, <3>2
  <2>6. Lru!Holds(k, a) <=> Contains(Lists[k][SetOf(k, a)], TagOf(k, a))
    <3>1. Lru!Holds(k, a) <=> Lru!Contains(Lists[k][SetOf(k, a)], TagOf(k, a))
      BY SameIndex DEF Lru!Holds, Lists
    <3> QED
      BY <3>1 DEF Lru!Contains, Contains
  <2> QED
    BY <2>3, <2>4, <2>5, <2>6
<1>2. ASSUME NEW k \in Levels PROVE Lru!Reached(k, a) <=> Reached(k, a)
  <2>1. \A j \in 1 .. k - 1 : j \in Levels
    <3>1. cfg \in Configs
      BY DEF Shape
    <3>2. Levels = 1 .. Len(cfg) /\ Len(cfg) \in Nat
      BY <3>1, CfgFacts
    <3> QED
      BY <3>2
  <2>2. \A j \in 1 .. k - 1 : ~ Leaf(j) /\ (Lru!Holds(j, a) <=> Holds(j, a))
    BY <1>1, <2>1, ListsIs
  <2> QED
    BY <2>2, Zenon DEF Lru!Reached, Reached
<1> QED
  BY <1>1, <1>2

(* An access that no level answers is one that reaches the last level and  *)
(* misses there: it costs what the memory costs.                           *)
LEMMA SameLatency ==
    ASSUME Wide, Shape, ListsHeld, AllSetAssoc, NEW a \in Addrs
    PROVE  Latency(a) =
              Lru!SumFunction([k \in {j \in Lru!Levels : Lru!Reached(j, a)} |-> cfg[k].latency])
              + IF \E k \in Lru!Levels : Lru!Holds(k, a) THEN 0 ELSE MemLatency
<1>1. PICK last : last = Len(cfg)
  OBVIOUS
<1>2. last \in Nat \ {0} /\ Levels = 1 .. last
  <2>1. cfg \in Configs
    BY DEF Shape
  <2> QED
    BY <1>1, <2>1, CfgFacts
<1>3. last \in Levels /\ cfg[last].kind = "setAssoc"
  BY <1>2 DEF AllSetAssoc
<1>4. Reached(last, a) /\ ~ Holds(last, a) <=> ~ \E k \in Levels : Holds(k, a)
  <2>1. \A k \in Levels : k = last \/ k \in 1 .. last - 1
    BY <1>2
  <2>2. \A j \in 1 .. last - 1 : j \in Levels /\ ~ Leaf(j)
    <3>1. \A j \in 1 .. last - 1 : j \in Levels
      BY <1>2
    <3> QED
      BY <3>1, ListsIs
  <2>3. Reached(last, a) <=> \A j \in 1 .. last - 1 : ~ Holds(j, a)
    BY <2>2, Zenon DEF Reached
  <2> QED
    BY <1>3, <2>1, <2>2, <2>3, Zenon
<1>5. [k \in {j \in Levels : Reached(j, a)} |-> IF Leaf(k) THEN 0 ELSE cfg[k].latency]
        = [k \in {j \in Lru!Levels : Lru!Reached(j, a)} |-> cfg[k].latency]
  <2>1. {j \in Levels : Reached(j, a)} = {j \in Lru!Levels : Lru!Reached(j, a)}
    BY SameHolds, SameIndex
  <2>2. \A k \in {j \in Levels : Reached(j, a)} : ~ Leaf(k)
    BY ListsIs
  <2> QED
    BY <2>1, <2>2
<1>6. PICK f : f = [k \in {j \in Levels : Reached(j, a)} |-> IF Leaf(k) THEN 0 ELSE cfg[k].latency]
  OBVIOUS
<1>7. Latency(a) = SumFunction(f)
                   + IF Reached(last, a) /\ ~ Holds(last, a) THEN MemLatency ELSE 0
  BY <1>1, <1>3, <1>6 DEF Latency
<1>8. SumFunction(f) = Lru!SumFunction(f)
  BY SameSum
<1>9. (\E k \in Lru!Levels : Lru!Holds(k, a)) <=> \E k \in Levels : Holds(k, a)
  BY SameHolds, SameIndex
<1>10. (IF Reached(last, a) /\ ~ Holds(last, a) THEN MemLatency ELSE 0)
        = IF \E k \in Lru!Levels : Lru!Holds(k, a) THEN 0 ELSE MemLatency
  BY <1>4, <1>9
<1>11. PICK n : n = IF \E k \in Lru!Levels : Lru!Holds(k, a) THEN 0 ELSE MemLatency
  OBVIOUS
<1>12. Latency(a) = Lru!SumFunction(f) + n
  BY <1>7, <1>8, <1>10, <1>11
<1>13. f = [k \in {j \in Lru!Levels : Lru!Reached(j, a)} |-> cfg[k].latency]
  BY <1>5, <1>6
<1> QED
  BY <1>11, <1>12, <1>13

(* read() and write() are an access of the LRU levels (sim_cache.cc:346).  *)
LEMMA SameAccess ==
    ASSUME Wide, ListInv, AllSetAssoc, NEW a \in Addrs, NEW r, access(a, r)
    PROVE  Lru!Access(a)
<1>1. Shape /\ ListsHeld /\ cfg \in Configs
  BY DEF ListInv, Shape
<1>2. Shape' /\ cfg' = cfg
  BY <1>1, AccessSets
<1>3. AllSetAssoc'
  BY <1>2 DEF AllSetAssoc, Levels
<1>4. Lists' = [k \in Levels |-> [s \in 0 .. cfg[k].sets - 1 |-> Tags(lvl'[k][s])]]
  <2>1. (Shape /\ AllSetAssoc
           => Lists = [k \in Levels |-> [s \in 0 .. cfg[k].sets - 1 |-> Tags(lvl[k][s])]])'
    BY ListsIs, PTL
  <2> QED
    BY <1>2, <1>3, <2>1 DEF Levels
<1>5. ASSUME NEW k \in Levels
      PROVE  Lists'[k] = IF Lru!Reached(k, a)
                         THEN [Lists[k] EXCEPT ![SetOf(k, a)] = Lru!Touch(k, @, TagOf(k, a))]
                         ELSE Lists[k]
  <2>1. cfg[k].kind \in ListKinds /\ SetOf(k, a) \in 0 .. cfg[k].sets - 1
    BY <1>1, ListsIs, TagsAndSets
  <2>2. Lists[k] = [s \in 0 .. cfg[k].sets - 1 |-> Tags(lvl[k][s])]
    BY <1>1, ListsIs
  <2>3. Lists'[k] = [s \in 0 .. cfg[k].sets - 1 |-> Tags(lvl'[k][s])]
    BY <1>4
  <2>4. \A s \in 0 .. cfg[k].sets - 1 :
            Tags(lvl'[k][s]) = IF Reached(k, a) /\ s = SetOf(k, a)
                               THEN Touched(Tags(lvl[k][s]), TagOf(k, a), cfg[k].assoc)
                               ELSE Tags(lvl[k][s])
    BY <1>1, <2>1, AccessLists
  <2>5. Lru!Reached(k, a) <=> Reached(k, a)
    BY <1>1, SameHolds
  <2>6. Lru!Touch(k, Lists[k][SetOf(k, a)], TagOf(k, a))
            = Touched(Lists[k][SetOf(k, a)], TagOf(k, a), cfg[k].assoc)
    BY SameTouch
  <2>7. PICK x : x = SetOf(k, a)
    OBVIOUS
  <2>8. PICK tags : tags = [s \in 0 .. cfg[k].sets - 1 |-> Tags(lvl[k][s])]
    OBVIOUS
  <2>9. PICK new : new = Lru!Touch(k, Lists[k][x], TagOf(k, a))
    OBVIOUS
  <2>10. x \in 0 .. cfg[k].sets - 1 /\ Lists[k] = tags /\ tags[x] = Tags(lvl[k][x])
    BY <2>1, <2>2, <2>7, <2>8
  <2>11. new = Touched(Tags(lvl[k][x]), TagOf(k, a), cfg[k].assoc)
    BY <2>6, <2>7, <2>9, <2>10
  <2>12. \A s \in 0 .. cfg[k].sets - 1 :
            Tags(lvl'[k][s]) = IF Reached(k, a) /\ s = x THEN new ELSE tags[s]
    BY <2>4, <2>7, <2>8, <2>10, <2>11
  <2>13. Lists'[k] = IF Reached(k, a) THEN [tags EXCEPT ![x] = new] ELSE tags
    BY <2>3, <2>8, <2>12
  <2> QED
    BY <2>5, <2>7, <2>9, <2>10, <2>13
<1>6. lat' = Lru!SumFunction([k \in {j \in Lru!Levels : Lru!Reached(j, a)} |-> cfg[k].latency])
             + IF \E k \in Lru!Levels : Lru!Holds(k, a) THEN 0 ELSE MemLatency
  <2>1. lat' = Latency(a)
    BY DEF access
  <2> QED
    BY <1>1, <2>1, SameLatency
<1>7. Lists' = [k \in Levels |->
                   IF Lru!Reached(k, a)
                   THEN [Lists[k] EXCEPT ![SetOf(k, a)] = Lru!Touch(k, @, TagOf(k, a))]
                   ELSE Lists[k]]
  BY <1>4, <1>5
<1> QED
  BY <1>2, <1>6, <1>7, SameIndex DEF Lru!Access, Lists

(* flush() empties every list.                                             *)
LEMMA SameFlush ==
    ASSUME ListInv, AllSetAssoc, flush
    PROVE  Lru!Flush
<1>1. Shape /\ ListsHeld /\ cfg \in Configs
  BY DEF ListInv, Shape
<1>2. Shape' /\ cfg' = cfg /\ lat' = lat
  BY <1>1, FlushSets DEF flush
<1>3. Lists' = [k \in Levels |-> [s \in 0 .. cfg[k].sets - 1 |-> Tags(lvl'[k][s])]]
  <2>1. (Shape /\ AllSetAssoc
           => Lists = [k \in Levels |-> [s \in 0 .. cfg[k].sets - 1 |-> Tags(lvl[k][s])]])'
    BY ListsIs, PTL
  <2>2. AllSetAssoc'
    BY <1>2 DEF AllSetAssoc, Levels
  <2> QED
    BY <1>2, <2>1, <2>2 DEF Levels
<1>4. \A k \in Levels : \A s \in 0 .. cfg[k].sets - 1 : Tags(lvl'[k][s]) = <<>>
  <2>1. \A k \in Levels : \A s \in 0 .. cfg[k].sets - 1 : lvl'[k][s] = EmptyList
    BY <1>1, FlushLists, ListsIs
  <2> QED
    BY <2>1, EmptyTags
<1>5. Lists' = [k \in Levels |-> [s \in 0 .. cfg[k].sets - 1 |-> <<>>]]
  BY <1>3, <1>4
<1> QED
  BY <1>2, <1>5, SameIndex DEF Lru!Flush, Lists

(* flush_line() takes the line out of every list that has it.              *)
LEMMA SameFlushLine ==
    ASSUME Wide, ListInv, AllSetAssoc, NEW a \in Addrs, flush_line(a)
    PROVE  Lru!FlushLine(a)
<1>1. Shape /\ ListsHeld /\ cfg \in Configs
  BY DEF ListInv, Shape
<1>2. Shape' /\ cfg' = cfg /\ lat' = lat
  BY <1>1, FlushLineSets DEF flush_line
<1>3. Lists' = [k \in Levels |-> [s \in 0 .. cfg[k].sets - 1 |-> Tags(lvl'[k][s])]]
  <2>1. (Shape /\ AllSetAssoc
           => Lists = [k \in Levels |-> [s \in 0 .. cfg[k].sets - 1 |-> Tags(lvl[k][s])]])'
    BY ListsIs, PTL
  <2>2. AllSetAssoc'
    BY <1>2 DEF AllSetAssoc, Levels
  <2> QED
    BY <1>2, <2>1, <2>2 DEF Levels
<1>4. ASSUME NEW k \in Levels
      PROVE  Lists'[k] = [Lists[k] EXCEPT ![SetOf(k, a)] = Lru!RemoveFirst(@, TagOf(k, a))]
  <2>1. cfg[k].kind \in ListKinds /\ SetOf(k, a) \in 0 .. cfg[k].sets - 1
    BY <1>1, ListsIs, TagsAndSets
  <2>2. Lists[k] = [s \in 0 .. cfg[k].sets - 1 |-> Tags(lvl[k][s])]
    BY <1>1, ListsIs
  <2>3. Lists'[k] = [s \in 0 .. cfg[k].sets - 1 |-> Tags(lvl'[k][s])]
    BY <1>3
  <2>4. \A s \in 0 .. cfg[k].sets - 1 :
            Tags(lvl'[k][s]) = IF s = SetOf(k, a)
                               THEN RemoveFirst(Tags(lvl[k][s]), TagOf(k, a))
                               ELSE Tags(lvl[k][s])
    BY <1>1, <2>1, FlushLineLists
  <2>5. PICK x : x = SetOf(k, a)
    OBVIOUS
  <2>6. PICK tags : tags = [s \in 0 .. cfg[k].sets - 1 |-> Tags(lvl[k][s])]
    OBVIOUS
  <2>7. PICK new : new = Lru!RemoveFirst(Lists[k][x], TagOf(k, a))
    OBVIOUS
  <2>8. x \in 0 .. cfg[k].sets - 1 /\ Lists[k] = tags /\ tags[x] = Tags(lvl[k][x])
    BY <2>1, <2>2, <2>5, <2>6
  <2>9. new = RemoveFirst(Tags(lvl[k][x]), TagOf(k, a))
    BY <2>7, <2>8, SameRemoveFirst
  <2>10. \A s \in 0 .. cfg[k].sets - 1 :
            Tags(lvl'[k][s]) = IF s = x THEN new ELSE tags[s]
    BY <2>4, <2>5, <2>6, <2>8, <2>9
  <2>11. Lists'[k] = [tags EXCEPT ![x] = new]
    BY <2>3, <2>6, <2>10
  <2> QED
    BY <2>5, <2>7, <2>8, <2>11
<1>5. Lists' = [k \in Levels |->
                   [Lists[k] EXCEPT ![SetOf(k, a)] = Lru!RemoveFirst(@, TagOf(k, a))]]
  BY <1>3, <1>4
<1>6. ASSUME NEW k \in Levels
      PROVE  [Lists[k] EXCEPT ![Lru!SetOf(k, a)] = Lru!RemoveFirst(@, Lru!TagOf(k, a))]
                 = [Lists[k] EXCEPT ![SetOf(k, a)] = Lru!RemoveFirst(@, TagOf(k, a))]
  <2>1. Lru!SetOf(k, a) = SetOf(k, a) /\ Lru!TagOf(k, a) = TagOf(k, a)
    BY SameIndex
  <2> QED
    BY <2>1, Zenon
<1>7. Lists' = [k \in Lru!Levels |->
                   [Lists[k] EXCEPT ![Lru!SetOf(k, a)] = Lru!RemoveFirst(@, Lru!TagOf(k, a))]]
  <2>1. Lru!Levels = Levels
    BY SameIndex
  <2> QED
    BY <1>5, <1>6, <2>1, Zenon
<1>8. UNCHANGED <<cfg, lat>>
  BY <1>2
<1> QED
  BY <1>7, <1>8, Zenon DEF Lru!FlushLine, Lists

(* Levels of setAssocCache implement levels of LRU replacement: an access  *)
(* finds the line in the level the abstract one finds it in, ages the same *)
(* lines, replaces the same line and costs the same; flush() and           *)
(* flush_line() forget the same lines (sim_cache.cc:17, sim_cache.hh:406). *)
THEOREM Refinement == Wide => (Spec => ImplementsLru)
<1> SUFFICES ASSUME Wide PROVE Spec => ImplementsLru
  OBVIOUS
<1>1. Init => ListInv
  BY InitSets, InitLists DEF ListInv
<1>2. ListInv /\ [Next]_vars => ListInv'
  BY NextLists
<1>3. Init => Lru!Init
  <2> SUFFICES ASSUME Init PROVE Lru!Init
    OBVIOUS
  <2>1. Shape /\ \A k \in Levels : \A s \in 0 .. cfg[k].sets - 1 : lvl[k][s] = EmptySet(k)
    BY InitSets
  <2>2. \A k \in Levels : DOMAIN lvl[k] = 0 .. cfg[k].sets - 1
    <3>1. lvl = [k \in Levels |-> [s \in 0 .. cfg[k].sets - 1 |-> lvl[k][s]]]
      BY <2>1 DEF Shape
    <3>2. \A k \in Levels : lvl[k] = [s \in 0 .. cfg[k].sets - 1 |-> lvl[k][s]]
      BY <3>1
    <3> QED
      BY <3>2
  <2>3. ASSUME NEW k \in Levels, NEW s \in 0 .. cfg[k].sets - 1
        PROVE  (IF cfg[k].kind \in ListKinds THEN Tags(lvl[k][s]) ELSE <<>>) = <<>>
    <3>1. CASE cfg[k].kind \in ListKinds
      <4>1. EmptySet(k) = EmptyList
        BY <3>1 DEF EmptySet, ListKinds, TreeKinds
      <4> QED
        BY <2>1, <4>1, EmptyTags
    <3> QED
      BY <3>1
  <2>4. Lists = [k \in Levels |-> [s \in 0 .. cfg[k].sets - 1 |-> <<>>]]
    BY <2>2, <2>3 DEF Lists
  <2> QED
    BY <2>4, SameIndex DEF Lru!Init, Init, Lists
<1>4. ListInv /\ [Next]_vars => [AllSetAssoc => Lru!Next]_(Lru!vars)
  <2> SUFFICES ASSUME ListInv, [Next]_vars, ~ UNCHANGED vars, AllSetAssoc
               PROVE  Lru!Next
    BY DEF vars, Lru!vars, Levels
  <2>1. ASSUME NEW a \in Addrs, NEW r \in Rands, access(a, r) PROVE Lru!Next
    BY <2>1, SameAccess DEF Lru!Next
  <2>2. ASSUME flush PROVE Lru!Next
    BY <2>2, SameFlush DEF Lru!Next
  <2>3. ASSUME NEW a \in Addrs, flush_line(a) PROVE Lru!Next
    BY <2>3, SameFlushLine DEF Lru!Next
  <2> QED
    BY <2>1, <2>2, <2>3 DEF Next
<1> QED
  BY <1>1, <1>2, <1>3, <1>4, PTL DEF Spec, ImplementsLru
===============================================================================
