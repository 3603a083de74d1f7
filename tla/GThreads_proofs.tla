--------------------------- MODULE GThreads_proofs ---------------------------
(***************************************************************************)
(* Proofs about the scheduler of the gthreads: for any number of threads   *)
(* and any latencies, the doubly linked list is a round-robin queue, and   *)
(* a thread may leave it whenever it is its turn.                          *)
(***************************************************************************)
EXTENDS GThreads, DataLemmas

-----------------------------------------------------------------------------
(* The list as a ring                                                      *)

(* From q[1] on, get_next() finds the threads in the order of q and then   *)
(* q[1] again; prev and next are inverse to each other; head is the one    *)
(* thread without a predecessor.                                           *)
Succ(q, i) == IF i = Len(q) THEN q[1] ELSE q[i + 1]
Pointers(l) ==
    l = [head |-> l.head, next |-> [t \in ThreadSet |-> l.next[t]],
         prev |-> [t \in ThreadSet |-> l.prev[t]]]
Doubly(l, S) ==
    /\ l.head \in S /\ l.prev[l.head] = nullptr
    /\ \A t \in S :
          /\ l.next[t] # nullptr => l.next[t] \in S /\ l.prev[l.next[t]] = t
          /\ l.prev[t] # nullptr => l.prev[t] \in S /\ l.next[l.prev[t]] = t
          /\ l.prev[t] = nullptr => t = l.head
Ring(l, q) ==
    /\ q \in Seq(ThreadSet) /\ q # <<>> /\ NoRepeat(q)
    /\ Pointers(l)
    /\ Doubly(l, Elems(q))
    /\ \A i \in DOMAIN q : get_next(l, q[i]) = Succ(q, i)

(* The walk from q[1] meets q (gthread.hh, gthread_t::get_next).           *)
LEMMA WalkIs ==
    ASSUME NEW l, NEW q, Ring(l, q), Len(q) <= Len(Threads)
    PROVE  Walk(l, q[1]) = q
<1> DEFINE N == Len(Threads)
           L == Len(q)
           onward == [p \in ThreadSet \cup {nullptr} |->
                         IF p = nullptr \/ get_next(l, p) = q[1] THEN nullptr
                         ELSE get_next(l, p)]
           step(a, n) == IF n = 1 THEN q[1] ELSE onward[a[n - 1]]
           Is(a) == a = [n \in DOMAIN Threads |-> step(a, n)]
           g == [n \in DOMAIN Threads |-> IF n <= L THEN q[n] ELSE nullptr]
<1>1. /\ N \in Nat /\ DOMAIN Threads = 1 .. N
      /\ L \in Nat \ {0} /\ L <= N /\ DOMAIN q = 1 .. L
      /\ q \in Seq(ThreadSet) /\ nullptr \notin ThreadSet
      /\ \A i \in 1 .. L : q[i] \in ThreadSet
  <2>1. q \in Seq(ThreadSet) /\ q # <<>> /\ Threads \in Seq(ThreadSet) /\ nullptr \notin ThreadSet
    BY ThreadsAssumption DEF Ring
  <2> QED
    BY <2>1
<1>1a. N \in Nat /\ DOMAIN Threads = 1 .. N /\ L \in Nat /\ 1 <= L /\ L <= N
  BY <1>1
<1>2. \A i \in 1 .. L : onward[q[i]] = IF i = L THEN nullptr ELSE q[i + 1]
  <2> SUFFICES ASSUME NEW i \in 1 .. L
               PROVE  onward[q[i]] = IF i = L THEN nullptr ELSE q[i + 1]
    OBVIOUS
  <2>1. q[i] # nullptr /\ q[i] \in ThreadSet /\ get_next(l, q[i]) = Succ(q, i)
    BY <1>1 DEF Ring
  <2>2. onward[q[i]] = IF get_next(l, q[i]) = q[1] THEN nullptr ELSE get_next(l, q[i])
    BY <2>1
  <2>3. CASE i = L
    BY <2>1, <2>2, <2>3 DEF Succ
  <2>4. CASE i # L
    <3>1. i + 1 \in 1 .. L /\ i + 1 # 1
      BY <1>1a, <2>4
    <3>2. q[i + 1] # q[1]
      BY <1>1, <3>1 DEF Ring, NoRepeat
    <3> QED
      BY <2>1, <2>2, <2>4, <3>2 DEF Succ
  <2> QED
    BY <2>3, <2>4
<1>3. onward[nullptr] = nullptr
  OBVIOUS
<1> HIDE DEF onward
<1>4. ASSUME NEW n \in 1 .. N PROVE g[n] = step(g, n)
  <2>1. CASE n = 1
    BY <1>1, <2>1
  <2>2. CASE n # 1
    <3>1. PICK m : m = n - 1
      OBVIOUS
    <3>2. m \in 1 .. N /\ n = m + 1 /\ m \in Nat /\ n \in Nat
      BY <1>1, <2>2, <3>1
    <3>3. step(g, n) = onward[g[m]] /\ g[m] = IF m <= L THEN q[m] ELSE nullptr
      BY <2>2, <3>1, <3>2
    <3>4. CASE m <= L
      <4>1. m \in 1 .. L /\ (m = L <=> ~ (n <= L))
        BY <1>1a, <3>2, <3>4
      <4>2. onward[q[m]] = IF m = L THEN nullptr ELSE q[n]
        BY <1>2, <3>2, <4>1
      <4>3. g[n] = IF n <= L THEN q[n] ELSE nullptr
        OBVIOUS
      <4> QED
        BY <3>3, <3>4, <4>1, <4>2, <4>3
    <3>5. CASE ~ (m <= L)
      <4>1. ~ (n <= L)
        BY <1>1, <3>2, <3>5
      <4> QED
        BY <1>3, <3>3, <3>5, <4>1
    <3> QED
      BY <3>4, <3>5
  <2> QED
    BY <2>1, <2>2
<1> HIDE DEF step
<1>5. Is(g)
  <2>1. g = [n \in DOMAIN Threads |-> g[n]]
    OBVIOUS
  <2> HIDE DEF g
  <2>2. [n \in DOMAIN Threads |-> g[n]] = [n \in DOMAIN Threads |-> step(g, n)]
    BY <1>1a, <1>4
  <2> QED
    BY <2>1, <2>2, Zenon
<1> HIDE DEF g
<1>6. ASSUME NEW a, Is(a), NEW b, Is(b) PROVE a = b
  <2>1. \A i \in DOMAIN Threads : a[i] = step(a, i) /\ b[i] = step(b, i)
    BY <1>6, Zenon
  <2>2. a = [i \in DOMAIN Threads |-> a[i]] /\ b = [i \in DOMAIN Threads |-> b[i]]
    BY <1>6
  <2> DEFINE T == {i \in 1 .. N : a[i] # b[i]}
  <2>3. T = {}
    <3> SUFFICES ASSUME T # {} PROVE FALSE
      OBVIOUS
    <3>1. T \in SUBSET Nat
      BY <1>1
    <3>2. PICK i \in T : \A k \in T : i <= k
      BY <3>1, Least
    <3>3. i \in 1 .. N /\ a[i] # b[i]
      OBVIOUS
    <3>4. i # 1
      BY <1>1a, <2>1, <3>3 DEF step
    <3>5. i - 1 \in 1 .. N /\ ~ (i <= i - 1)
      BY <1>1, <3>3, <3>4
    <3>6. a[i - 1] = b[i - 1]
      BY <3>2, <3>5
    <3> QED
      BY <1>1a, <2>1, <3>3, <3>4, <3>6 DEF step
  <2>4. \A i \in 1 .. N : a[i] = b[i]
    BY <2>3
  <2> HIDE DEF Is, T
  <2> QED
    BY <1>1a, <2>2, <2>4
<1> DEFINE at == CHOOSE a : Is(a)
<1>8. at = g
  <2> HIDE DEF Is
  <2>1. Is(at)
    BY <1>5, Zenon
  <2> QED
    BY <1>5, <1>6, <2>1
<1>9. Walk(l, q[1]) = [n \in {m \in DOMAIN Threads : at[m] # nullptr} |-> at[n]]
  BY Zenon DEF Walk, step, onward
<1> HIDE DEF at
<1>10. {m \in DOMAIN Threads : at[m] # nullptr} = 1 .. L
  <2>1. \A m \in 1 .. L : m \in 1 .. N
    BY <1>1
  <2>2. \A m \in 1 .. N : m \in 1 .. L <=> m <= L
    BY <1>1
  <2>3. \A m \in 1 .. L : q[m] # nullptr
    BY <1>1
  <2>4. \A m \in 1 .. N : at[m] = IF m <= L THEN q[m] ELSE nullptr
    BY <1>1a, <1>8 DEF g
  <2> QED
    BY <1>1a, <2>1, <2>2, <2>3, <2>4
<1>11. \A n \in 1 .. L : at[n] = q[n]
  <2>1. \A m \in 1 .. L : m \in 1 .. N /\ m <= L
    BY <1>1
  <2> QED
    BY <1>1a, <1>8, <2>1 DEF g
<1>12. Walk(l, q[1]) = [n \in 1 .. L |-> q[n]]
  BY <1>9, <1>10, <1>11
<1>13. q = [n \in 1 .. L |-> q[n]]
  BY <1>1
<1> QED
  BY <1>12, <1>13

(* gthread_yield(): the ring turns by one thread.                          *)
LEMMA RotateRing ==
    ASSUME NEW l, NEW q, Ring(l, q)
    PROVE  LET r == Append(Tail(q), Head(q))
           IN  /\ Ring(l, r) /\ Len(r) = Len(q)
               /\ r[1] = get_next(l, q[1]) /\ Head(q) = q[1]
<1> DEFINE r == Append(Tail(q), Head(q))
<1>1. /\ q \in Seq(ThreadSet) /\ q # <<>> /\ NoRepeat(q)
      /\ Pointers(l) /\ Doubly(l, Elems(q))
      /\ \A i \in DOMAIN q : get_next(l, q[i]) = Succ(q, i)
  BY DEF Ring
<1>2. PICK n : n = Len(q)
  OBVIOUS
<1>3. /\ n \in Nat /\ 1 <= n /\ DOMAIN q = 1 .. n /\ Head(q) = q[1]
      /\ r \in Seq(ThreadSet) /\ Len(r) = n /\ DOMAIN r = 1 .. n
  BY <1>1, <1>2
<1>4. \A i \in 1 .. n : r[i] = IF i = n THEN q[1] ELSE q[i + 1]
  <2> SUFFICES ASSUME NEW i \in 1 .. n PROVE r[i] = IF i = n THEN q[1] ELSE q[i + 1]
    OBVIOUS
  <2>1. Tail(q) \in Seq(ThreadSet) /\ Len(Tail(q)) = n - 1 /\ Head(q) = q[1]
        /\ \A j \in 1 .. n - 1 : Tail(q)[j] = q[j + 1]
    BY <1>1, <1>2
  <2> QED
    BY <1>3, <2>1
<1>5. Elems(r) = Elems(q) /\ NoRepeat(r)
  <2>1. /\ Tail(q) \in Seq(ThreadSet) /\ Head(q) \in Elems(q)
        /\ Elems(q) = Elems(Tail(q)) \cup {Head(q)}
        /\ NoRepeat(Tail(q)) /\ Head(q) \notin Elems(Tail(q))
    BY <1>1, TailElems
  <2>2. PICK y, u : y = Head(q) /\ u = Tail(q)
    OBVIOUS
  <2>3. y \in ThreadSet /\ u \in Seq(ThreadSet) /\ y \notin Elems(u) /\ NoRepeat(u)
    BY <1>1, <2>1, <2>2
  <2>4. Elems(Append(u, y)) = Elems(u) \cup {y} /\ NoRepeat(Append(u, y))
    BY <2>3, AppendElems
  <2> QED
    BY <2>1, <2>2, <2>4
<1> HIDE DEF r
<1>6. \A i \in DOMAIN r : get_next(l, r[i]) = Succ(r, i)
  <2> SUFFICES ASSUME NEW i \in 1 .. n PROVE get_next(l, r[i]) = Succ(r, i)
    BY <1>3
  <2>1. r[1] = IF 1 = n THEN q[1] ELSE q[2]
    BY <1>3, <1>4
  <2>2. CASE i = n
    <3>1. r[i] = q[1] /\ get_next(l, q[1]) = Succ(q, 1) /\ Succ(r, i) = r[1]
      BY <1>1, <1>3, <1>4, <2>2 DEF Succ
    <3>2. Succ(q, 1) = IF 1 = n THEN q[1] ELSE q[2]
      BY <1>2 DEF Succ
    <3> QED
      BY <2>1, <3>1, <3>2
  <2>3. CASE i # n
    <3>1. PICK k : k = i + 1
      OBVIOUS
    <3>2. k \in 1 .. n
      BY <1>3, <2>3, <3>1
    <3>3. r[i] = q[k] /\ Succ(r, i) = r[k]
      BY <1>3, <1>4, <2>3, <3>1 DEF Succ
    <3>4. get_next(l, q[k]) = Succ(q, k) /\ Succ(q, k) = IF k = n THEN q[1] ELSE q[k + 1]
      BY <1>1, <1>2, <1>3, <3>2 DEF Succ
    <3> QED
      BY <1>4, <3>2, <3>3, <3>4
  <2> QED
    BY <2>2, <2>3
<1>7. r # <<>>
  BY <1>3
<1>8. Ring(l, r)
  BY <1>1, <1>3, <1>5, <1>6, <1>7 DEF Ring
<1>9. r[1] = get_next(l, q[1])
  <2>1. get_next(l, q[1]) = Succ(q, 1)
    BY <1>1, <1>3
  <2>2. r[1] = Succ(q, 1)
    BY <1>2, <1>3, <1>4 DEF Succ
  <2> QED
    BY <2>1, <2>2
<1> QED
  BY <1>2, <1>3, <1>8, <1>9 DEF r

(* gthread_terminate(): the thread whose turn it is leaves the ring; the   *)
(* last one leaves no head.                                                *)
LEMMA RemoveRing ==
    ASSUME NEW l, NEW q, Ring(l, q)
    PROVE  LET m == remove_from_list(l, q[1])
           IN  /\ m.head = nullptr <=> Tail(q) = <<>>
               /\ Tail(q) # <<>> => Ring(m, Tail(q)) /\ Tail(q)[1] = get_next(l, q[1])
               /\ Len(Tail(q)) <= Len(q)
<1> DEFINE r == Tail(q)
           m == remove_from_list(l, q[1])
<1>1. /\ q \in Seq(ThreadSet) /\ q # <<>> /\ NoRepeat(q)
      /\ Pointers(l) /\ Doubly(l, Elems(q))
      /\ \A i \in DOMAIN q : get_next(l, q[i]) = Succ(q, i)
      /\ nullptr \notin ThreadSet
  BY ThreadsAssumption DEF Ring
<1>2. PICK n : n = Len(q)
  OBVIOUS
<1>3. /\ n \in Nat /\ 1 <= n /\ DOMAIN q = 1 .. n /\ Head(q) = q[1]
      /\ r \in Seq(ThreadSet) /\ Len(r) = n - 1 /\ DOMAIN r = 1 .. n - 1
      /\ r = <<>> <=> n = 1
  BY <1>1, <1>2
<1>4. \A i \in 1 .. n - 1 : r[i] = q[i + 1]
  BY <1>1, <1>2
<1>5. PICK x : x = q[1]
  OBVIOUS
<1>6. /\ Elems(r) = Elems(q) \ {x} /\ x \in Elems(q) /\ NoRepeat(r)
      /\ Elems(q) \subseteq ThreadSet
  <2>1. /\ Head(q) \in Elems(q)
        /\ Elems(q) = Elems(Tail(q)) \cup {Head(q)}
        /\ NoRepeat(Tail(q)) /\ Head(q) \notin Elems(Tail(q))
    BY <1>1, TailElems
  <2>2. Elems(q) \subseteq ThreadSet
    BY <1>1, <1>3 DEF Elems
  <2> QED
    BY <1>3, <1>5, <2>1, <2>2
<1> HIDE DEF r
<1>7. PICK p, s : p = l.prev[x] /\ s = l.next[x]
  OBVIOUS
<1>8. /\ Pointers(m)
      /\ m.head = IF l.head = x THEN s ELSE l.head
      /\ \A t \in ThreadSet : m.next[t] = IF t = p /\ p # nullptr THEN s ELSE l.next[t]
      /\ \A t \in ThreadSet : m.prev[t] = IF t = s /\ s # nullptr THEN p ELSE l.prev[t]
  <2>1. PICK ln, lp : /\ ln = [t \in ThreadSet |-> l.next[t]]
                      /\ lp = [t \in ThreadSet |-> l.prev[t]]
    OBVIOUS
  <2>2. l = [head |-> l.head, next |-> ln, prev |-> lp] /\ l.next = ln /\ l.prev = lp
    BY <1>1, <2>1 DEF Pointers
  <2>3. PICK mn : mn = IF p = nullptr THEN ln ELSE [ln EXCEPT ![p] = s]
    OBVIOUS
  <2>4. PICK mp : mp = IF s = nullptr THEN lp ELSE [lp EXCEPT ![s] = p]
    OBVIOUS
  <2>5. PICK h : h = IF l.head = x THEN s ELSE l.head
    OBVIOUS
  <2>6. m = [l EXCEPT !.next = mn, !.prev = mp, !.head = h]
    BY <1>5, <1>7, <2>2, <2>3, <2>4, <2>5 DEF remove_from_list
  <2> HIDE DEF m
  <2>7. m = [head |-> h, next |-> mn, prev |-> mp] /\ m.head = h /\ m.next = mn /\ m.prev = mp
    BY <2>2, <2>6
  <2>8. /\ mn = [t \in ThreadSet |-> mn[t]]
        /\ \A t \in ThreadSet : mn[t] = IF t = p /\ p # nullptr THEN s ELSE l.next[t]
    BY <2>1, <2>2, <2>3
  <2>9. /\ mp = [t \in ThreadSet |-> mp[t]]
        /\ \A t \in ThreadSet : mp[t] = IF t = s /\ s # nullptr THEN p ELSE l.prev[t]
    BY <2>1, <2>2, <2>4
  <2> QED
    BY <2>5, <2>7, <2>8, <2>9 DEF Pointers
<1> HIDE DEF m
(* What the list says of the thread that leaves and of its neighbours.     *)
<1>9. /\ l.head \in Elems(q) /\ l.prev[l.head] = nullptr
      /\ s # nullptr => s \in Elems(q) /\ l.prev[s] = x
      /\ p # nullptr => p \in Elems(q) /\ l.next[p] = x
      /\ p = nullptr <=> x = l.head
      /\ nullptr \notin Elems(q)
  BY <1>1, <1>6, <1>7 DEF Doubly
<1>11. get_next(l, x) = IF s = nullptr THEN l.head ELSE s
  BY <1>7 DEF get_next
<1>12. get_next(l, x) = IF n = 1 THEN x ELSE r[1]
  <2>1. get_next(l, x) = Succ(q, 1)
    BY <1>1, <1>3, <1>5
  <2>2. n # 1 => r[1] = q[2]
    BY <1>3, <1>4
  <2> QED
    BY <1>2, <1>5, <2>1, <2>2 DEF Succ
<1>10. s # x /\ p # x
  <2> SUFFICES ASSUME s = x \/ p = x PROVE FALSE
    OBVIOUS
  <2>1. x # nullptr
    BY <1>6, <1>9
  <2>2. s = x /\ p = x
    BY <1>7, <1>9, <2>1
  <2>3. CASE n = 1
    <3>1. Elems(q) = {x}
      BY <1>3, <1>5, <2>3 DEF Elems
    <3> QED
      BY <1>9, <2>1, <2>2, <3>1
  <2>4. CASE n # 1
    <3>1. 1 \in DOMAIN r
      BY <1>3, <2>4
    <3>2. r[1] # x
      BY <1>6, <3>1 DEF Elems
    <3> QED
      BY <1>11, <1>12, <2>1, <2>2, <2>4, <3>2
  <2> QED
    BY <2>3, <2>4
<1>13. CASE n = 1
  <2>1. s = nullptr /\ l.head = x
    BY <1>10, <1>11, <1>12, <1>13
  <2>2. m.head = nullptr
    BY <1>8, <2>1
  <2>3. r = <<>> /\ Len(r) <= n
    BY <1>3, <1>13
  <2> QED
    BY <1>2, <2>2, <2>3 DEF r, m
<1>14. CASE n # 1
  <2>1. 1 \in DOMAIN r /\ r[1] \in Elems(r) /\ r[1] # x
    BY <1>3, <1>6, <1>14 DEF Elems
  <2>2. l.head = x => s # nullptr
    BY <1>11, <1>12, <1>14, <2>1
  <2>3. m.head \in Elems(r) /\ m.head # nullptr
    BY <1>6, <1>8, <1>9, <1>10, <2>2
  <2>4. m.prev[m.head] = nullptr
    <3>1. m.head \in ThreadSet
      BY <1>6, <2>3
    <3>2. m.prev[m.head] = IF m.head = s /\ s # nullptr THEN p ELSE l.prev[m.head]
      BY <1>8, <3>1
    <3> QED
      BY <1>6, <1>8, <1>9, <2>2, <3>2
  <2>5. ASSUME NEW t \in Elems(r)
        PROVE  /\ m.next[t] # nullptr => m.next[t] \in Elems(r) /\ m.prev[m.next[t]] = t
               /\ m.prev[t] # nullptr => m.prev[t] \in Elems(r) /\ m.next[m.prev[t]] = t
               /\ m.prev[t] = nullptr => t = m.head
    <3>1. /\ t \in Elems(q) /\ t # x /\ t \in ThreadSet
          /\ l.next[t] # nullptr => l.next[t] \in Elems(q) /\ l.prev[l.next[t]] = t
          /\ l.prev[t] # nullptr => l.prev[t] \in Elems(q) /\ l.next[l.prev[t]] = t
          /\ l.prev[t] = nullptr => t = l.head
      BY <1>1, <1>6 DEF Doubly
    <3>2. /\ m.next[t] = IF t = p /\ p # nullptr THEN s ELSE l.next[t]
          /\ m.prev[t] = IF t = s /\ s # nullptr THEN p ELSE l.prev[t]
      BY <1>8, <3>1
    <3>3. m.next[t] # nullptr => m.next[t] \in Elems(r) /\ m.prev[m.next[t]] = t
      <4> SUFFICES ASSUME m.next[t] # nullptr
                   PROVE  m.next[t] \in Elems(r) /\ m.prev[m.next[t]] = t
        OBVIOUS
      <4>1. m.next[t] \in Elems(q) /\ m.next[t] # x
        BY <1>7, <1>9, <1>10, <3>1, <3>2
      <4>2. m.prev[m.next[t]] = IF m.next[t] = s /\ s # nullptr THEN p ELSE l.prev[m.next[t]]
        BY <1>6, <1>8, <4>1
      <4>3. CASE t = p
        BY <1>6, <1>9, <3>1, <3>2, <4>1, <4>2, <4>3
      <4>4. CASE t # p
        <5>1. m.next[t] = l.next[t] /\ l.prev[l.next[t]] = t
          BY <3>1, <3>2, <4>4
        <5>2. m.next[t] # s
          BY <1>9, <3>1, <5>1
        <5> QED
          BY <1>6, <4>1, <4>2, <5>1, <5>2
      <4> QED
        BY <4>3, <4>4
    <3>4. m.prev[t] # nullptr => m.prev[t] \in Elems(r) /\ m.next[m.prev[t]] = t
      <4> SUFFICES ASSUME m.prev[t] # nullptr
                   PROVE  m.prev[t] \in Elems(r) /\ m.next[m.prev[t]] = t
        OBVIOUS
      <4>1. m.prev[t] \in Elems(q) /\ m.prev[t] # x
        BY <1>7, <1>9, <1>10, <3>1, <3>2
      <4>2. m.next[m.prev[t]] = IF m.prev[t] = p /\ p # nullptr THEN s ELSE l.next[m.prev[t]]
        BY <1>6, <1>8, <4>1
      <4>3. CASE t = s
        BY <1>6, <1>9, <3>1, <3>2, <4>1, <4>2, <4>3
      <4>4. CASE t # s
        <5>1. m.prev[t] = l.prev[t] /\ l.next[l.prev[t]] = t
          BY <3>1, <3>2, <4>4
        <5>2. m.prev[t] # p
          BY <1>9, <3>1, <5>1
        <5> QED
          BY <1>6, <4>1, <4>2, <5>1, <5>2
      <4> QED
        BY <4>3, <4>4
    <3>5. m.prev[t] = nullptr => t = m.head
      BY <1>8, <1>9, <3>1, <3>2
    <3> QED
      BY <3>3, <3>4, <3>5
  <2>6. Doubly(m, Elems(r))
    BY <2>3, <2>4, <2>5 DEF Doubly
  <2>7. ASSUME NEW i \in DOMAIN r PROVE get_next(m, r[i]) = Succ(r, i)
    <3>1. PICK t, k : t = r[i] /\ k = i + 1
      OBVIOUS
    <3>2. k \in 1 .. n /\ k # 1 /\ t = q[k] /\ (i = n - 1 <=> k = n)
      BY <1>3, <1>4, <3>1
    <3>3. t \in Elems(r) /\ t \in Elems(q) /\ t # x /\ t \in ThreadSet
      BY <1>6, <3>1 DEF Elems
    <3>4. get_next(l, t) = IF k = n THEN x ELSE q[k + 1]
      BY <1>1, <1>2, <1>3, <1>5, <3>2 DEF Succ
    <3>5. k # n => q[k + 1] = r[k]
      BY <1>3, <1>4, <3>2
    <3>6. Succ(r, i) = IF k = n THEN r[1] ELSE r[k]
      BY <1>3, <3>1, <3>2 DEF Succ
    <3>7. k # n => r[k] # x
      <4>1. k # n => k \in DOMAIN r
        BY <1>3, <3>2
      <4> QED
        BY <1>6, <4>1 DEF Elems
    <3>8. get_next(m, t) = IF m.next[t] = nullptr THEN m.head ELSE m.next[t]
      BY DEF get_next
    <3>9. get_next(l, t) = IF l.next[t] = nullptr THEN l.head ELSE l.next[t]
      BY DEF get_next
    <3>10. m.next[t] = IF t = p /\ p # nullptr THEN s ELSE l.next[t]
      BY <1>8, <3>3
    <3>11. get_next(l, x) = r[1]
      BY <1>12, <1>14
    <3>12. get_next(m, t) = IF get_next(l, t) = x THEN r[1] ELSE get_next(l, t)
      <4>1. CASE t = p
        <5>1. l.next[t] = x /\ t # nullptr /\ x # nullptr
          BY <1>6, <1>9, <3>3, <4>1
        <5>2. get_next(l, t) = x /\ l.head # x
          BY <1>9, <3>9, <4>1, <5>1
        <5>3. get_next(m, t) = IF s = nullptr THEN m.head ELSE s
          BY <3>8, <3>10, <4>1, <5>1
        <5>4. m.head = l.head
          BY <1>8, <5>2
        <5> QED
          BY <1>11, <3>11, <5>2, <5>3, <5>4
      <4>2. CASE t # p
        <5>1. m.next[t] = l.next[t]
          BY <3>10, <4>2
        <5>2. l.next[t] # x
          BY <1>1, <1>6, <1>7, <1>9, <3>3, <4>2 DEF Doubly
        <5>3. CASE l.next[t] # nullptr
          BY <3>8, <3>9, <5>1, <5>2, <5>3
        <5>4. CASE l.next[t] = nullptr
          <6>1. get_next(m, t) = m.head /\ get_next(l, t) = l.head
            BY <3>8, <3>9, <5>1, <5>4
          <6> QED
            BY <1>8, <1>11, <2>2, <3>11, <6>1
        <5> QED
          BY <5>3, <5>4
      <4> QED
        BY <4>1, <4>2
    <3> QED
      BY <3>1, <3>4, <3>5, <3>6, <3>7, <3>12
  <2>8. Ring(m, r)
    BY <1>3, <1>6, <1>8, <1>14, <2>6, <2>7 DEF Ring
  <2>9. r[1] = get_next(l, x) /\ n - 1 <= n /\ r # <<>>
    BY <1>3, <1>12, <1>14
  <2> QED
    BY <1>2, <1>3, <1>5, <2>3, <2>8, <2>9 DEF r, m
<1> QED
  BY <1>13, <1>14

-----------------------------------------------------------------------------
(* The list that run_ooo_core() makes                                      *)

(* The list of the first n threads, in the order of their creation.        *)
Pos(t) == CHOOSE i \in DOMAIN Threads : Threads[i] = t
UpTo(n) ==
    [head |-> IF n = 0 THEN nullptr ELSE Threads[1],
     next |-> [t \in ThreadSet |-> IF Pos(t) < n THEN Threads[Pos(t) + 1] ELSE nullptr],
     prev |-> [t \in ThreadSet |->
                  IF 1 < Pos(t) /\ Pos(t) <= n THEN Threads[Pos(t) - 1] ELSE nullptr]]

(* No two calls of make_gthread() return the same thread.                  *)
LEMMA Positions ==
    /\ Len(Threads) \in Nat \ {0} /\ DOMAIN Threads = 1 .. Len(Threads)
    /\ \A i \in 1 .. Len(Threads) : /\ Threads[i] \in ThreadSet /\ Threads[i] # nullptr
                                    /\ Pos(Threads[i]) = i
    /\ \A t \in ThreadSet : /\ Pos(t) \in 1 .. Len(Threads) /\ Threads[Pos(t)] = t
                            /\ t # nullptr
<1>1. /\ Threads \in Seq(ThreadSet) /\ nullptr \notin ThreadSet /\ "retire" \in ThreadSet
      /\ \A i, j \in DOMAIN Threads : Threads[i] = Threads[j] => i = j
  BY ThreadsAssumption
<1>2. Len(Threads) \in Nat /\ DOMAIN Threads = 1 .. Len(Threads)
  BY <1>1
<1>3. ASSUME NEW t \in ThreadSet
      PROVE  Pos(t) \in DOMAIN Threads /\ Threads[Pos(t)] = t
  <2>1. \E i \in DOMAIN Threads : Threads[i] = t
    BY DEF ThreadSet
  <2> QED
    BY <2>1, Zenon DEF Pos
<1>4. Len(Threads) # 0
  BY <1>1, <1>2, <1>3
<1>5. \A i \in DOMAIN Threads : Threads[i] \in ThreadSet
  BY DEF ThreadSet
<1>6. \A i \in DOMAIN Threads : Pos(Threads[i]) = i
  BY <1>1, <1>3, <1>5, Zenon
<1> QED
  BY <1>1, <1>2, <1>3, <1>4, <1>5, <1>6

(* insert_into_list() walks to the last thread, whichever it starts at.    *)
LEMMA LastUpTo ==
    ASSUME NEW n \in 1 .. Len(Threads)
    PROVE  LastOf(UpTo(n)) = Threads[n]
<1> DEFINE l == UpTo(n)
           step(f, t) == IF l.next[t] = nullptr THEN t ELSE f[l.next[t]]
           Is(f) == f = [t \in ThreadSet |-> step(f, t)]
           g == [t \in ThreadSet |-> IF Pos(t) <= n THEN Threads[n] ELSE t]
<1>1. Len(Threads) \in Nat /\ n \in Nat /\ 1 <= n /\ n <= Len(Threads)
  BY Positions
<1>2. \A t \in ThreadSet : l.next[t] = IF Pos(t) < n THEN Threads[Pos(t) + 1] ELSE nullptr
  BY DEF UpTo
<1>3. l.head = Threads[1]
  BY <1>1 DEF UpTo
<1> HIDE DEF l
<1>4. ASSUME NEW t \in ThreadSet PROVE g[t] = step(g, t)
  <2>1. PICK i \in 1 .. Len(Threads) : i = Pos(t)
    BY Positions
  <2>2. g[t] = IF i <= n THEN Threads[n] ELSE t
    BY <2>1
  <2>3. CASE i < n
    <3>1. PICK k : k = i + 1
      OBVIOUS
    <3>2. k \in 1 .. Len(Threads) /\ k <= n
      BY <1>1, <2>3, <3>1
    <3>3. l.next[t] = Threads[k] /\ Threads[k] # nullptr /\ Threads[k] \in ThreadSet
          /\ Pos(Threads[k]) = k
      BY <1>2, <2>1, <2>3, <3>1, <3>2, Positions
    <3>4. g[Threads[k]] = Threads[n]
      BY <3>2, <3>3
    <3> QED
      BY <1>1, <2>2, <2>3, <3>3, <3>4
  <2>4. CASE ~ (i < n)
    <3>1. l.next[t] = nullptr /\ t = Threads[i]
      BY <1>2, <2>1, <2>4, Positions
    <3>2. i <= n => i = n
      BY <1>1, <2>4
    <3> QED
      BY <2>2, <3>1, <3>2
  <2> QED
    BY <2>3, <2>4
<1> HIDE DEF step
<1>5. Is(g)
  <2>1. g = [t \in ThreadSet |-> g[t]]
    OBVIOUS
  <2> HIDE DEF g
  <2>2. [t \in ThreadSet |-> g[t]] = [t \in ThreadSet |-> step(g, t)]
    BY <1>4
  <2> QED
    BY <2>1, <2>2, Zenon
<1> HIDE DEF g
<1> DEFINE f == CHOOSE a : Is(a)
<1>6. \A t \in ThreadSet : f[t] = step(f, t)
  <2> HIDE DEF Is
  <2>1. Is(f)
    BY <1>5, Zenon
  <2> HIDE DEF f
  <2> QED
    BY <2>1 DEF Is
<1>7. LastOf(l) = f[l.head]
  BY Zenon DEF LastOf, step
<1> HIDE DEF f, Is
<1> DEFINE T == {k \in 0 .. n - 1 : f[Threads[n - k]] # Threads[n]}
<1>8. T = {}
  <2> SUFFICES ASSUME T # {} PROVE FALSE
    OBVIOUS
  <2>1. T \in SUBSET Nat
    BY <1>1
  <2>2. PICK k \in T : \A j \in T : k <= j
    BY <2>1, Least
  <2>3. PICK i : i = n - k
    OBVIOUS
  <2>4. k \in 0 .. n - 1 /\ f[Threads[i]] # Threads[n]
    BY <2>3
  <2>5. i \in 1 .. Len(Threads) /\ i <= n /\ k \in Nat
    BY <1>1, <2>3, <2>4
  <2>6. Threads[i] \in ThreadSet /\ Pos(Threads[i]) = i
    BY <2>5, Positions
  <2>7. l.next[Threads[i]] = IF i < n THEN Threads[i + 1] ELSE nullptr
    BY <1>2, <2>6
  <2>8. CASE i < n
    <3>1. PICK j : j = i + 1
      OBVIOUS
    <3>2. j \in 1 .. Len(Threads) /\ k - 1 \in 0 .. n - 1 /\ n - (k - 1) = j /\ ~ (k <= k - 1)
      BY <1>1, <2>3, <2>4, <2>5, <2>8, <3>1
    <3>3. f[Threads[j]] = Threads[n]
      <4>1. k - 1 \notin T
        BY <2>2, <3>2
      <4> QED
        BY <3>2, <4>1
    <3>4. f[Threads[i]] = f[Threads[j]]
      BY <1>6, <2>6, <2>7, <2>8, <3>1, <3>2, Positions DEF step
    <3> QED
      BY <2>4, <3>3, <3>4
  <2>9. CASE ~ (i < n)
    <3>1. i = n
      BY <1>1, <2>5, <2>9
    <3>2. f[Threads[i]] = Threads[i]
      BY <1>6, <2>6, <2>7, <2>9 DEF step
    <3> QED
      BY <2>4, <3>1, <3>2
  <2> QED
    BY <2>8, <2>9
<1>9. f[Threads[1]] = Threads[n]
  <2>1. n - 1 \in 0 .. n - 1 /\ n - (n - 1) = 1
    BY <1>1
  <2>2. n - 1 \notin T
    BY <1>8
  <2> QED
    BY <2>1, <2>2
<1>10. LastOf(l) = Threads[n]
  BY <1>3, <1>7, <1>9
<1> QED
  BY <1>10 DEF l

(* make_gthread() adds one thread at the end.                              *)
LEMMA InsertUpTo ==
    ASSUME NEW n \in 1 .. Len(Threads)
    PROVE  insert_into_list(UpTo(n - 1), Threads[n]) = UpTo(n)
<1>1. Len(Threads) \in Nat /\ n \in Nat /\ 1 <= n /\ n <= Len(Threads)
  BY Positions
<1>2. PICK m : m = n - 1
  OBVIOUS
<1>3. m \in Nat /\ n = m + 1
  BY <1>1, <1>2
<1>4. PICK x : x = Threads[n]
  OBVIOUS
<1>5. x \in ThreadSet /\ x # nullptr /\ Pos(x) = n
  BY <1>4, Positions
<1>6. PICK l : l = UpTo(m)
  OBVIOUS
<1>7. PICK nx : nx = [t \in ThreadSet |-> IF Pos(t) < m THEN Threads[Pos(t) + 1] ELSE nullptr]
  OBVIOUS
<1>8. PICK pv : pv = [t \in ThreadSet |->
                        IF 1 < Pos(t) /\ Pos(t) <= m THEN Threads[Pos(t) - 1] ELSE nullptr]
  OBVIOUS
<1>9. l = [head |-> IF m = 0 THEN nullptr ELSE Threads[1], next |-> nx, prev |-> pv]
  BY <1>6, <1>7, <1>8 DEF UpTo
<1>10. CASE m = 0
  <2>1. n = 1 /\ x = Threads[1]
    BY <1>3, <1>4, <1>10
  <2>2. insert_into_list(l, x) = [head |-> x, next |-> nx, prev |-> pv]
    BY <1>9, <1>10 DEF insert_into_list
  <2>3. \A t \in ThreadSet : Pos(t) \in Nat /\ 1 <= Pos(t)
    BY Positions
  <2>4. nx = [t \in ThreadSet |-> IF Pos(t) < 1 THEN Threads[Pos(t) + 1] ELSE nullptr]
    <3>1. \A t \in ThreadSet : ~ (Pos(t) < m) /\ ~ (Pos(t) < 1)
      BY <1>10, <2>3
    <3> QED
      BY <1>7, <3>1
  <2>5. pv = [t \in ThreadSet |->
                IF 1 < Pos(t) /\ Pos(t) <= 1 THEN Threads[Pos(t) - 1] ELSE nullptr]
    <3>1. \A t \in ThreadSet : ~ (1 < Pos(t) /\ Pos(t) <= m) /\ ~ (1 < Pos(t) /\ Pos(t) <= 1)
      BY <1>10, <2>3
    <3> QED
      BY <1>8, <3>1
  <2>6. UpTo(1) = [head |-> x, next |-> nx, prev |-> pv]
    BY <2>1, <2>4, <2>5 DEF UpTo
  <2> QED
    BY <1>2, <1>4, <1>6, <2>1, <2>2, <2>6
<1>11. CASE m # 0
  <2>1. m \in 1 .. Len(Threads) /\ 1 \in 1 .. Len(Threads)
    BY <1>1, <1>3, <1>11
  <2>2. PICK y : y = Threads[m]
    OBVIOUS
  <2>3. y \in ThreadSet /\ Pos(y) = m /\ LastOf(l) = y /\ l.head # nullptr
    <3>1. l.head = Threads[1]
      BY <1>9, <1>11
    <3>2. Threads[1] # nullptr /\ y \in ThreadSet /\ Pos(y) = m
      BY <2>1, <2>2, Positions
    <3>3. LastOf(l) = y
      BY <1>6, <2>1, <2>2, LastUpTo
    <3> QED
      BY <3>1, <3>2, <3>3
  <2>4. insert_into_list(l, x)
          = [head |-> Threads[1], next |-> [nx EXCEPT ![y] = x], prev |-> [pv EXCEPT ![x] = y]]
    <3>1. PICK nn, pp : nn = [nx EXCEPT ![y] = x] /\ pp = [pv EXCEPT ![x] = y]
      OBVIOUS
    <3>2. l.next = nx /\ l.prev = pv
      BY <1>9
    <3>3. insert_into_list(l, x) = [l EXCEPT !.next[y] = x, !.prev[x] = y]
      BY <2>3 DEF insert_into_list
    <3>4. insert_into_list(l, x) = [l EXCEPT !.next = nn, !.prev = pp]
      BY <3>1, <3>2, <3>3
    <3> QED
      BY <1>9, <1>11, <3>1, <3>4
  <2>5. \A t \in ThreadSet : /\ Pos(t) \in Nat /\ 1 <= Pos(t)
                             /\ Pos(t) = m <=> t = y
                             /\ Pos(t) = n <=> t = x
    <3>1. \A t \in ThreadSet : Pos(t) \in 1 .. Len(Threads) /\ Threads[Pos(t)] = t
      BY Positions
    <3> QED
      BY <1>1, <1>4, <1>5, <2>2, <2>3, <3>1
  <2>6. [nx EXCEPT ![y] = x]
          = [t \in ThreadSet |-> IF Pos(t) < n THEN Threads[Pos(t) + 1] ELSE nullptr]
    <3>1. ASSUME NEW t \in ThreadSet
          PROVE  (IF t = y THEN x ELSE nx[t])
                    = IF Pos(t) < n THEN Threads[Pos(t) + 1] ELSE nullptr
      <4>1. nx[t] = IF Pos(t) < m THEN Threads[Pos(t) + 1] ELSE nullptr
        BY <1>7
      <4>2. PICK i \in Nat : i = Pos(t)
        BY <2>5
      <4>3. CASE i = m
        <5>1. i < n /\ i + 1 = n
          BY <1>3, <4>3
        <5>2. t = y
          BY <2>5, <4>2, <4>3
        <5> QED
          BY <1>4, <4>2, <5>1, <5>2
      <4>4. CASE i # m
        <5>1. t # y /\ (i < n <=> i < m)
          BY <1>3, <2>5, <4>2, <4>4
        <5> QED
          BY <4>1, <4>2, <5>1
      <4> QED
        BY <4>3, <4>4
    <3> QED
      BY <1>7, <3>1
  <2>7. [pv EXCEPT ![x] = y]
          = [t \in ThreadSet |->
                IF 1 < Pos(t) /\ Pos(t) <= n THEN Threads[Pos(t) - 1] ELSE nullptr]
    <3>1. ASSUME NEW t \in ThreadSet
          PROVE  (IF t = x THEN y ELSE pv[t])
                    = IF 1 < Pos(t) /\ Pos(t) <= n THEN Threads[Pos(t) - 1] ELSE nullptr
      <4>1. pv[t] = IF 1 < Pos(t) /\ Pos(t) <= m THEN Threads[Pos(t) - 1] ELSE nullptr
        BY <1>8
      <4>2. PICK i \in Nat : i = Pos(t)
        BY <2>5
      <4>3. CASE i = n
        <5>1. 1 < i /\ i <= n /\ i - 1 = m
          BY <1>3, <1>11, <4>3
        <5>2. t = x
          BY <2>5, <4>2, <4>3
        <5> QED
          BY <2>2, <4>2, <5>1, <5>2
      <4>4. CASE i # n
        <5>1. t # x /\ (i <= n <=> i <= m)
          BY <1>3, <2>5, <4>2, <4>4
        <5> QED
          BY <4>1, <4>2, <5>1
      <4> QED
        BY <4>3, <4>4
    <3> QED
      BY <1>8, <3>1
  <2>8. UpTo(n) = [head |-> Threads[1], next |-> [nx EXCEPT ![y] = x],
                   prev |-> [pv EXCEPT ![x] = y]]
    BY <1>1, <2>6, <2>7 DEF UpTo
  <2> QED
    BY <1>2, <1>4, <1>6, <2>4, <2>8
<1> QED
  BY <1>10, <1>11

(* The calls of run_ooo_core(), one after the other.                       *)
LEMMA MadeIs == Made[Len(Threads)] = UpTo(Len(Threads))
<1> DEFINE N == Len(Threads)
           none == [head |-> nullptr, next |-> Unlinked, prev |-> Unlinked]
           step(f, n) == IF n = 0 THEN none ELSE insert_into_list(f[n - 1], Threads[n])
           Is(f) == f = [n \in 0 .. N |-> step(f, n)]
           g == [n \in 0 .. N |-> UpTo(n)]
<1>1. N \in Nat
  BY Positions
<1>2. UpTo(0) = none
  <2>1. \A t \in ThreadSet : ~ (Pos(t) < 0) /\ ~ (1 < Pos(t) /\ Pos(t) <= 0)
    <3>1. \A t \in ThreadSet : Pos(t) \in Nat
      BY Positions
    <3> QED
      BY <3>1
  <2> QED
    BY <2>1 DEF UpTo, Unlinked
<1> HIDE DEF none
<1>3. ASSUME NEW n \in 0 .. N PROVE g[n] = step(g, n)
  <2>1. CASE n = 0
    BY <1>1, <1>2, <2>1
  <2>2. CASE n # 0
    <3>1. n \in 1 .. N /\ n - 1 \in 0 .. N
      BY <1>1, <2>2
    <3>2. g[n - 1] = UpTo(n - 1) /\ g[n] = UpTo(n)
      BY <3>1
    <3>3. insert_into_list(UpTo(n - 1), Threads[n]) = UpTo(n)
      BY <3>1, InsertUpTo
    <3> QED
      BY <2>2, <3>2, <3>3
  <2> QED
    BY <2>1, <2>2
<1> HIDE DEF step
<1>4. Is(g)
  <2>1. g = [n \in 0 .. N |-> g[n]]
    OBVIOUS
  <2> HIDE DEF g
  <2>2. [n \in 0 .. N |-> g[n]] = [n \in 0 .. N |-> step(g, n)]
    BY <1>3
  <2> QED
    BY <2>1, <2>2, Zenon
<1> HIDE DEF g
<1>5. Made = CHOOSE f : Is(f)
  BY Zenon DEF Made, step, none
<1>6. \A n \in 0 .. N : Made[n] = step(Made, n)
  <2> HIDE DEF Is
  <2>1. Is(Made)
    BY <1>4, <1>5, Zenon
  <2> QED
    BY <2>1 DEF Is
<1> DEFINE T == {n \in 0 .. N : Made[n] # UpTo(n)}
<1>7. T = {}
  <2> SUFFICES ASSUME T # {} PROVE FALSE
    OBVIOUS
  <2>1. T \in SUBSET Nat
    BY <1>1
  <2>2. PICK n \in T : \A j \in T : n <= j
    BY <2>1, Least
  <2>3. n \in 0 .. N /\ Made[n] # UpTo(n)
    OBVIOUS
  <2>4. n # 0
    BY <1>2, <1>6, <2>3 DEF step
  <2>5. n \in 1 .. N /\ n - 1 \in 0 .. N /\ ~ (n <= n - 1)
    BY <1>1, <2>3, <2>4
  <2>6. Made[n - 1] = UpTo(n - 1)
    BY <2>2, <2>5
  <2>7. Made[n] = insert_into_list(UpTo(n - 1), Threads[n])
    BY <1>6, <2>3, <2>4, <2>6 DEF step
  <2> QED
    BY <2>3, <2>5, <2>7, InsertUpTo
<1>8. N \in 0 .. N
  BY <1>1
<1> QED
  BY <1>7, <1>8

(* That list is a ring of all threads, the first one in front.             *)
LEMMA MadeRing == Ring(Made[Len(Threads)], Threads) /\ Made[Len(Threads)].head = Threads[1]
<1> DEFINE l == UpTo(Len(Threads))
<1>1. PICK n : n = Len(Threads)
  OBVIOUS
<1>2. /\ n \in Nat /\ 1 <= n /\ DOMAIN Threads = 1 .. n
      /\ Threads \in Seq(ThreadSet) /\ Threads # <<>> /\ NoRepeat(Threads)
      /\ Elems(Threads) = ThreadSet
  BY <1>1, Positions, ThreadsAssumption DEF NoRepeat, Elems, ThreadSet
<1>3. \A t \in ThreadSet : Pos(t) \in 1 .. n /\ Threads[Pos(t)] = t
  BY <1>1, Positions
<1>4. \A i \in 1 .. n : Threads[i] \in ThreadSet /\ Threads[i] # nullptr /\ Pos(Threads[i]) = i
  BY <1>1, Positions
<1>5. /\ l.head = Threads[1]
      /\ l.next = [t \in ThreadSet |-> IF Pos(t) < n THEN Threads[Pos(t) + 1] ELSE nullptr]
      /\ l.prev = [t \in ThreadSet |->
                      IF 1 < Pos(t) /\ Pos(t) <= n THEN Threads[Pos(t) - 1] ELSE nullptr]
      /\ Pointers(l)
  <2>1. PICK nx : nx = [t \in ThreadSet |-> IF Pos(t) < n THEN Threads[Pos(t) + 1] ELSE nullptr]
    OBVIOUS
  <2>2. PICK pv : pv = [t \in ThreadSet |->
                          IF 1 < Pos(t) /\ Pos(t) <= n THEN Threads[Pos(t) - 1] ELSE nullptr]
    OBVIOUS
  <2>3. l = [head |-> Threads[1], next |-> nx, prev |-> pv]
    BY <1>1, <1>2, <2>1, <2>2 DEF UpTo
  <2> HIDE DEF l
  <2>4. nx = [t \in ThreadSet |-> nx[t]] /\ pv = [t \in ThreadSet |-> pv[t]]
    BY <2>1, <2>2
  <2>5. l.head = Threads[1] /\ l.next = nx /\ l.prev = pv
    BY <2>3
  <2>6. Pointers(l)
    BY <2>3, <2>4, <2>5 DEF Pointers
  <2> QED
    BY <2>1, <2>2, <2>5, <2>6
<1> HIDE DEF l
<1>6. ASSUME NEW i \in 1 .. n
      PROVE  /\ l.next[Threads[i]] = IF i = n THEN nullptr ELSE Threads[i + 1]
             /\ l.prev[Threads[i]] = IF i = 1 THEN nullptr ELSE Threads[i - 1]
  <2>1. Threads[i] \in ThreadSet /\ Pos(Threads[i]) = i
    BY <1>4
  <2>2. (i < n <=> i # n) /\ (1 < i /\ i <= n <=> i # 1)
    BY <1>2
  <2>3. l.next[Threads[i]] = IF i < n THEN Threads[i + 1] ELSE nullptr
    BY <1>5, <2>1
  <2>4. l.prev[Threads[i]] = IF 1 < i /\ i <= n THEN Threads[i - 1] ELSE nullptr
    BY <1>5, <2>1
  <2> QED
    BY <2>2, <2>3, <2>4
<1>7. Doubly(l, ThreadSet)
  <2>1. l.head \in ThreadSet /\ l.prev[l.head] = nullptr
    <3>1. 1 \in 1 .. n
      BY <1>2
    <3> QED
      BY <1>4, <1>5, <1>6, <3>1
  <2>2. ASSUME NEW t \in ThreadSet
        PROVE  /\ l.next[t] # nullptr => l.next[t] \in ThreadSet /\ l.prev[l.next[t]] = t
               /\ l.prev[t] # nullptr => l.prev[t] \in ThreadSet /\ l.next[l.prev[t]] = t
               /\ l.prev[t] = nullptr => t = l.head
    <3>1. PICK i \in 1 .. n : t = Threads[i]
      BY <1>3
    <3>2. i # n => l.next[t] \in ThreadSet /\ l.prev[l.next[t]] = t
      <4> SUFFICES ASSUME i # n PROVE l.next[t] \in ThreadSet /\ l.prev[l.next[t]] = t
        OBVIOUS
      <4>1. PICK k : k = i + 1
        OBVIOUS
      <4>2. k \in 1 .. n /\ k # 1 /\ k - 1 = i
        BY <1>2, <4>1
      <4>3. l.next[t] = Threads[k]
        BY <1>6, <3>1, <4>1
      <4>4. l.prev[Threads[k]] = Threads[k - 1]
        BY <1>6, <4>2
      <4> QED
        BY <1>4, <3>1, <4>2, <4>3, <4>4
    <3>3. i # 1 => l.prev[t] \in ThreadSet /\ l.prev[t] # nullptr /\ l.next[l.prev[t]] = t
      <4> SUFFICES ASSUME i # 1
                   PROVE  l.prev[t] \in ThreadSet /\ l.prev[t] # nullptr /\ l.next[l.prev[t]] = t
        OBVIOUS
      <4>1. PICK k : k = i - 1
        OBVIOUS
      <4>2. k \in 1 .. n /\ k # n /\ k + 1 = i
        BY <1>2, <4>1
      <4>3. l.prev[t] = Threads[k]
        BY <1>6, <3>1, <4>1
      <4>4. l.next[Threads[k]] = Threads[k + 1]
        BY <1>6, <4>2
      <4> QED
        BY <1>4, <3>1, <4>2, <4>3, <4>4
    <3>4. i = n => l.next[t] = nullptr
      BY <1>6, <3>1
    <3>5. i = 1 => l.prev[t] = nullptr /\ t = l.head
      BY <1>5, <1>6, <3>1
    <3> QED
      BY <3>2, <3>3, <3>4, <3>5
  <2> QED
    BY <2>1, <2>2 DEF Doubly
<1>8. ASSUME NEW i \in DOMAIN Threads PROVE get_next(l, Threads[i]) = Succ(Threads, i)
  <2>1. i \in 1 .. n
    BY <1>2
  <2>2. l.next[Threads[i]] = IF i = n THEN nullptr ELSE Threads[i + 1]
    BY <1>6, <2>1
  <2>3. i # n => Threads[i + 1] # nullptr
    <3>1. i # n => i + 1 \in 1 .. n
      BY <1>2, <2>1
    <3> QED
      BY <1>4, <3>1
  <2> QED
    BY <1>1, <1>5, <2>2, <2>3 DEF get_next, Succ
<1>9. Ring(l, Threads)
  BY <1>2, <1>5, <1>7, <1>8 DEF Ring
<1> QED
  BY <1>5, <1>9, MadeIs DEF l

-----------------------------------------------------------------------------
(* The scheduler                                                           *)

(* While a thread runs, the list is a ring with that thread in front;      *)
(* before the first one does, with the head of the list.                   *)
RingInv ==
    /\ ended \in SUBSET ThreadSet
    /\ ~ returned => \E q : Ring(list, q) /\ Len(q) <= Len(Threads) /\ q[1] = First

(* What the invariant says of the running thread.                          *)
LEMMA RunningRing ==
    ASSUME RingInv, ~ returned, curr_thread # nullptr
    PROVE  \E q : /\ Ring(list, q) /\ Len(q) <= Len(Threads) /\ q[1] = curr_thread
                  /\ Order = q /\ q # <<>> /\ Head(q) = curr_thread
<1>1. PICK q : Ring(list, q) /\ Len(q) <= Len(Threads) /\ q[1] = First
  BY DEF RingInv
<1>2. First = curr_thread
  BY DEF First
<1>3. Order = q
  BY <1>1, <1>2, WalkIs DEF Order
<1>4. q # <<>> /\ Head(q) = q[1]
  BY <1>1 DEF Ring
<1> QED
  BY <1>1, <1>2, <1>3, <1>4

(* A ring with the running thread in front is what the order will be.      *)
LEMMA NextOrder ==
    ASSUME NEW q, Ring(list', q), Len(q) <= Len(Threads), q[1] = curr_thread',
           curr_thread' # nullptr, ~ returned'
    PROVE  Order' = q
<1>1. Walk(list', q[1]) = q
  BY WalkIs
<1>2. Order' = Walk(list', First')
  BY DEF Order
<1>3. First' = curr_thread'
  BY DEF First
<1> QED
  BY <1>1, <1>2, <1>3

(* gthread_yield() turns the queue.                                        *)
LEMMA YieldStep ==
    ASSUME RingInv, ~ returned, curr_thread \in ThreadSet, gthread_yield
    PROVE  RingInv' /\ Ready!Yield
<1>1. curr_thread # nullptr
  BY ThreadsAssumption
<1>2. PICK q : /\ Ring(list, q) /\ Len(q) <= Len(Threads) /\ q[1] = curr_thread
               /\ Order = q /\ q # <<>> /\ Head(q) = curr_thread
  BY <1>1, RunningRing
<1>3. PICK r : r = Append(Tail(q), Head(q))
  OBVIOUS
<1>4. Ring(list, r) /\ Len(r) = Len(q) /\ r[1] = get_next(list, curr_thread)
  BY <1>2, <1>3, RotateRing
<1>5. /\ curr_thread' = get_next(list, curr_thread) /\ curr_thread' # nullptr
      /\ list' = list /\ ended' = ended /\ returned' = returned
  BY DEF gthread_yield
<1>6. Ring(list', r) /\ Len(r) <= Len(Threads) /\ r[1] = curr_thread'
  BY <1>2, <1>4, <1>5
<1>7. Order' = r
  BY <1>5, <1>6, NextOrder
<1>8. RingInv'
  <2>1. First' = curr_thread'
    BY <1>5 DEF First
  <2> QED
    BY <1>5, <1>6, <2>1 DEF RingInv
<1> QED
  BY <1>2, <1>3, <1>5, <1>7, <1>8 DEF Ready!Yield

(* gthread_terminate() takes the running thread out of the queue.          *)
LEMMA TerminateStep ==
    ASSUME RingInv, ~ returned, curr_thread \in ThreadSet, gthread_terminate
    PROVE  RingInv' /\ Ready!Terminate
<1>1. curr_thread # nullptr
  BY ThreadsAssumption
<1>2. PICK q : /\ Ring(list, q) /\ Len(q) <= Len(Threads) /\ q[1] = curr_thread
               /\ Order = q /\ q # <<>> /\ Head(q) = curr_thread
  BY <1>1, RunningRing
<1>3. PICK r : r = Tail(q)
  OBVIOUS
<1>4. /\ list' = remove_from_list(list, curr_thread)
      /\ ended' = ended \cup {curr_thread}
  BY DEF gthread_terminate
<1>5. /\ list'.head = nullptr <=> r = <<>>
      /\ r # <<>> => Ring(list', r) /\ r[1] = get_next(list, curr_thread)
      /\ Len(r) <= Len(q)
  BY <1>2, <1>3, <1>4, RemoveRing
<1>6. Ready!Terminate <=> Order' = r
  BY <1>2, <1>3, <1>4 DEF Ready!Terminate
<1>7. ended' \in SUBSET ThreadSet
  BY <1>4 DEF RingInv
<1>8. CASE r = <<>>
  <2>1. returned' = TRUE
    BY <1>5, <1>8 DEF gthread_terminate
  <2>2. Order' = r
    BY <1>8, <2>1 DEF Order
  <2> QED
    BY <1>6, <1>7, <2>1, <2>2 DEF RingInv
<1>9. CASE r # <<>>
  <2>1. returned' = returned /\ curr_thread' = get_next(list, curr_thread)
    BY <1>5, <1>9 DEF gthread_terminate
  <2>2. Ring(list', r) /\ r[1] = curr_thread'
    BY <1>5, <1>9, <2>1
  <2>3. Len(r) <= Len(Threads)
    <3>1. Len(q) \in Nat /\ Len(r) \in Nat /\ Len(Threads) \in Nat
      BY <1>2, <2>2, Positions DEF Ring
    <3> QED
      BY <1>2, <1>5, <3>1
  <2>4. curr_thread' # nullptr
    <3>1. r \in Seq(ThreadSet)
      BY <2>2 DEF Ring
    <3>2. r[1] \in ThreadSet
      BY <1>9, <3>1
    <3> QED
      BY <2>2, <3>2, ThreadsAssumption
  <2>5. Order' = r
    BY <2>1, <2>2, <2>3, <2>4, NextOrder
  <2>6. First' = curr_thread'
    BY <2>4 DEF First
  <2> QED
    BY <1>6, <1>7, <2>2, <2>3, <2>5, <2>6 DEF RingInv
<1> QED
  BY <1>8, <1>9

(* A turn of a thread ends in a yield or in its termination.               *)
LEMMA Turns ==
    ASSUME RingInv, Next
    PROVE  \/ start_gthreads
           \/ ~ returned /\ curr_thread \in ThreadSet /\ (gthread_yield \/ gthread_terminate)
<1>1. "retire" \in ThreadSet /\ "cycle_count" \in ThreadSet
  BY ThreadsAssumption
<1>2. ASSUME NEW t \in Others, Work(t)
      PROVE  ~ returned /\ curr_thread \in ThreadSet /\ gthread_yield
  BY <1>2 DEF Work, Running, Others
<1>3. ASSUME NEW t \in ThreadSet \ {"retire"}, Leave(t)
      PROVE  ~ returned /\ curr_thread \in ThreadSet /\ gthread_terminate
  BY <1>3 DEF Leave, Running
<1>4. cycle_count => ~ returned /\ curr_thread \in ThreadSet /\ gthread_yield
  BY <1>1 DEF cycle_count, Running
<1>5. RetireTurn \/ RetireSlot => ~ returned /\ curr_thread \in ThreadSet /\ gthread_yield
  BY <1>1 DEF RetireTurn, RetireSlot, RetireGroup, Running
<1>6. RetireWaits \/ RetireSleeps => ~ returned /\ curr_thread \in ThreadSet /\ gthread_yield
  BY <1>1 DEF RetireWaits, RetireSleeps, Running
<1>7. RetireEnds => ~ returned /\ curr_thread \in ThreadSet /\ gthread_terminate
  BY <1>1 DEF RetireEnds, Running
<1> QED
  BY <1>2, <1>3, <1>4, <1>5, <1>6, <1>7 DEF Next

(* The first thread starts; the queue stays what it is.                    *)
LEMMA StartStep ==
    ASSUME RingInv, start_gthreads
    PROVE  RingInv' /\ UNCHANGED <<Order, ended>>
<1>1. /\ curr_thread = nullptr /\ list.head # nullptr /\ curr_thread' = list.head
      /\ list' = list /\ ended' = ended /\ returned' = returned
  BY DEF start_gthreads
<1>2. First' = First /\ First = list.head
  BY <1>1 DEF First
<1>3. RingInv'
  BY <1>1, <1>2 DEF RingInv
<1>4. Order' = Order
  BY <1>1, <1>2 DEF Order
<1> QED
  BY <1>1, <1>3, <1>4

(* The linked list of gthread.cc is a round-robin queue: whatever thread   *)
(* yields or leaves, in whatever state of the pipeline, the others keep    *)
(* running in the order they were made in, none twice and none lost        *)
(* (gthread.cc:50).                                                        *)
THEOREM Refinement == Spec => ImplementsReadyQueue
<1>1. Init => RingInv /\ Ready!Init
  <2> SUFFICES ASSUME Init PROVE RingInv /\ Ready!Init
    OBVIOUS
  <2>1. /\ list = Made[Len(Threads)] /\ curr_thread = nullptr /\ ended = {}
        /\ returned = FALSE
    BY DEF Init
  <2>2. First = Threads[1] /\ Ring(list, Threads)
    BY <2>1, MadeRing DEF First
  <2>3. Len(Threads) <= Len(Threads)
    BY Positions
  <2>4. RingInv
    BY <2>1, <2>2, <2>3 DEF RingInv
  <2>5. Order = Threads
    BY <2>1, <2>2, <2>3, WalkIs DEF Order
  <2> QED
    BY <2>1, <2>4, <2>5 DEF Ready!Init
<1>2. RingInv /\ [Next]_vars => RingInv' /\ [Ready!Next]_<<Order, ended>>
  <2> SUFFICES ASSUME RingInv, [Next]_vars
               PROVE  RingInv' /\ [Ready!Next]_<<Order, ended>>
    OBVIOUS
  <2>1. CASE Next
    <3>1. CASE start_gthreads
      BY <3>1, StartStep
    <3>2. CASE ~ returned /\ curr_thread \in ThreadSet /\ (gthread_yield \/ gthread_terminate)
      BY <3>2, YieldStep, TerminateStep DEF Ready!Next
    <3> QED
      BY <2>1, <3>1, <3>2, Turns
  <2>2. CASE UNCHANGED vars
    BY <2>2 DEF RingInv, vars, gthreadVars, First, Order
  <2> QED
    BY <2>1, <2>2
<1> QED
  BY <1>1, <1>2, PTL DEF Spec, ImplementsReadyQueue, Ready!Spec
===============================================================================
