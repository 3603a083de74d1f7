---------------------------- MODULE OoOCore_proofs ----------------------------
(***************************************************************************)
(* Proofs about the out-of-order core: for every program, every number of  *)
(* physical registers, every size of the queues, tables and reservation    *)
(* stations, every bandwidth and latency, with or without an l1d and       *)
(* flash_restart.  The invariant says what state an operation is in        *)
(* depending on the structures that hold its id, and, for the cycle an     *)
(* operation completes in, what each thread finds when its turn comes.     *)
(* For the renaming: between two operations of the rob the speculative     *)
(* table had one value, so the invariant is a chain of tables from the     *)
(* retired one to the current one, each operation reading the table before *)
(* it and leading to the table after it.  For the values: what an op class *)
(* computes from words, on a right or a wrong path, are words.             *)
(***************************************************************************)
EXTENDS OoOCore, DataLemmas

-----------------------------------------------------------------------------
(* The invariant                                                           *)

Fields == {"pc", "npc", "taken", "age", "issued", "aux", "cc", "done", "exc", "lexc", "slot",
           "target", "ea", "v", "src", "new", "prev"}

(* The shape of the window.                                                *)
Shape ==
    /\ turn \in 1 .. 8
    /\ DOMAIN op = Ids
    /\ \A x \in Ids : op[x] = Null \/ DOMAIN op[x] = Fields
    /\ fetch_queue \in Seq(Ids) /\ Len(fetch_queue) <= FetchqSize
    /\ decode_queue \in Seq(Ids) /\ Len(decode_queue) <= DecodeqSize
    /\ rob \in Seq(Ids) /\ Len(rob) <= RobSize
    /\ DOMAIN rs = Classes /\ \A c \in Classes : rs[c] \in Seq(Ids)

(* An operation is in exactly one place of exactly one queue.              *)
OnePlace ==
    /\ NoRepeat(fetch_queue) /\ NoRepeat(decode_queue) /\ NoRepeat(rob)
    /\ Elems(fetch_queue) \cap Elems(decode_queue) = {}
    /\ Elems(fetch_queue) \cap Elems(rob) = {}
    /\ Elems(decode_queue) \cap Elems(rob) = {}
    /\ Live = Elems(fetch_queue) \cup Elems(decode_queue) \cup Elems(rob)

(* What has not been executed has no outcome, and only the rob holds what  *)
(* has.                                                                    *)
Unissued ==
    \A x \in Live :
        /\ ~ op[x].issued => ~ op[x].done /\ op[x].cc = -1 /\ ~ op[x].exc
        /\ op[x].issued => x \in Elems(rob)

(* A reservation station holds operations of its class that have not been  *)
(* executed, each once.                                                    *)
Waiting ==
    ~ nuke => \A c \in Classes :
                /\ NoRepeat(rs[c])
                /\ \A x \in Elems(rs[c]) :
                        x \in Elems(rob) /\ ~ op[x].issued /\ SigOf(x).cls = c

(* The tables hold operations of the rob.                                  *)
Tables == ~ nuke => load_tbl \cup store_tbl \subseteq Elems(rob)

(* The cache holds operations that have been executed and are not complete *)
(* yet; their complete_cycle is not known.                                 *)
InFlight ==
    \A x \in inflight : x \in Elems(rob) /\ op[x].issued /\ ~ op[x].done /\ op[x].cc = -1

(* While retire() sleeps on an operation, it is the oldest and complete.   *)
HeadDone ==
    /\ rpc \in {"slot", "exc", "excslot", "excuu"} => rob # <<>> /\ op[Head(rob)].done
    /\ rpc = "slot" => ~ op[Head(rob)].exc

(* During the recovery, in which retire() sleeps, the rob and the cache    *)
(* are empty.                                                              *)
Recovery ==
    /\ nuke <=> rpc = "sleep"
    /\ nuke => rob = <<>> /\ inflight = {}

(* What has been executed completes in a cycle to come, or the cache knows *)
(* when.                                                                   *)
Completes ==
    \A x \in Elems(rob) : op[x].issued /\ ~ op[x].done
        => op[x].cc \in Nat \/ (x \in inflight /\ op[x].aux \in Nat)

(* Once complete() has had its turn nothing completes in this cycle, and   *)
(* once the cache has had its turn no access is over in this cycle.        *)
NothingNow ==
    turn \in 3 .. 8 /\ ~ terminate_sim =>
        \A x \in Elems(rob) : op[x].issued /\ ~ op[x].done => op[x].cc # 0
NothingOver == turn = 8 /\ ~ terminate_sim => \A x \in inflight : op[x].aux # 0

CycleInv == Completes /\ NothingNow /\ NothingOver

WindowInv ==
    /\ Shape /\ OnePlace /\ Unissued /\ Waiting /\ Tables /\ InFlight /\ HeadDone /\ Recovery

-----------------------------------------------------------------------------
(* Small facts                                                             *)

(* An operation is not the empty slot.                                     *)
LEMMA FieldsNotNull == \A o : DOMAIN o = Fields => o # Null
BY DEF Fields, Null

(* What is live, and what a live operation looks like.                     *)
LEMMA LiveShape ==
    ASSUME Shape
    PROVE  \A x \in Ids : x \in Live <=> DOMAIN op[x] = Fields
BY FieldsNotNull DEF Shape, Live

(* The queues hold live operations.                                        *)
LEMMA QueuesLive ==
    ASSUME Shape, OnePlace
    PROVE  /\ Elems(fetch_queue) \subseteq Live
           /\ Elems(decode_queue) \subseteq Live
           /\ Elems(rob) \subseteq Live
           /\ Live \subseteq Ids
BY DEF OnePlace, Live

(* There is an id to give to a fetched operation: fetch() has seen that    *)
(* its queue is not full.                                                  *)
LEMMA FreeIdFresh ==
    ASSUME Shape, OnePlace, Len(fetch_queue) < FetchqSize
    PROVE  FreeId \in Ids \ Live
<1> DEFINE F == Elems(fetch_queue)
           D == Elems(decode_queue)
           R == Elems(rob)
<1>1. /\ IsFiniteSet(F) /\ Cardinality(F) <= Len(fetch_queue)
      /\ IsFiniteSet(D) /\ Cardinality(D) <= Len(decode_queue)
      /\ IsFiniteSet(R) /\ Cardinality(R) <= Len(rob)
  BY ElemsBound DEF Shape
<1>2. Live = F \cup D \cup R
  BY DEF OnePlace
<1> HIDE DEF F, D, R
<1>3. /\ IsFiniteSet(F \cup D) /\ IsFiniteSet(F \cup D \cup R)
      /\ Cardinality(F \cup D) <= Cardinality(F) + Cardinality(D)
      /\ Cardinality(F \cup D \cup R) <= Cardinality(F \cup D) + Cardinality(R)
  <2>1. IsFiniteSet(F \cup D) /\ Cardinality(F \cup D) = Cardinality(F) + Cardinality(D) - Cardinality(F \cap D)
    BY <1>1, FS_Union
  <2>2. /\ IsFiniteSet(F \cup D \cup R)
        /\ Cardinality(F \cup D \cup R)
             = Cardinality(F \cup D) + Cardinality(R) - Cardinality((F \cup D) \cap R)
    BY <1>1, <2>1, FS_Union
  <2>3. IsFiniteSet(F \cap D) /\ IsFiniteSet((F \cup D) \cap R)
    BY <1>1, <2>1, FS_Intersection
  <2>4. /\ Cardinality(F) \in Nat /\ Cardinality(D) \in Nat /\ Cardinality(R) \in Nat
        /\ Cardinality(F \cup D) \in Nat /\ Cardinality(F \cap D) \in Nat
        /\ Cardinality((F \cup D) \cap R) \in Nat
    BY <1>1, <2>1, <2>3, FS_CardinalityType
  <2> QED
    BY <2>1, <2>2, <2>4
<1>4. Cardinality(Ids) = FetchqSize + DecodeqSize + RobSize /\ IsFiniteSet(Ids)
  <2>1. FetchqSize + DecodeqSize + RobSize \in Nat
    BY SizesAssumption
  <2> QED
    BY <2>1, FS_Interval DEF Ids
<1>5. Cardinality(Live) < Cardinality(Ids)
  <2>1. /\ Cardinality(F) \in Nat /\ Cardinality(D) \in Nat /\ Cardinality(R) \in Nat
        /\ Cardinality(F \cup D) \in Nat /\ Cardinality(F \cup D \cup R) \in Nat
    BY <1>1, <1>3, FS_CardinalityType
  <2>2. /\ Len(fetch_queue) \in Nat /\ Len(decode_queue) \in Nat /\ Len(rob) \in Nat
        /\ Len(decode_queue) <= DecodeqSize /\ Len(rob) <= RobSize
        /\ FetchqSize \in Nat /\ DecodeqSize \in Nat /\ RobSize \in Nat
    BY SizesAssumption DEF Shape
  <2> QED
    BY <1>1, <1>2, <1>3, <1>4, <2>1, <2>2
<1>6. Ids \ Live # {}
  <2> SUFFICES ASSUME Ids \subseteq Live PROVE FALSE
    OBVIOUS
  <2>1. Live = Ids
    BY DEF Live
  <2> QED
    BY <1>4, <1>5, <2>1, FS_CardinalityType
<1>7. \E x \in Ids \ Live : \A y \in Ids \ Live : x <= y
  <2>1. Ids \ Live \in SUBSET Nat
    BY SizesAssumption DEF Ids
  <2> QED
    BY <1>6, <2>1, Least
<1> QED
  BY <1>7 DEF FreeId

(* The least element of a set of numbers is one of them.                   *)
LEMMA MinIn ==
    ASSUME NEW T \in SUBSET Nat, T # {}
    PROVE  Min(T) \in T /\ \A n \in T : Min(T) <= n
BY Least DEF Min

(* The names of the threads.                                               *)
LEMMA Turns ==
    ASSUME turn \in 1 .. 8
    PROVE  /\ Running("retire") <=> turn = 1
           /\ Running("complete") <=> turn = 2
           /\ Running("execute") <=> turn = 3
           /\ Running("allocate") <=> turn = 4
           /\ Running("decode") <=> turn = 5
           /\ Running("fetch") <=> turn = 6
           /\ Running("cache") <=> turn = 7
           /\ Running("cycle_count") <=> turn = 8
           /\ Yield => turn' = (IF turn = 8 THEN 1 ELSE turn + 1) /\ turn' \in 1 .. 8
           /\ Stay => turn' = turn
BY DEF Running, Threads, Yield, Stay

-----------------------------------------------------------------------------
(* The invariant is inductive: the threads before retire()                 *)

(* Initially nothing is in the window.                                     *)
LEMMA InitWindow == Init => WindowInv
<1> SUFFICES ASSUME Init PROVE WindowInv
  OBVIOUS
<1>1. Shape
  BY SizesAssumption DEF Init, Shape
<1>2. OnePlace /\ Unissued /\ Waiting /\ Tables /\ InFlight /\ HeadDone /\ Recovery
  BY DEF Init, OnePlace, NoRepeat, Elems, Live, Unissued, Waiting, Tables, InFlight, HeadDone, Recovery
<1> QED
  BY <1>1, <1>2 DEF WindowInv

(* A step that only moves a thread.                                        *)
LEMMA QuietWindow ==
    ASSUME WindowInv, turn' \in 1 .. 8, HeadDone', Recovery',
           UNCHANGED <<op, queueVars, windowVars, nuke>>
    PROVE  WindowInv'
BY DEF WindowInv, Shape, OnePlace, Live, Unissued, Waiting, Tables, InFlight,
       queueVars, windowVars, SigOf, InsnOf

(* fetch() pushes an operation with a new id.                              *)
LEMMA PushFetchWindow ==
    ASSUME WindowInv, NEW pc, NEW npc, NEW taken,
           FetchMore, PushFetch(pc, npc, taken), turn' \in 1 .. 8
    PROVE  WindowInv'
<1> DEFINE id == FreeId
<1>1. id \in Ids /\ id \notin Live /\ ~ nuke
  BY FreeIdFresh DEF WindowInv, FetchMore
<1> HIDE DEF id
<1>2. /\ op' = [op EXCEPT ![id] = NewOp(pc, npc, taken)]
      /\ fetch_queue' = Append(fetch_queue, id)
      /\ UNCHANGED <<rpc, decode_queue, rob, windowVars, nuke>>
  BY DEF PushFetch, id
<1>3. /\ Elems(fetch_queue) \subseteq Live /\ Elems(decode_queue) \subseteq Live
      /\ Elems(rob) \subseteq Live /\ Live \subseteq Ids
  BY QueuesLive DEF WindowInv
<1>4. /\ DOMAIN op' = Ids
      /\ \A x \in Ids : x # id => op'[x] = op[x]
      /\ op'[id] = NewOp(pc, npc, taken)
  BY <1>1, <1>2 DEF WindowInv, Shape
<1>5. DOMAIN op'[id] = Fields /\ op'[id] # Null
  BY <1>4, FieldsNotNull DEF NewOp, Fields
<1>6. Live' = Live \cup {id}
  BY <1>1, <1>4, <1>5 DEF Live
<1>7. /\ fetch_queue' \in Seq(Ids)
      /\ Elems(fetch_queue)' = Elems(fetch_queue) \cup {id}
      /\ NoRepeat(fetch_queue)'
      /\ Len(fetch_queue') = Len(fetch_queue) + 1
  BY <1>1, <1>2, <1>3, AppendElems DEF WindowInv, Shape, OnePlace
<1>8. Shape'
  BY <1>1, <1>2, <1>4, <1>5, <1>7, SizesAssumption DEF WindowInv, Shape, FetchMore, windowVars
<1>9. OnePlace'
  BY <1>1, <1>2, <1>3, <1>6, <1>7 DEF WindowInv, OnePlace
<1>10. Unissued'
  <2>1. ~ op'[id].issued /\ ~ op'[id].done /\ op'[id].cc = -1 /\ ~ op'[id].exc
    BY <1>4 DEF NewOp
  <2> QED
    BY <1>1, <1>2, <1>3, <1>4, <1>6, <2>1 DEF WindowInv, Unissued
<1>11. \A x \in Elems(rob) : op'[x] = op[x] /\ x \in Elems(rob)'
  BY <1>1, <1>2, <1>3, <1>4
<1>12. Waiting' /\ Tables' /\ InFlight'
  BY <1>1, <1>2, <1>11 DEF WindowInv, Waiting, Tables, InFlight, windowVars, SigOf, InsnOf
<1>13. HeadDone' /\ Recovery'
  <2>1. rob # <<>> => Head(rob) \in Elems(rob)
    BY TailElems DEF WindowInv, Shape
  <2> QED
    BY <1>1, <1>2, <1>11, <2>1 DEF WindowInv, HeadDone, Recovery, windowVars
<1> QED
  BY <1>8, <1>9, <1>10, <1>12, <1>13 DEF WindowInv

(* decode() moves the oldest operation of fetch_queue.                     *)
LEMMA DecodeWindow ==
    ASSUME WindowInv, DecodeOne
    PROVE  WindowInv'
<1> DEFINE x == Head(fetch_queue)
<1>1. /\ fetch_queue # <<>> /\ Len(decode_queue) < DecodeqSize /\ turn' = turn
      /\ fetch_queue' = Tail(fetch_queue)
      /\ decode_queue' = Append(decode_queue, x)
      /\ op' = [op EXCEPT ![x].age = 0, ![x].slot = InsnOf(x).k \in Jumps]
      /\ UNCHANGED <<rpc, rob, windowVars, nuke>>
  BY DEF DecodeOne, DecodeMore, Stay
<1>2. /\ fetch_queue' \in Seq(Ids)
      /\ Elems(fetch_queue) = Elems(fetch_queue)' \cup {x}
      /\ NoRepeat(fetch_queue)' /\ x \notin Elems(fetch_queue)'
      /\ Len(fetch_queue') <= FetchqSize
  BY <1>1, TailElems, SizesAssumption DEF WindowInv, Shape, OnePlace
<1> HIDE DEF x
<1>3. x \in Live /\ x \in Ids /\ x \notin Elems(decode_queue) /\ x \notin Elems(rob)
  BY <1>2, QueuesLive DEF WindowInv, OnePlace
<1>4. /\ decode_queue' \in Seq(Ids)
      /\ Elems(decode_queue)' = Elems(decode_queue) \cup {x}
      /\ NoRepeat(decode_queue)'
      /\ Len(decode_queue') <= DecodeqSize
  BY <1>1, <1>3, AppendElems, SizesAssumption DEF WindowInv, Shape, OnePlace
<1>5. /\ DOMAIN op' = Ids
      /\ \A y \in Ids : y # x => op'[y] = op[y]
      /\ DOMAIN op'[x] = Fields
      /\ \A f \in Fields \ {"age", "slot"} : op'[x][f] = op[x][f]
  BY <1>1, <1>3, LiveShape DEF WindowInv, Shape, Fields
<1>6. Live' = Live
  BY <1>3, <1>5, FieldsNotNull DEF Live
<1>7. Shape'
  BY <1>1, <1>2, <1>4, <1>5 DEF WindowInv, Shape, windowVars
<1>8. OnePlace'
  BY <1>1, <1>2, <1>3, <1>4, <1>6 DEF WindowInv, OnePlace
<1>9. Unissued'
  BY <1>1, <1>3, <1>5, <1>6, QueuesLive DEF WindowInv, Unissued, Fields
<1>10. \A y \in Elems(rob) : op'[y] = op[y] /\ y \in Elems(rob)'
  BY <1>1, <1>3, <1>5, QueuesLive DEF WindowInv
<1>11. Waiting' /\ Tables' /\ InFlight'
  BY <1>1, <1>10, ZenonT(40) DEF WindowInv, Waiting, Tables, InFlight, windowVars, SigOf, InsnOf
<1>12. HeadDone' /\ Recovery'
  <2>1. rob # <<>> => Head(rob) \in Elems(rob)
    BY TailElems DEF WindowInv, Shape
  <2> QED
    BY <1>1, <1>10, <2>1 DEF WindowInv, HeadDone, Recovery, windowVars
<1> QED
  BY <1>7, <1>8, <1>9, <1>11, <1>12 DEF WindowInv

(* allocate() moves the oldest operation of decode_queue to the rob and    *)
(* to the reservation station of its class.                                *)
LEMMA AllocateWindow ==
    ASSUME WindowInv, AllocateOne
    PROVE  WindowInv'
<1> DEFINE x == Head(decode_queue)
           cls == SigOf(x).cls
<1>1. /\ decode_queue # <<>> /\ Len(rob) < RobSize /\ ~ nuke
      /\ turn' = turn
      /\ decode_queue' = Tail(decode_queue)
      /\ rob' = Append(rob, x)
      /\ rs' = [rs EXCEPT ![cls] = Append(@, x)]
      /\ load_tbl' \subseteq load_tbl \cup {x}
      /\ store_tbl' \subseteq store_tbl \cup {x}
      /\ UNCHANGED <<rpc, fetch_queue, inflight, nuke>>
  BY DEF AllocateOne, AllocateMore
<1>2. \E a, b, c : op' = [op EXCEPT ![x].src = a, ![x].prev = b, ![x].new = c]
  BY DEF AllocateOne
<1>3. /\ decode_queue' \in Seq(Ids)
      /\ Elems(decode_queue) = Elems(decode_queue)' \cup {x}
      /\ NoRepeat(decode_queue)' /\ x \notin Elems(decode_queue)'
      /\ Len(decode_queue') <= DecodeqSize
  BY <1>1, TailElems, SizesAssumption DEF WindowInv, Shape, OnePlace
<1> HIDE DEF x, cls
<1>4. x \in Live /\ x \in Ids /\ x \notin Elems(fetch_queue) /\ x \notin Elems(rob)
  BY <1>3, QueuesLive DEF WindowInv, OnePlace
<1>5. /\ rob' \in Seq(Ids)
      /\ Elems(rob)' = Elems(rob) \cup {x}
      /\ NoRepeat(rob)'
      /\ Len(rob') <= RobSize
  BY <1>1, <1>4, AppendElems, SizesAssumption DEF WindowInv, Shape, OnePlace
<1>6. /\ DOMAIN op' = Ids
      /\ \A y \in Ids : y # x => op'[y] = op[y]
      /\ DOMAIN op'[x] = Fields
      /\ \A f \in Fields \ {"src", "prev", "new"} : op'[x][f] = op[x][f]
  BY <1>2, <1>4, LiveShape DEF WindowInv, Shape, Fields
<1>7. Live' = Live
  BY <1>4, <1>6, FieldsNotNull DEF Live
<1>8. ~ op[x].issued /\ ~ op'[x].issued
  BY <1>4, <1>6 DEF WindowInv, Unissued, Fields
<1>9. ASSUME NEW y \in Ids
      PROVE  /\ op'[y].pc = op[y].pc /\ op'[y].issued = op[y].issued
             /\ op'[y].done = op[y].done /\ op'[y].cc = op[y].cc /\ op'[y].exc = op[y].exc
  BY <1>6 DEF Fields
<1>10. \A y \in Ids : SigOf(y)' = SigOf(y)
  BY <1>4, <1>9 DEF SigOf, InsnOf
<1>11. ASSUME NEW c \in Classes
       PROVE  /\ rs'[c] \in Seq(Ids)
              /\ NoRepeat(rs'[c])
              /\ \A y \in Elems(rs'[c]) : y \in Elems(rs[c]) \/ (y = x /\ c = cls)
  <2>1. /\ rs[c] \in Seq(Ids) /\ NoRepeat(rs[c]) /\ x \notin Elems(rs[c])
    BY <1>1, <1>4 DEF WindowInv, Shape, Waiting
  <2>2. CASE c = cls
    <3>1. rs'[c] = Append(rs[c], x)
      BY <1>1, <2>2 DEF WindowInv, Shape
    <3> QED
      BY <1>4, <2>1, <2>2, <3>1, AppendElems
  <2>3. CASE c # cls
    BY <1>1, <2>1, <2>3 DEF WindowInv, Shape
  <2> QED
    BY <2>2, <2>3
<1>12. Shape'
  BY <1>1, <1>3, <1>5, <1>6, <1>11 DEF WindowInv, Shape
<1>13. OnePlace'
  BY <1>1, <1>3, <1>4, <1>5, <1>7 DEF WindowInv, OnePlace
<1>14. Unissued'
  BY <1>5, <1>7, <1>9, QueuesLive DEF WindowInv, Unissued
<1>15. Waiting'
  <2> SUFFICES ASSUME NEW c \in Classes, NEW y \in Elems(rs'[c])
               PROVE  y \in Elems(rob)' /\ ~ op'[y].issued /\ SigOf(y)'.cls = c
    BY <1>11 DEF Waiting
  <2>1. CASE y \in Elems(rs[c])
    BY <1>1, <1>5, <1>9, <1>10, <2>1, QueuesLive DEF WindowInv, Waiting
  <2>2. CASE y = x /\ c = cls
    BY <1>4, <1>5, <1>8, <1>10, <2>2 DEF cls
  <2> QED
    BY <1>11, <2>1, <2>2
<1>16. Tables'
  BY <1>1, <1>5 DEF WindowInv, Tables
<1>17. InFlight' /\ Recovery'
  BY <1>1, <1>5, <1>9, QueuesLive DEF WindowInv, InFlight, Recovery
<1>18. HeadDone'
  <2>1. rob # <<>> => Head(rob) \in Elems(rob) /\ Head(rob') = Head(rob) /\ rob' # <<>>
    BY <1>1, <1>4, TailElems, AppendElems DEF WindowInv, Shape
  <2> QED
    BY <1>1, <1>9, <2>1, QueuesLive DEF WindowInv, HeadDone
<1> QED
  BY <1>12, <1>13, <1>14, <1>15, <1>16, <1>17, <1>18 DEF WindowInv

(* complete() makes an operation of the rob complete whose complete_cycle  *)
(* has come.                                                               *)
LEMMA CompleteWindow ==
    ASSUME WindowInv, CompleteOne
    PROVE  WindowInv'
<1> DEFINE x == rob[Min(Completing)]
<1>1. /\ op' = [op EXCEPT ![x].done = TRUE]
      /\ turn' = turn
      /\ UNCHANGED <<rpc, queueVars, windowVars, nuke>>
      /\ Completing # {}
  BY DEF CompleteOne
<1>2. Min(Completing) \in Completing
  <2>1. Completing \in SUBSET Nat
    BY DEF Completing, WindowInv, Shape
  <2> QED
    BY <1>1, <2>1, MinIn
<1>3. x \in Elems(rob) /\ ~ op[x].done /\ op[x].cc = 0
  BY <1>2 DEF Completing, Elems
<1> HIDE DEF x
<1>4. x \in Live /\ x \in Ids /\ op[x].issued
  BY <1>3, QueuesLive DEF WindowInv, Unissued
<1>5. /\ DOMAIN op' = Ids
      /\ \A y \in Ids : y # x => op'[y] = op[y]
      /\ DOMAIN op'[x] = Fields
      /\ \A f \in Fields \ {"done"} : op'[x][f] = op[x][f]
      /\ op'[x].done = TRUE
  BY <1>1, <1>4, LiveShape DEF WindowInv, Shape, Fields
<1>6. Live' = Live
  BY <1>4, <1>5, FieldsNotNull DEF Live
<1>7. ASSUME NEW y \in Ids
      PROVE  /\ op'[y].pc = op[y].pc /\ op'[y].issued = op[y].issued
             /\ op'[y].cc = op[y].cc /\ op'[y].exc = op[y].exc
             /\ y # x => op'[y].done = op[y].done
             /\ op[y].done => op'[y].done
  BY <1>5 DEF Fields
<1>8. \A y \in Ids : SigOf(y)' = SigOf(y)
  BY <1>7 DEF SigOf, InsnOf
<1>9. Shape'
  BY <1>1, <1>5 DEF WindowInv, Shape, queueVars, windowVars
<1>10. OnePlace'
  BY <1>1, <1>6 DEF WindowInv, OnePlace, queueVars
<1>11. Unissued'
  BY <1>1, <1>4, <1>6, <1>7, QueuesLive DEF WindowInv, Unissued, queueVars
<1>12. Waiting'
  BY <1>1, <1>7, <1>8, QueuesLive DEF WindowInv, Waiting, queueVars, windowVars
<1>13. Tables' /\ Recovery'
  BY <1>1 DEF WindowInv, Tables, Recovery, queueVars, windowVars
<1>14. InFlight'
  <2>1. x \notin inflight
    BY <1>3 DEF WindowInv, InFlight
  <2> QED
    BY <1>1, <1>7, <2>1, QueuesLive DEF WindowInv, InFlight, queueVars, windowVars
<1>15. HeadDone'
  <2>1. rob # <<>> => Head(rob) \in Elems(rob)
    BY TailElems DEF WindowInv, Shape
  <2> QED
    BY <1>1, <1>7, <2>1, QueuesLive DEF WindowInv, HeadDone, queueVars
<1> QED
  BY <1>9, <1>10, <1>11, <1>12, <1>13, <1>14, <1>15 DEF WindowInv

(* What decode_insn() says of the class and of the latency.                *)
LEMMA Decode ==
    ASSUME NEW i, i.k \in Mnemonics
    PROVE  LET s == decode_insn(i)
           IN  /\ s.cls \in Classes
               /\ s.lat \in 1 .. 32
               /\ s.cls = "load" <=> i.k \in LoadOps \cup {"lwc1", "ldc1"}
               /\ s.cls = "store" <=> i.k \in StoreOps \cup {"swc1", "sdc1"}
               /\ s.cls = "jmp" <=> i.k \in Branches \cup Jumps
               /\ s.cls = "system" <=> i.k \in {"seb", "seh", "break", "sync", "monitor"}
<1> USE DEF Branches, Likely, NonLikely, Jumps, IType, LoadOps, StoreOps, ConstShift, RType,
            CondMove, LoHi, MultDiv, FpCmp, FpCondMove, FpRegMove, ToSingle, ToDouble,
            FpArithD, FpArithS, Alu, Sig, Classes
<1>1. CASE i.k \in ConstShift \cup RType \cup CondMove \cup LoHi \cup MultDiv
                  \cup {"teq", "jr", "jalr", "break", "sync", "monitor"}
  <2>1. decode_insn(i) = decode_rtype_insn(i)
    BY <1>1 DEF decode_insn
  <2>2. CASE i.k \in ConstShift
    <3>1. decode_insn(i) = rtype_const_shift_alu_op(i)
      BY <2>1, <2>2 DEF decode_rtype_insn
    <3> QED
      BY <2>2, <3>1 DEF rtype_const_shift_alu_op
  <2>3. CASE i.k \in RType
    <3>1. decode_insn(i) = rtype_alu_op(i)
      BY <2>1, <2>3 DEF decode_rtype_insn
    <3> QED
      BY <2>3, <3>1 DEF rtype_alu_op
  <2>4. CASE i.k \in CondMove
    <3>1. decode_insn(i) = movci_op(i)
      BY <2>1, <2>4 DEF decode_rtype_insn
    <3> QED
      BY <2>4, <3>1 DEF movci_op
  <2>5. CASE i.k \in LoHi
    <3>1. decode_insn(i) = lo_hi_move(i)
      BY <2>1, <2>5 DEF decode_rtype_insn
    <3> QED
      BY <2>5, <3>1 DEF lo_hi_move
  <2>6. CASE i.k \in MultDiv
    <3>1. decode_insn(i) = mult_div_op(i)
      BY <2>1, <2>6 DEF decode_rtype_insn
    <3> QED
      BY <2>6, <3>1 DEF mult_div_op
  <2>7. CASE i.k \in {"teq"}
    <3>1. decode_insn(i) = teq_op(i)
      BY <2>1, <2>7 DEF decode_rtype_insn
    <3> QED
      BY <2>7, <3>1 DEF teq_op
  <2>8. CASE i.k \in {"jr", "jalr"}
    <3>1. decode_insn(i) = jump_op(i)
      BY <2>1, <2>8 DEF decode_rtype_insn
    <3> QED
      BY <2>8, <3>1 DEF jump_op
  <2>9. CASE i.k \in {"break"}
    <3>1. decode_insn(i) = break_op(i)
      BY <2>1, <2>9 DEF decode_rtype_insn
    <3> QED
      BY <2>9, <3>1 DEF break_op
  <2>10. CASE i.k \in {"sync"}
    <3>1. decode_insn(i) = sync_op(i)
      BY <2>1, <2>10 DEF decode_rtype_insn
    <3> QED
      BY <2>10, <3>1 DEF sync_op
  <2>11. CASE i.k \in {"monitor"}
    <3>1. decode_insn(i) = monitor_op(i)
      BY <2>1, <2>11 DEF decode_rtype_insn
    <3> QED
      BY <2>11, <3>1 DEF monitor_op
  <2> QED
    BY <1>1, <2>2, <2>3, <2>4, <2>5, <2>6, <2>7, <2>8, <2>9, <2>10, <2>11
<1>2. CASE i.k \in Branches \cup IType \cup LoadOps \cup StoreOps
                  \cup {"lui", "lwc1", "ldc1", "swc1", "sdc1"}
  <2>1. decode_insn(i) = decode_itype_insn(i)
    BY <1>2 DEF decode_insn
  <2> QED
    BY <1>2, <2>1 DEF decode_itype_insn, branch_op, itype_alu_op, itype_lui_op, load_op,
          store_op, fp_load_op, fp_store_op
<1>3. CASE i.k \in {"mfc1", "mtc1"} \cup FpCmp \cup FpCondMove \cup FpRegMove \cup ToSingle
                  \cup ToDouble \cup FpArithD \cup FpArithS
  <2>1. decode_insn(i) = decode_coproc1_insn(i)
    BY <1>3 DEF decode_insn
  <2> QED
    BY <1>3, <2>1 DEF decode_coproc1_insn, mfc1, mtc1, fp_cmp, fmovc_op, fmov_op,
          cvts_truncw_op, cvtd_op, fp_arith_op
<1>4. CASE i.k \in {"madd", "msub", "mul", "clz", "ext", "ins", "seb", "seh", "mtc0", "j", "jal",
                   "madd.d", "msub.d", "madd.s", "msub.s"}
  BY <1>4, SMTT(40) DEF decode_insn, decode_special2_insn, decode_special3_insn, mult_div_op, mul_op,
        clz_op, ext_op, ins_op, se_op, mtc0, jump_op, fp_fma
<1> QED
  BY <1>1, <1>2, <1>3, <1>4 DEF Mnemonics

(* Every word of the text, and the empty memory around it, decodes.        *)
LEMMA Decodes == \A a : InsnAt(a).k \in Mnemonics
BY ProgramAssumption DEF InsnAt, Nop, Insn, Mnemonics, ConstShift

(* What execute() of the op class leaves of an operation, and when it      *)
(* completes: l1d decides for the loads and stores that go through it.     *)
SameButIssued(e, o) == DOMAIN e = Fields /\ e.issued = TRUE /\ e.done = o.done /\ e.pc = o.pc
CompletesAfter(e, s, lat) ==
    /\ s.cls \in {"load", "store"} /\ UseL1d => e.cc = -1 /\ e.aux = lat
    /\ s.cls \in {"load", "store"} /\ ~ UseL1d => e.cc = lat
    /\ s.cls \notin {"load", "store"} => e.cc = s.lat

(* Every op class issues the operation and sets its complete_cycle, or     *)
(* leaves it to the cache.                                                 *)
LEMMA ExecutedShape ==
    ASSUME NEW x, NEW val, NEW lat, DOMAIN op[x] = Fields
    PROVE  /\ SameButIssued(Executed(x, val, lat), op[x])
           /\ CompletesAfter(Executed(x, val, lat), SigOf(x), lat)
<1> USE DEF SameButIssued, CompletesAfter
<1> DEFINE i == InsnOf(x)
           o == [op[x] EXCEPT !.issued = TRUE, !.cc = SigOf(x).lat]
           m == [o EXCEPT !.ea = EffectiveAddress(i, val), !.v = val,
                          !.aux = IF UseL1d THEN lat ELSE -1, !.cc = IF UseL1d THEN -1 ELSE lat]
           target == CASE i.k \in Branches -> IF TakeBr(i, val) THEN BranchTarget(i, o.pc)
                                              ELSE Unsigned(o.pc + 8)
                       [] i.k \in Jumps    -> JumpTarget(i, val)
                       [] i.k = "monitor"  -> val[GPR(31)]
           load == [m EXCEPT !.lexc = @ \/ Misaligned(i, m.ea)]
           jump == [o EXCEPT !.target = target, !.exc = (o.npc # target)]
           branch == [o EXCEPT !.target = target,
                               !.slot = TakeBr(i, val) \/ i.k \notin Likely,
                               !.exc = Mispredicted(i, o, TakeBr(i, val))]
           monitor == [o EXCEPT !.v = val, !.target = target, !.exc = TRUE]
           e == Executed(x, val, lat)
<1>0. /\ SigOf(x).cls \in {"load", "store"} => i.k \notin Jumps \cup Branches \cup {"monitor"}
      /\ i.k \in Jumps => i.k \notin Branches \cup {"monitor"}
      /\ i.k \in Branches => i.k # "monitor"
  <2>1. i.k \in Mnemonics
    BY Decodes DEF InsnOf
  <2>2. SigOf(x).cls \in {"load", "store"}
          => i.k \in LoadOps \cup {"lwc1", "ldc1"} \cup StoreOps \cup {"swc1", "sdc1"}
    BY <2>1, Decode DEF SigOf
  <2> QED
    BY <2>2 DEF LoadOps, StoreOps, Jumps, Branches, Likely, NonLikely
<1>1. e = CASE SigOf(x).cls = "load"  -> load
            [] SigOf(x).cls = "store" -> m
            [] i.k \in Jumps          -> jump
            [] i.k \in Branches       -> branch
            [] i.k = "monitor"        -> monitor
            [] OTHER                  -> o
  BY Zenon DEF Executed
<1> HIDE DEF e, target, i
<1>2. /\ DOMAIN o = Fields /\ o.issued = TRUE /\ o.done = op[x].done /\ o.pc = op[x].pc
      /\ o.cc = SigOf(x).lat
  BY DEF Fields
<1> HIDE DEF o
<1>3. /\ DOMAIN m = Fields /\ m.issued = TRUE /\ m.done = op[x].done /\ m.pc = op[x].pc
      /\ m.aux = (IF UseL1d THEN lat ELSE -1) /\ m.cc = (IF UseL1d THEN -1 ELSE lat)
  BY <1>2 DEF Fields
<1> HIDE DEF m
<1>4. /\ DOMAIN load = Fields /\ load.issued = TRUE /\ load.done = op[x].done
      /\ load.pc = op[x].pc /\ load.aux = m.aux /\ load.cc = m.cc
  BY <1>3 DEF Fields
<1>5. /\ DOMAIN jump = Fields /\ jump.issued = TRUE /\ jump.done = op[x].done
      /\ jump.pc = op[x].pc /\ jump.cc = SigOf(x).lat
  BY <1>2 DEF Fields
<1>6. /\ DOMAIN branch = Fields /\ branch.issued = TRUE /\ branch.done = op[x].done
      /\ branch.pc = op[x].pc /\ branch.cc = SigOf(x).lat
  BY <1>2 DEF Fields
<1>7. /\ DOMAIN monitor = Fields /\ monitor.issued = TRUE /\ monitor.done = op[x].done
      /\ monitor.pc = op[x].pc /\ monitor.cc = SigOf(x).lat
  BY <1>2 DEF Fields
<1> HIDE DEF load, jump, branch, monitor
<1>8. CASE SigOf(x).cls = "load"
  <2>1. e = load
    BY <1>0, <1>1, <1>8
  <2> QED
    BY <1>3, <1>4, <1>8, <2>1 DEF e
<1>9. CASE SigOf(x).cls = "store"
  <2>1. e = m
    BY <1>0, <1>1, <1>9
  <2> QED
    BY <1>3, <1>9, <2>1 DEF e
<1>10. CASE SigOf(x).cls \notin {"load", "store"}
  <2>1. e \in {jump, branch, monitor, o}
    BY <1>0, <1>1, <1>10
  <2> QED
    BY <1>2, <1>5, <1>6, <1>7, <1>10, <2>1 DEF e
<1> QED
  BY <1>8, <1>9, <1>10

(* The operation that the schedulers take waits in a reservation station.  *)
LEMMA ScheduledOp ==
    ASSUME WindowInv, Schedulable # {}
    PROVE  LET c == SchedOrder[Min(Schedulable)]
               j == Min(ReadyAt(c))
           IN  /\ c \in Classes /\ j \in DOMAIN rs[c] /\ ~ nuke /\ ~ terminate_sim
               /\ rs[c][j] \in Elems(rs[c])
<1> DEFINE c == SchedOrder[Min(Schedulable)]
<1>1. Min(Schedulable) \in Schedulable
  <2>1. Schedulable \in SUBSET Nat
    BY DEF Schedulable, SchedOrder
  <2> QED
    BY <2>1, MinIn
<1>2. c \in Classes /\ ReadyAt(c) # {}
  <2>1. ReadyAt(c) # {} /\ Min(Schedulable) \in 1 .. 6
    <3>1. Min(Schedulable) \in DOMAIN SchedOrder /\ DOMAIN SchedOrder = 1 .. 6
      BY <1>1 DEF Schedulable, SchedOrder
    <3>2. ReadyAt(SchedOrder[Min(Schedulable)]) # {}
      BY <1>1, Zenon DEF Schedulable
    <3> QED
      BY <3>1, <3>2, Zenon
  <2>2. \A n \in 1 .. 6 : SchedOrder[n] \in Classes
    BY DEF SchedOrder, Classes
  <2> QED
    BY <2>1, <2>2
<1> HIDE DEF c
<1>3. Min(ReadyAt(c)) \in ReadyAt(c)
  <2>1. ReadyAt(c) \in SUBSET Nat
    BY <1>2 DEF ReadyAt, WindowInv, Shape
  <2> QED
    BY <1>2, <2>1, MinIn
<1>4. /\ Min(ReadyAt(c)) \in DOMAIN rs[c] /\ ~ nuke /\ ~ terminate_sim
  BY <1>3 DEF ReadyAt
<1> QED
  BY <1>2, <1>4 DEF Elems, c

(* execute() takes an operation out of its reservation station; l1d keeps  *)
(* a load or store.                                                        *)
LEMMA ExecuteWindow ==
    ASSUME WindowInv, ExecuteOne
    PROVE  WindowInv'
<1>1. turn' = turn /\ Schedulable # {} /\ UNCHANGED <<rpc, queueVars, load_tbl, store_tbl, nuke>>
  BY DEF ExecuteOne
<1>2. PICK c, j, x, val, lat :
        /\ c \in Classes /\ j \in DOMAIN rs[c] /\ x = rs[c][j] /\ x \in Elems(rs[c])
        /\ op' = [op EXCEPT ![x] = Executed(x, val, lat)]
        /\ rs' = [rs EXCEPT ![c] = SubSeq(@, 1, j - 1) \o SubSeq(@, j + 1, Len(@))]
        /\ inflight' = IF UseL1d /\ c \in {"load", "store"} THEN inflight \cup {x} ELSE inflight
  <2> DEFINE cc == SchedOrder[Min(Schedulable)]
             jj == Min(ReadyAt(cc))
             xx == rs[cc][jj]
  <2>1. cc \in Classes /\ jj \in DOMAIN rs[cc] /\ xx \in Elems(rs[cc])
    BY <1>1, ScheduledOp
  <2>2. PICK val, lat : op' = [op EXCEPT ![xx] = Executed(xx, val, lat)]
    BY DEF ExecuteOne
  <2>3. /\ rs' = [rs EXCEPT ![cc] = SubSeq(@, 1, jj - 1) \o SubSeq(@, jj + 1, Len(@))]
        /\ inflight' = IF UseL1d /\ cc \in {"load", "store"} THEN inflight \cup {xx} ELSE inflight
    BY DEF ExecuteOne
  <2> HIDE DEF cc, jj
  <2>4. PICK c, j, x : c = cc /\ j = jj /\ x = xx
    OBVIOUS
  <2> QED
    BY <2>1, <2>2, <2>3, <2>4, Zenon
<1>3. ~ nuke
  BY <1>1, ScheduledOp
<1>4. x \in Elems(rob) /\ ~ op[x].issued /\ ~ op[x].done /\ SigOf(x).cls = c
  BY <1>2, <1>3, QueuesLive DEF WindowInv, Waiting, Unissued
<1>5. /\ rs'[c] \in Seq(Ids) /\ NoRepeat(rs'[c])
      /\ Elems(rs'[c]) \subseteq Elems(rs[c]) /\ x \notin Elems(rs'[c])
  <2>1. rs[c] \in Seq(Ids) /\ NoRepeat(rs[c])
    BY <1>2, <1>3 DEF WindowInv, Shape, Waiting
  <2>2. rs'[c] = SubSeq(rs[c], 1, j - 1) \o SubSeq(rs[c], j + 1, Len(rs[c]))
    BY <1>2 DEF WindowInv, Shape
  <2> QED
    BY <1>2, <2>1, <2>2, RemoveElems
<1>6. \A d \in Classes : d # c => rs'[d] = rs[d]
  BY <1>2 DEF WindowInv, Shape
<1>7. x \in Live /\ x \in Ids /\ DOMAIN op[x] = Fields
  BY <1>4, QueuesLive, LiveShape DEF WindowInv
<1>8. /\ DOMAIN op' = Ids
      /\ \A y \in Ids : y # x => op'[y] = op[y]
      /\ DOMAIN op'[x] = Fields
      /\ op'[x].issued = TRUE /\ op'[x].done = op[x].done /\ op'[x].pc = op[x].pc
      /\ UseL1d /\ c \in {"load", "store"} => op'[x].cc = -1
  <2>2. op'[x] = Executed(x, val, lat) /\ DOMAIN op' = Ids /\ \A y \in Ids : y # x => op'[y] = op[y]
    BY <1>2, <1>7 DEF WindowInv, Shape
  <2>3. /\ SameButIssued(Executed(x, val, lat), op[x])
        /\ CompletesAfter(Executed(x, val, lat), SigOf(x), lat)
    BY <1>7, ExecutedShape
  <2> QED
    BY <1>4, <2>2, <2>3 DEF SameButIssued, CompletesAfter
<1>9. Live' = Live
  BY <1>7, <1>8, FieldsNotNull DEF Live
<1>10. \A y \in Ids : op'[y].pc = op[y].pc /\ op'[y].done = op[y].done
  BY <1>8
<1>11. \A y \in Ids : SigOf(y)' = SigOf(y)
  BY <1>10 DEF SigOf, InsnOf
<1>12. Shape'
  <2>1. DOMAIN rs' = Classes /\ \A d \in Classes : rs'[d] \in Seq(Ids)
    BY <1>2, <1>5, <1>6 DEF WindowInv, Shape
  <2> QED
    BY <1>1, <1>8, <2>1 DEF WindowInv, Shape, queueVars
<1>13. OnePlace'
  BY <1>1, <1>9 DEF WindowInv, OnePlace, queueVars
<1>14. Unissued'
  BY <1>1, <1>4, <1>7, <1>8, <1>9, QueuesLive DEF WindowInv, Unissued, queueVars
<1>15. Waiting'
  <2> SUFFICES ASSUME NEW d \in Classes
               PROVE  /\ NoRepeat(rs'[d])
                      /\ \A y \in Elems(rs'[d]) :
                            y \in Elems(rob)' /\ ~ op'[y].issued /\ SigOf(y)'.cls = d
    BY DEF Waiting
  <2>1. \A y \in Elems(rs[d]) : y \in Elems(rob) /\ y \in Ids /\ ~ op[y].issued /\ SigOf(y).cls = d
    BY <1>3, QueuesLive DEF WindowInv, Waiting
  <2>2. NoRepeat(rs'[d]) /\ Elems(rs'[d]) \subseteq Elems(rs[d])
    BY <1>3, <1>5, <1>6 DEF WindowInv, Waiting
  <2>3. x \notin Elems(rs'[d])
    BY <1>4, <1>5, <1>6, <2>1
  <2> QED
    BY <1>1, <1>8, <1>11, <2>1, <2>2, <2>3 DEF queueVars
<1>16. Tables' /\ Recovery'
  BY <1>1, <1>3 DEF WindowInv, Tables, Recovery, queueVars
<1>17. InFlight'
  BY <1>1, <1>2, <1>4, <1>7, <1>8, QueuesLive DEF WindowInv, InFlight, queueVars
<1>18. HeadDone'
  <2>1. rob # <<>> => Head(rob) \in Elems(rob)
    BY TailElems DEF WindowInv, Shape
  <2> QED
    BY <1>1, <1>4, <1>8, <2>1, QueuesLive DEF WindowInv, HeadDone, queueVars
<1> QED
  BY <1>12, <1>13, <1>14, <1>15, <1>16, <1>17, <1>18 DEF WindowInv

-----------------------------------------------------------------------------
(* The invariant is inductive: the cache and the clock                     *)

(* A step that moves no operation, forgets accesses of the cache and keeps *)
(* what the operations have done.                                          *)
LEMMA KeepsWindow ==
    ASSUME WindowInv, turn' \in 1 .. 8, inflight' \subseteq inflight,
           UNCHANGED <<rpc, queueVars, rs, load_tbl, store_tbl, nuke>>,
           DOMAIN op' = Ids,
           \A x \in Ids \ Live : op'[x] = Null,
           \A x \in Live :
                /\ DOMAIN op'[x] = Fields
                /\ \A f \in {"pc", "issued", "done", "exc"} : op'[x][f] = op[x][f]
                /\ op[x].cc = -1 /\ (x \in inflight' \/ ~ op[x].issued) => op'[x].cc = -1
    PROVE  WindowInv'
<1>1. Live' = Live
  BY FieldsNotNull DEF Live
<1>2. ASSUME NEW x \in Live
      PROVE  /\ op'[x].pc = op[x].pc /\ op'[x].issued = op[x].issued
             /\ op'[x].done = op[x].done /\ op'[x].exc = op[x].exc /\ SigOf(x)' = SigOf(x)
  BY DEF SigOf, InsnOf
<1>3. Shape'
  BY <1>1 DEF WindowInv, Shape, Live, queueVars
<1>4. OnePlace' /\ Tables' /\ Recovery'
  BY <1>1 DEF WindowInv, OnePlace, Tables, Recovery, queueVars
<1>5. Unissued' /\ Waiting' /\ InFlight'
  BY <1>1, <1>2, QueuesLive DEF WindowInv, Unissued, Waiting, InFlight, queueVars
<1>6. HeadDone'
  <2>1. rob # <<>> => Head(rob) \in Elems(rob)
    BY TailElems DEF WindowInv, Shape
  <2> QED
    BY <1>2, <2>1, QueuesLive DEF WindowInv, HeadDone, queueVars
<1> QED
  BY <1>3, <1>4, <1>5, <1>6 DEF WindowInv

(* simCache::tick() gives the accesses whose latency has passed their      *)
(* complete_cycle and lets go of them.                                     *)
LEMMA CacheTickWindow ==
    ASSUME WindowInv, CacheTick
    PROVE  WindowInv'
<1>1. /\ op' = [x \in Ids |-> IF x \in inflight /\ op[x].aux = 0
                              THEN [op[x] EXCEPT !.cc = TickDelay, !.aux = -1] ELSE op[x]]
      /\ inflight' = {x \in inflight : op[x].aux # 0}
      /\ UNCHANGED <<rpc, queueVars, rs, load_tbl, store_tbl, nuke>>
  BY DEF CacheTick
<1>2. turn' \in 1 .. 8
  BY Turns DEF WindowInv, Shape, CacheTick
<1>3. ASSUME NEW x \in Ids \ Live PROVE op'[x] = Null
  <2>1. x \notin inflight
    BY <1>3, QueuesLive DEF WindowInv, InFlight
  <2> QED
    BY <1>1, <1>3, <2>1 DEF Live
<1>4. ASSUME NEW x \in Live
      PROVE  /\ DOMAIN op'[x] = Fields
             /\ \A f \in {"pc", "issued", "done", "exc"} : op'[x][f] = op[x][f]
             /\ op[x].cc = -1 /\ (x \in inflight' \/ ~ op[x].issued) => op'[x].cc = -1
  <2>1. x \in Ids /\ DOMAIN op[x] = Fields
    BY LiveShape DEF WindowInv, Live
  <2>2. CASE x \in inflight /\ op[x].aux = 0
    <3>1. op'[x] = [op[x] EXCEPT !.cc = TickDelay, !.aux = -1] /\ x \notin inflight' /\ op[x].issued
      BY <1>1, <2>1, <2>2 DEF WindowInv, InFlight
    <3> QED
      BY <2>1, <3>1 DEF Fields
  <2>3. CASE ~ (x \in inflight /\ op[x].aux = 0)
    BY <1>1, <2>1, <2>3 DEF Fields
  <2> QED
    BY <2>2, <2>3
<1> QED
  BY <1>1, <1>2, <1>3, <1>4, KeepsWindow

(* curr_cycle advances: only the ages and the distances to the cycles of   *)
(* completion change.                                                      *)
LEMMA NextCycleWindow ==
    ASSUME WindowInv, NextCycle
    PROVE  WindowInv'
<1> DEFINE dec(n) == IF n = -1 THEN -1 ELSE n - 1
<1>1. /\ op' = [x \in Ids |-> IF x \notin Live THEN Null
                              ELSE [op[x] EXCEPT !.age = IF @ < 2 THEN @ + 1 ELSE 2,
                                                 !.cc = dec(@), !.aux = dec(@)]]
      /\ UNCHANGED <<rpc, queueVars, windowVars, nuke>>
  BY DEF NextCycle
<1>2. turn' \in 1 .. 8
  BY Turns DEF WindowInv, Shape, NextCycle
<1>3. ASSUME NEW x \in Live
      PROVE  /\ DOMAIN op'[x] = Fields
             /\ \A f \in {"pc", "issued", "done", "exc"} : op'[x][f] = op[x][f]
             /\ op[x].cc = -1 => op'[x].cc = -1
  <2>1. x \in Ids /\ DOMAIN op[x] = Fields
    BY LiveShape DEF WindowInv, Live
  <2> QED
    BY <1>1, <2>1 DEF Fields
<1> QED
  BY <1>1, <1>2, <1>3, KeepsWindow DEF windowVars

-----------------------------------------------------------------------------
(* The invariant is inductive: retire()                                    *)

(* The oldest operation, when it is complete, is neither in a reservation  *)
(* station nor in the cache, and there is no recovery.                     *)
LEMMA OldestDone ==
    ASSUME WindowInv, rob # <<>>, op[Head(rob)].done
    PROVE  LET x == Head(rob)
           IN  /\ x \in Elems(rob) /\ x \in Live /\ x \in Ids
               /\ op[x].issued
               /\ x \notin inflight
               /\ \A c \in Classes : x \notin Elems(rs[c])
               /\ ~ nuke
<1> DEFINE x == Head(rob)
<1>1. x \in Elems(rob)
  BY TailElems DEF WindowInv, Shape
<1>2. x \in Live /\ x \in Ids
  BY <1>1, QueuesLive DEF WindowInv
<1>3. op[x].issued /\ x \notin inflight
  BY <1>2 DEF WindowInv, Unissued, InFlight
<1>4. ~ nuke
  BY DEF WindowInv, Recovery
<1>5. \A c \in Classes : x \notin Elems(rs[c])
  BY <1>3, <1>4 DEF WindowInv, Waiting
<1> QED
  BY <1>1, <1>2, <1>3, <1>4, <1>5

(* retire() of the op class deletes the oldest operation: it leaves the    *)
(* rob and the tables, the last structures that hold it.                   *)
LEMMA RetireOpWindow ==
    ASSUME WindowInv, rob # <<>>, op[Head(rob)].done, RetireOp(Head(rob)),
           \/ rpc' \in {"loop", "nuke"}
           \/ rpc' = "excuu" /\ Len(rob) >= 2 /\ op[rob[2]].done
    PROVE  WindowInv'
<1> DEFINE x == Head(rob)
<1>1. /\ x \in Elems(rob) /\ x \in Live /\ x \in Ids
      /\ op[x].issued /\ x \notin inflight /\ ~ nuke
      /\ \A c \in Classes : x \notin Elems(rs[c])
  BY OldestDone
<1>2. /\ rob' \in Seq(Ids)
      /\ Elems(rob) = Elems(rob)' \cup {x}
      /\ NoRepeat(rob)' /\ x \notin Elems(rob)'
      /\ Len(rob') <= RobSize
  <2>1. rob' = Tail(rob)
    BY DEF RetireOp
  <2> QED
    BY <2>1, TailElems, SizesAssumption DEF WindowInv, Shape, OnePlace
<1>3. PICK replay \in BOOLEAN :
        op' = [y \in Ids |-> IF y = x THEN Null
                             ELSE IF replay /\ y \in load_tbl
                             THEN [op[y] EXCEPT !.lexc = TRUE] ELSE op[y]]
  <2>1. PICK replay \in BOOLEAN : replay = (Violated(x) # {})
    OBVIOUS
  <2> HIDE DEF x
  <2>2. op' = [y \in Ids |-> IF y = x THEN Null
                             ELSE IF Violated(x) # {} /\ y \in load_tbl
                             THEN [op[y] EXCEPT !.lexc = TRUE] ELSE op[y]]
    BY DEF RetireOp, x
  <2> QED
    BY <2>1, <2>2
<1>4. /\ UNCHANGED <<turn, fetch_queue, decode_queue, rs, inflight, nuke>>
      /\ load_tbl' = load_tbl \ {x} /\ store_tbl' = store_tbl \ {x}
  BY DEF RetireOp, LeaveTbl
<1>5. HeadDone'
  <2>1. CASE rpc' \in {"loop", "nuke"}
    BY <2>1 DEF HeadDone
  <2>2. CASE rpc' = "excuu" /\ Len(rob) >= 2 /\ op[rob[2]].done
    <3>1. rob' = Tail(rob) /\ rob \in Seq(Ids)
      BY DEF RetireOp, WindowInv, Shape
    <3>2. rob' # <<>> /\ Head(rob') = rob[2] /\ rob[2] \in Ids /\ rob[2] \in Elems(rob)
      <4>1. Len(rob) \in Nat /\ DOMAIN rob = 1 .. Len(rob) /\ 2 \in DOMAIN rob
        BY <2>2, <3>1
      <4>2. Head(Tail(rob)) = rob[2] /\ Tail(rob) # <<>>
        BY <2>2, <3>1, TailHead
      <4> QED
        BY <3>1, <4>1, <4>2 DEF Elems
    <3>3. rob[2] # x
      <4>1. NoRepeat(rob) /\ 1 \in DOMAIN rob /\ 2 \in DOMAIN rob /\ x = rob[1]
        BY <2>2, <3>1 DEF WindowInv, OnePlace
      <4> HIDE DEF x
      <4> QED
        BY <4>1 DEF NoRepeat
    <3>4. DOMAIN op[rob[2]] = Fields
      BY <3>2, QueuesLive, LiveShape DEF WindowInv
    <3>5. op'[rob[2]].done
      BY <1>3, <2>2, <3>2, <3>3, <3>4 DEF Fields
    <3> QED
      BY <2>2, <3>2, <3>5 DEF HeadDone
  <2> QED
    BY <2>1, <2>2
<1> HIDE DEF x
<1>6. ASSUME NEW y \in Live, y # x
      PROVE  /\ DOMAIN op'[y] = Fields
             /\ \A f \in Fields \ {"lexc"} : op'[y][f] = op[y][f]
  <2>1. y \in Ids /\ DOMAIN op[y] = Fields
    BY LiveShape DEF WindowInv, Live
  <2> QED
    BY <1>3, <1>6, <2>1 DEF Fields
<1>7. DOMAIN op' = Ids /\ op'[x] = Null /\ \A y \in Ids : y \notin Live => op'[y] = Null
  <2>1. load_tbl \subseteq Live
    BY <1>1, QueuesLive DEF WindowInv, Tables
  <2> QED
    BY <1>1, <1>3, <2>1 DEF Live
<1>8. Live' = Live \ {x}
  BY <1>6, <1>7, FieldsNotNull DEF Live
<1>9. ASSUME NEW y \in Live, y # x
      PROVE  /\ op'[y].pc = op[y].pc /\ op'[y].issued = op[y].issued /\ op'[y].cc = op[y].cc
             /\ op'[y].done = op[y].done /\ op'[y].exc = op[y].exc /\ SigOf(y)' = SigOf(y)
  <2>1. /\ op'[y].pc = op[y].pc /\ op'[y].issued = op[y].issued /\ op'[y].cc = op[y].cc
        /\ op'[y].done = op[y].done /\ op'[y].exc = op[y].exc
    BY <1>6, <1>9 DEF Fields
  <2> QED
    BY <2>1 DEF SigOf, InsnOf
<1>10. Shape'
  <2>1. \A y \in Ids : op'[y] = Null \/ DOMAIN op'[y] = Fields
    BY <1>6, <1>7
  <2> QED
    BY <1>2, <1>4, <1>7, <2>1 DEF WindowInv, Shape
<1>11. OnePlace'
  BY <1>1, <1>2, <1>4, <1>8 DEF WindowInv, OnePlace
<1>12. Unissued'
  BY <1>2, <1>8, <1>9 DEF WindowInv, Unissued
<1>13. Waiting' /\ Tables' /\ InFlight'
  BY <1>1, <1>2, <1>4, <1>9, QueuesLive DEF WindowInv, Waiting, Tables, InFlight
<1>14. Recovery'
  BY <1>1, <1>4 DEF WindowInv, Recovery
<1> QED
  BY <1>5, <1>10, <1>11, <1>12, <1>13, <1>14 DEF WindowInv

(* The recovery drops the rob and the accesses in flight; at once or when  *)
(* it ends, all the rest goes too.                                         *)
LEMMA NukeWindow ==
    ASSUME WindowInv, Nuke
    PROVE  WindowInv'
<1>1. rob' = <<>> /\ inflight' = {} /\ turn' \in 1 .. 8
  BY Turns DEF WindowInv, Shape, Nuke, nuke_inflight
<1>2. CASE ClearWindow
  BY <1>1, <1>2, SizesAssumption
  DEF ClearWindow, WindowInv, Shape, OnePlace, NoRepeat, Elems, Live, Unissued, Waiting,
      Tables, InFlight, HeadDone, Recovery
<1>3. CASE ~ (FlashRestart \/ rob = <<>>)
  <2>1. /\ nuke' = TRUE /\ rpc' = "sleep"
        /\ op' = [x \in Ids |-> IF x \in Elems(rob) THEN Null ELSE op[x]]
        /\ UNCHANGED <<fetch_queue, decode_queue, rs>>
    BY <1>3 DEF Nuke, RangeSet, Elems
  <2>2. Live' = Live \ Elems(rob)
    BY <2>1 DEF Live
  <2>3. Shape'
    BY <1>1, <2>1, SizesAssumption DEF WindowInv, Shape
  <2>4. OnePlace'
    BY <1>1, <2>1, <2>2 DEF WindowInv, OnePlace, NoRepeat, Elems
  <2>5. Unissued'
    BY <2>1, <2>2, QueuesLive DEF WindowInv, Unissued
  <2>6. Waiting' /\ Tables' /\ InFlight' /\ HeadDone' /\ Recovery'
    BY <1>1, <2>1 DEF Waiting, Tables, InFlight, HeadDone, Recovery
  <2> QED
    BY <2>3, <2>4, <2>5, <2>6 DEF WindowInv
<1> QED
  BY <1>2, <1>3 DEF Nuke

(* The recovery sleeps, and clears the window when it wakes up.            *)
LEMMA RecoverySleepWindow ==
    ASSUME WindowInv, RecoverySleep
    PROVE  WindowInv'
<1>1. rob = <<>> /\ inflight = {} /\ UNCHANGED <<rob, inflight>> /\ turn' \in 1 .. 8
  BY Turns DEF WindowInv, Shape, Recovery, RecoverySleep
<1>2. CASE ClearWindow
  BY <1>1, <1>2, SizesAssumption
  DEF ClearWindow, WindowInv, Shape, OnePlace, NoRepeat, Elems, Live, Unissued, Waiting,
      Tables, InFlight, HeadDone, Recovery
<1>3. CASE UNCHANGED <<rpc, op, fetch_queue, decode_queue, rs, load_tbl, store_tbl, nuke>>
  <2>1. HeadDone' /\ Recovery'
    BY <1>1, <1>3 DEF WindowInv, HeadDone, Recovery
  <2> QED
    BY <1>1, <1>3, <2>1, QuietWindow DEF queueVars, windowVars
<1> QED
  BY <1>2, <1>3 DEF RecoverySleep

(* retire() sleeps only on an operation that is complete.                  *)
LEMMA RetireQuietWindow ==
    ASSUME WindowInv,
           \/ RetireIdle \/ RetireException \/ RetireWaitSlot \/ ExceptionBegin
           \/ ExceptionWaitSlot \/ DelaySlotException \/ RetireEnd
    PROVE  WindowInv'
<1> USE DEF RetireMoves, queueVars
<1>0. turn \in 1 .. 8 /\ HeadDone /\ Recovery
  BY DEF WindowInv, Shape
<1>1. turn' \in 1 .. 8 /\ UNCHANGED <<op, queueVars, windowVars, nuke>>
  BY <1>0, Turns DEF RetireIdle, RetireException, RetireWaitSlot, ExceptionBegin,
     ExceptionWaitSlot, DelaySlotException, RetireEnd
<1>2. Recovery'
  BY <1>0, <1>1 DEF Recovery, RetireIdle, RetireException, RetireWaitSlot, ExceptionBegin,
     ExceptionWaitSlot, DelaySlotException, RetireEnd
<1>3. HeadDone'
  <2>1. CASE RetireIdle \/ RetireEnd
    BY <2>1 DEF HeadDone, RetireIdle, RetireEnd
  <2>2. CASE RetireException
    BY <1>0, <1>1, <2>2 DEF HeadDone, RetireException, RetireMore, u
  <2>3. CASE RetireWaitSlot
    BY <1>0, <1>1, <2>3 DEF HeadDone, RetireWaitSlot, RetireMore, u
  <2>4. CASE ExceptionBegin
    BY <1>0, <1>1, <2>4 DEF HeadDone, ExceptionBegin
  <2>5. CASE ExceptionWaitSlot \/ DelaySlotException
    BY <1>0, <1>1, <2>5 DEF HeadDone, ExceptionWaitSlot, DelaySlotException
  <2> QED
    BY <2>1, <2>2, <2>3, <2>4, <2>5
<1> QED
  BY <1>1, <1>2, <1>3, QuietWindow

(* Every step keeps the invariant.                                         *)
LEMMA NextWindow ==
    ASSUME WindowInv, [Next]_vars
    PROVE  WindowInv'
<1>0. turn \in 1 .. 8 /\ HeadDone /\ Recovery
  BY DEF WindowInv, Shape
<1>1. CASE RetireOne \/ ExceptionNoSlot \/ ExceptionSlot
  <2>1. rob # <<>> /\ op[Head(rob)].done
    BY <1>0, <1>1 DEF RetireOne, ExceptionNoSlot, ExceptionSlot, HeadDone, RetireMore, u
  <2>2. RetireOp(Head(rob)) /\ rpc' \in {"loop", "nuke"}
    BY <1>1 DEF RetireOne, ExceptionNoSlot, ExceptionSlot
  <2> QED
    BY <2>1, <2>2, RetireOpWindow
<1>2. CASE ExceptionBranch
  <2>1. rob # <<>> /\ op[Head(rob)].done
    BY <1>0, <1>2 DEF ExceptionBranch, HeadDone
  <2>2. RetireOp(Head(rob)) /\ rpc' = "excuu" /\ Len(rob) >= 2 /\ op[rob[2]].done
    BY <1>2 DEF ExceptionBranch, SlotDone, uu
  <2> QED
    BY <2>1, <2>2, RetireOpWindow
<1>3. CASE \/ RetireIdle \/ RetireException \/ RetireWaitSlot \/ ExceptionBegin
           \/ ExceptionWaitSlot \/ DelaySlotException \/ RetireEnd
  BY <1>3, RetireQuietWindow
<1>4. CASE Nuke
  BY <1>4, NukeWindow
<1>5. CASE RecoverySleep
  BY <1>5, RecoverySleepWindow
<1>6. CASE CompleteOne
  BY <1>6, CompleteWindow
<1>7. CASE ExecuteOne
  BY <1>7, ExecuteWindow
<1>8. CASE AllocateOne
  BY <1>8, AllocateWindow
<1>9. CASE DecodeOne
  BY <1>9, DecodeWindow
<1>10. CASE FetchSlot
  <2>1. /\ FetchMore /\ turn' \in 1 .. 8
        /\ PushFetch(delay_slot_npc, Unsigned(delay_slot_npc + 4), FALSE)
    BY <1>0, <1>10, Turns DEF FetchSlot
  <2> QED
    BY <2>1, PushFetchWindow
<1>11. CASE FetchInsn
  <2>1. FetchMore /\ turn' \in 1 .. 8 /\ \E pc, npc, taken : PushFetch(pc, npc, taken)
    BY <1>0, <1>11 DEF FetchInsn
  <2> QED
    BY <2>1, PushFetchWindow
<1>12. CASE CacheTick
  BY <1>12, CacheTickWindow
<1>13. CASE NextCycle
  BY <1>13, NextCycleWindow
<1>14. CASE ThreadYield
  <2>1. turn' \in 1 .. 8 /\ UNCHANGED <<rpc, op, queueVars, windowVars, nuke>>
    BY <1>0, <1>14, Turns DEF ThreadYield
  <2>2. HeadDone' /\ Recovery'
    BY <1>0, <2>1 DEF HeadDone, Recovery, queueVars, windowVars
  <2> QED
    BY <2>1, <2>2, QuietWindow
<1>15. CASE Terminated \/ UNCHANGED vars
  <2>1. turn' \in 1 .. 8 /\ UNCHANGED <<rpc, op, queueVars, windowVars, nuke>>
    BY <1>0, <1>15 DEF Terminated, vars
  <2>2. HeadDone' /\ Recovery'
    BY <1>0, <2>1 DEF HeadDone, Recovery, queueVars, windowVars
  <2> QED
    BY <2>1, <2>2, QuietWindow
<1> QED
  BY <1>1, <1>2, <1>3, <1>4, <1>5, <1>6, <1>7, <1>8, <1>9, <1>10, <1>11, <1>12, <1>13, <1>14, <1>15
  DEF Next, retire

(* The window keeps its shape: see WindowInv.                              *)
THEOREM Window == Spec => []WindowInv
<1>1. Init => WindowInv
  BY InitWindow
<1>2. WindowInv /\ [Next]_vars => WindowInv'
  BY NextWindow
<1> QED
  BY <1>1, <1>2, PTL DEF Spec

(* Outside the recovery no reservation station, load table, store table or *)
(* access of the cache names an operation that has left the rob: the       *)
(* pointers that stall_for_load() and a retiring store follow are live     *)
(* (mips_op.cc:47), and the cache holds no more accesses than the rob has  *)
(* entries (sim_cache.cc:645,665).                                         *)
THEOREM PointersAreLive == Spec => []NoDangling
<1>1. WindowInv => NoDangling
  <2> SUFFICES ASSUME WindowInv, ~ nuke PROVE NoDangling
    BY DEF NoDangling
  <2>1. \A s : RangeSet(s) = Elems(s)
    BY DEF RangeSet, Elems
  <2>2. load_tbl \cup store_tbl \cup inflight \subseteq RangeSet(rob)
    BY <2>1 DEF WindowInv, Tables, InFlight
  <2>3. \A c \in Classes : RangeSet(rs[c]) \subseteq RangeSet(rob)
    BY <2>1 DEF WindowInv, Waiting
  <2>4. UNION {RangeSet(rs[c]) : c \in Classes} \subseteq RangeSet(rob)
    BY <2>3, Zenon
  <2> QED
    BY <2>2, <2>4 DEF NoDangling
<1> QED
  BY <1>1, Window, PTL

(* The l1d never holds more accesses than the rob has entries, the size    *)
(* its in-flight queue is allocated with (sim_cache.cc:645,665).           *)
THEOREM InflightFits == Spec => [](IsFiniteSet(inflight) /\ Cardinality(inflight) <= RobSize)
<1>1. WindowInv => IsFiniteSet(inflight) /\ Cardinality(inflight) <= RobSize
  <2> SUFFICES ASSUME WindowInv PROVE IsFiniteSet(inflight) /\ Cardinality(inflight) <= RobSize
    OBVIOUS
  <2>1. IsFiniteSet(Elems(rob)) /\ Cardinality(Elems(rob)) <= Len(rob) /\ Len(rob) <= RobSize
    BY ElemsBound DEF WindowInv, Shape
  <2>2. inflight \subseteq Elems(rob)
    BY DEF WindowInv, InFlight
  <2>3. /\ IsFiniteSet(inflight) /\ Cardinality(inflight) <= Cardinality(Elems(rob))
    BY <2>1, <2>2, FS_Subset
  <2>4. /\ Cardinality(inflight) \in Nat /\ Cardinality(Elems(rob)) \in Nat
        /\ Len(rob) \in Nat /\ RobSize \in Nat
    BY <2>1, <2>3, FS_CardinalityType, SizesAssumption DEF WindowInv, Shape
  <2> QED
    BY <2>1, <2>3, <2>4
<1> QED
  BY <1>1, Window, PTL

-----------------------------------------------------------------------------
(* What the steps do to the live operations                                *)

(* The step leaves the fields F of the operation x alone.                  *)
Keeps(x, F) == \A f \in F : op'[x][f] = op[x][f]
StateFields == {"pc", "issued", "done", "exc", "cc", "aux"}

(* fetch(), decode() and allocate() move operations and touch nothing of   *)
(* their execution.                                                        *)
LEMMA FrontEndOps ==
    ASSUME WindowInv,
           \/ FetchMore /\ \E pc, npc, taken : PushFetch(pc, npc, taken)
           \/ DecodeOne
           \/ AllocateOne
    PROVE  \A y \in Live : y \in Live' /\ Keeps(y, StateFields)
<1> USE DEF Keeps, StateFields
<1>1. \A y \in Live : y \in Ids /\ DOMAIN op[y] = Fields
  BY LiveShape DEF WindowInv, Live
<1>2. SUFFICES ASSUME NEW x, NEW o, op' = [op EXCEPT ![x] = o],
                      x \in Live => DOMAIN o = Fields /\ \A f \in StateFields : o[f] = op[x][f]
               PROVE  \A y \in Live : y \in Live' /\ Keeps(y, StateFields)
  <2>1. CASE FetchMore /\ \E pc, npc, taken : PushFetch(pc, npc, taken)
    <3>1. PICK o : op' = [op EXCEPT ![FreeId] = o]
      BY <2>1 DEF PushFetch
    <3>2. FreeId \notin Live
      BY <2>1, FreeIdFresh DEF WindowInv, FetchMore
    <3> QED
      BY <1>2, <3>1, <3>2
  <2>2. CASE DecodeOne
    <3>1. PICK x, a : /\ op' = [op EXCEPT ![x] = [op[x] EXCEPT !.age = 0, !.slot = a]]
      <4>1. PICK x, a : op' = [op EXCEPT ![x].age = 0, ![x].slot = a]
        BY <2>2 DEF DecodeOne
      <4>2. op' = [op EXCEPT ![x] = [op[x] EXCEPT !.age = 0, !.slot = a]]
        BY <4>1
      <4> QED
        BY <4>2
    <3>2. x \in Live => LET o == [op[x] EXCEPT !.age = 0, !.slot = a]
                        IN  DOMAIN o = Fields /\ \A f \in StateFields : o[f] = op[x][f]
      BY <1>1 DEF Fields
    <3> QED
      BY <1>2, <3>1, <3>2
  <2>3. CASE AllocateOne
    <3>1. PICK x, a, b, c :
             op' = [op EXCEPT ![x] = [op[x] EXCEPT !.src = a, !.prev = b, !.new = c]]
      <4>1. PICK x, a, b, c : op' = [op EXCEPT ![x].src = a, ![x].prev = b, ![x].new = c]
        BY <2>3 DEF AllocateOne
      <4>2. op' = [op EXCEPT ![x] = [op[x] EXCEPT !.src = a, !.prev = b, !.new = c]]
        BY <4>1
      <4> QED
        BY <4>2
    <3>2. x \in Live => LET o == [op[x] EXCEPT !.src = a, !.prev = b, !.new = c]
                        IN  DOMAIN o = Fields /\ \A f \in StateFields : o[f] = op[x][f]
      BY <1>1 DEF Fields
    <3> QED
      BY <1>2, <3>1, <3>2
  <2> QED
    BY <2>1, <2>2, <2>3
<1>3. ASSUME NEW y \in Live PROVE y \in Live' /\ Keeps(y, StateFields)
  <2>1. y \in Ids /\ DOMAIN op[y] = Fields /\ DOMAIN op = Ids
    BY <1>1 DEF WindowInv, Shape
  <2>2. DOMAIN op'[y] = Fields /\ Keeps(y, StateFields)
    <3>1. CASE y = x
      BY <1>2, <2>1, <3>1
    <3>2. CASE y # x
      BY <1>2, <2>1, <3>2
    <3> QED
      BY <3>1, <3>2
  <2> QED
    BY <2>1, <2>2, FieldsNotNull DEF Live
<1> QED
  BY <1>3

(* complete() makes one operation complete, in its cycle.                  *)
LEMMA CompleteOps ==
    ASSUME WindowInv, CompleteOne
    PROVE  \E x \in Elems(rob) :
             /\ ~ op[x].done /\ op[x].cc = 0
             /\ \A y \in Live :
                   /\ y \in Live' /\ Keeps(y, StateFields \ {"done"})
                   /\ IF y = x THEN op'[y].done ELSE Keeps(y, {"done"})
<1> USE DEF Keeps, StateFields
<1> DEFINE n == Min(Completing)
<1>1. op' = [op EXCEPT ![rob[n]].done = TRUE] /\ Completing # {}
  BY DEF CompleteOne
<1>2. n \in Completing
  <2>1. Completing \in SUBSET Nat
    BY DEF Completing, WindowInv, Shape
  <2> QED
    BY <1>1, <2>1, MinIn
<1> HIDE DEF n
<1>3. PICK x : x = rob[n]
  OBVIOUS
<1>4. x \in Elems(rob) /\ ~ op[x].done /\ op[x].cc = 0
  BY <1>2, <1>3 DEF Completing, Elems
<1>5. ASSUME NEW y \in Live
      PROVE  /\ y \in Live' /\ Keeps(y, StateFields \ {"done"})
             /\ IF y = x THEN op'[y].done ELSE Keeps(y, {"done"})
  <2>1. y \in Ids /\ DOMAIN op[y] = Fields /\ DOMAIN op = Ids
    BY LiveShape DEF WindowInv, Live, Shape
  <2>2. op'[y] = IF y = x THEN [op[x] EXCEPT !.done = TRUE] ELSE op[y]
    BY <1>1, <1>3, <2>1
  <2>3. DOMAIN op'[y] = Fields
    BY <2>1, <2>2
  <2>4. Keeps(y, StateFields \ {"done"}) /\ (IF y = x THEN op'[y].done ELSE Keeps(y, {"done"}))
    BY <2>1, <2>2 DEF Fields
  <2> QED
    BY <2>1, <2>3, <2>4, FieldsNotNull DEF Live
<1> QED
  BY <1>4, <1>5

(* simCache::tick() sets the complete_cycle of the accesses it lets go.    *)
LEMMA CacheTickOps ==
    ASSUME WindowInv, CacheTick
    PROVE  \A y \in Live :
             /\ y \in Live' /\ Keeps(y, {"pc", "issued", "done", "exc"})
             /\ IF y \in inflight /\ op[y].aux = 0 THEN op'[y].cc = 1 /\ y \notin inflight'
                ELSE Keeps(y, {"cc", "aux"}) /\ (y \in inflight => y \in inflight')
<1> SUFFICES ASSUME NEW y \in Live
             PROVE  /\ y \in Live' /\ Keeps(y, {"pc", "issued", "done", "exc"})
                    /\ IF y \in inflight /\ op[y].aux = 0 THEN op'[y].cc = 1 /\ y \notin inflight'
                       ELSE Keeps(y, {"cc", "aux"}) /\ (y \in inflight => y \in inflight')
  OBVIOUS
<1>1. y \in Ids /\ DOMAIN op[y] = Fields
  BY LiveShape DEF WindowInv, Live
<1>2. /\ op'[y] = (IF y \in inflight /\ op[y].aux = 0
                   THEN [op[y] EXCEPT !.cc = 1, !.aux = -1] ELSE op[y])
      /\ inflight' = {x \in inflight : op[x].aux # 0}
  BY <1>1 DEF CacheTick, TickDelay
<1>3. DOMAIN op'[y] = Fields
  BY <1>1, <1>2
<1>4. y \in Live'
  BY <1>1, <1>3, FieldsNotNull DEF Live
<1> QED
  BY <1>1, <1>2, <1>4 DEF Keeps, Fields

(* curr_cycle advances: completions come one cycle closer.                 *)
LEMMA NextCycleOps ==
    ASSUME WindowInv, NextCycle
    PROVE  \A y \in Live :
             /\ y \in Live' /\ Keeps(y, {"pc", "issued", "done", "exc"})
             /\ op'[y].cc = (IF op[y].cc = -1 THEN -1 ELSE op[y].cc - 1)
             /\ op'[y].aux = (IF op[y].aux = -1 THEN -1 ELSE op[y].aux - 1)
<1> SUFFICES ASSUME NEW y \in Live
             PROVE  /\ y \in Live' /\ Keeps(y, {"pc", "issued", "done", "exc"})
                    /\ op'[y].cc = (IF op[y].cc = -1 THEN -1 ELSE op[y].cc - 1)
                    /\ op'[y].aux = (IF op[y].aux = -1 THEN -1 ELSE op[y].aux - 1)
  OBVIOUS
<1> DEFINE dec(n) == IF n = -1 THEN -1 ELSE n - 1
<1>1. y \in Ids /\ DOMAIN op[y] = Fields
  BY LiveShape DEF WindowInv, Live
<1>2. op'[y] = [op[y] EXCEPT !.age = IF @ < 2 THEN @ + 1 ELSE 2, !.cc = dec(@), !.aux = dec(@)]
  BY <1>1 DEF NextCycle
<1>3. DOMAIN op'[y] = Fields
  BY <1>1, <1>2
<1>4. y \in Live'
  BY <1>1, <1>3, FieldsNotNull DEF Live
<1> QED
  BY <1>1, <1>2, <1>4 DEF Keeps, Fields

(* execute() issues one operation; either it knows its complete_cycle,     *)
(* which is yet to come, or the cache holds it.                            *)
LEMMA ExecuteOps ==
    ASSUME WindowInv, ExecuteOne
    PROVE  \E x \in Elems(rob) : \E lat \in Latencies(x) :
             /\ ~ op[x].issued /\ op'[x].issued /\ ~ op'[x].done
             /\ \/ op'[x].cc = -1 /\ op'[x].aux = lat /\ inflight' = inflight \cup {x} /\ UseL1d
                \/ op'[x].cc = lat /\ inflight' = inflight /\ ~ UseL1d
                \/ op'[x].cc \in 1 .. 32 /\ inflight' = inflight
             /\ alloc_blocked' => alloc_blocked \/ (InsnOf(x).k \in Branches /\ op'[x].exc)
             /\ \A y \in Live :
                   /\ y \in Live' /\ Keeps(y, {"pc"})
                   /\ y # x => Keeps(y, StateFields)
<1> DEFINE cc == SchedOrder[Min(Schedulable)]
           xx == rs[cc][Min(ReadyAt(cc))]
<1>1. PICK c, x, val, lat :
        /\ c \in Classes /\ x \in Elems(rs[c]) /\ lat \in Latencies(x)
        /\ op' = [op EXCEPT ![x] = Executed(x, val, lat)]
        /\ inflight' = IF UseL1d /\ c \in {"load", "store"} THEN inflight \cup {x} ELSE inflight
        /\ alloc_blocked' => alloc_blocked \/ (InsnOf(x).k \in Branches /\ op'[x].exc)
        /\ ~ nuke
  <2>1. Schedulable # {}
    BY DEF ExecuteOne
  <2>2. cc \in Classes /\ xx \in Elems(rs[cc]) /\ ~ nuke
    BY <2>1, ScheduledOp
  <2>3. PICK val, lat : lat \in Latencies(xx) /\ op' = [op EXCEPT ![xx] = Executed(xx, val, lat)]
    BY DEF ExecuteOne
  <2>4. /\ inflight' = IF UseL1d /\ cc \in {"load", "store"} THEN inflight \cup {xx} ELSE inflight
        /\ alloc_blocked' => alloc_blocked \/ (InsnOf(xx).k \in Branches /\ op'[xx].exc)
    BY DEF ExecuteOne
  <2> HIDE DEF cc, xx
  <2>5. PICK c, x : c = cc /\ x = xx
    OBVIOUS
  <2> QED
    BY <2>2, <2>3, <2>4, <2>5, Zenon
<1> HIDE DEF cc, xx
<1>2. x \in Elems(rob) /\ ~ op[x].issued /\ SigOf(x).cls = c
  BY <1>1 DEF WindowInv, Waiting
<1>3. x \in Live /\ x \in Ids /\ DOMAIN op[x] = Fields /\ DOMAIN op = Ids /\ ~ op[x].done
  BY <1>2, QueuesLive, LiveShape DEF WindowInv, Shape, Unissued
<1>4. /\ op'[x] = Executed(x, val, lat)
      /\ \A y \in Live : y # x => op'[y] = op[y]
  BY <1>1, <1>3 DEF Live
<1>5. /\ SameButIssued(Executed(x, val, lat), op[x])
      /\ CompletesAfter(Executed(x, val, lat), SigOf(x), lat)
  BY <1>3, ExecutedShape
<1>6. SigOf(x).lat \in 1 .. 32
  BY Decodes, Decode DEF SigOf, InsnOf
<1>7. /\ op'[x].issued /\ ~ op'[x].done /\ op'[x].pc = op[x].pc /\ DOMAIN op'[x] = Fields
  BY <1>3, <1>4, <1>5 DEF SameButIssued
<1>8. \/ op'[x].cc = -1 /\ op'[x].aux = lat /\ inflight' = inflight \cup {x} /\ UseL1d
      \/ op'[x].cc = lat /\ inflight' = inflight /\ ~ UseL1d
      \/ op'[x].cc \in 1 .. 32 /\ inflight' = inflight
  BY <1>1, <1>2, <1>4, <1>5, <1>6 DEF CompletesAfter
<1>9. ASSUME NEW y \in Live
      PROVE  y \in Live' /\ Keeps(y, {"pc"}) /\ (y # x => Keeps(y, StateFields))
  <2>1. y \in Ids /\ DOMAIN op[y] = Fields
    BY LiveShape DEF WindowInv, Live
  <2>2. DOMAIN op'[y] = Fields /\ op'[y].pc = op[y].pc /\ (y # x => op'[y] = op[y])
    BY <1>4, <1>7, <2>1
  <2>3. y \in Live'
    BY <2>1, <2>2, FieldsNotNull DEF Live
  <2> QED
    BY <2>2, <2>3 DEF Keeps
<1> QED
  BY <1>1, <1>2, <1>7, <1>8, <1>9

(* A retiring store may mark loads for a replay; else only the oldest      *)
(* operation changes: it is deleted.                                       *)
LEMMA RetireOps ==
    ASSUME WindowInv, rob # <<>>, op[Head(rob)].done, RetireOp(Head(rob))
    PROVE  /\ Elems(rob)' = Elems(rob) \ {Head(rob)}
           /\ \A y \in Live \ {Head(rob)} : y \in Live' /\ Keeps(y, StateFields)
<1> DEFINE x == Head(rob)
<1>1. Elems(rob)' = Elems(rob) \ {x}
  <2>1. rob' = Tail(rob) /\ rob \in Seq(Ids) /\ NoRepeat(rob)
    BY DEF RetireOp, WindowInv, Shape, OnePlace
  <2> QED
    BY <2>1, TailElems
<1>2. PICK replay \in BOOLEAN :
        op' = [y \in Ids |-> IF y = x THEN Null
                             ELSE IF replay /\ y \in load_tbl
                             THEN [op[y] EXCEPT !.lexc = TRUE] ELSE op[y]]
  <2>1. PICK replay \in BOOLEAN : replay = (Violated(x) # {})
    OBVIOUS
  <2> HIDE DEF x
  <2>2. op' = [y \in Ids |-> IF y = x THEN Null
                             ELSE IF Violated(x) # {} /\ y \in load_tbl
                             THEN [op[y] EXCEPT !.lexc = TRUE] ELSE op[y]]
    BY DEF RetireOp, x
  <2> QED
    BY <2>1, <2>2
<1> HIDE DEF x
<1>3. ASSUME NEW y \in Live, y # x PROVE y \in Live' /\ Keeps(y, StateFields)
  <2>1. y \in Ids /\ DOMAIN op[y] = Fields
    BY LiveShape DEF WindowInv, Live
  <2>2. op'[y] = IF replay /\ y \in load_tbl THEN [op[y] EXCEPT !.lexc = TRUE] ELSE op[y]
    BY <1>2, <1>3, <2>1
  <2>3. DOMAIN op'[y] = Fields /\ Keeps(y, StateFields)
    BY <2>1, <2>2 DEF Keeps, StateFields, Fields
  <2> QED
    BY <2>1, <2>3, FieldsNotNull DEF Live
<1> QED
  BY <1>1, <1>3 DEF x

-----------------------------------------------------------------------------
(* The owners of alloc_blocked and fetch_blocked                           *)

Unblocking == nuke \/ rpc \in {"excuu", "nuke"}
AllocOwner(x) == InsnOf(x).k \in {"sync", "monitor"} \/ (InsnOf(x).k \in Branches /\ op[x].exc)
FetchOwner(x) == InsnOf(x).k = "monitor"

AllocOwned == ~ Unblocking /\ alloc_blocked => \E x \in Elems(rob) : AllocOwner(x)
FetchOwned == ~ Unblocking /\ fetch_blocked => \E x \in Live : FetchOwner(x)

(* alloc_blocked and fetch_blocked, each on its own (ooo_core.cc:91).      *)
LEMMA BlockedHasOwnerParts == BlockedHasOwner <=> AllocOwned /\ FetchOwned
<1>1. RangeSet(rob) = Elems(rob)
  BY DEF RangeSet, Elems
<1> QED
  BY <1>1 DEF BlockedHasOwner, AllocOwned, FetchOwned, Unblocking, AllocOwner, FetchOwner

(* An operation keeps its instruction while it keeps its pc.               *)
LEMMA OwnersKept ==
    ASSUME NEW x, Keeps(x, {"pc"})
    PROVE  /\ FetchOwner(x) => FetchOwner(x)'
           /\ AllocOwner(x) /\ Keeps(x, {"exc"}) => AllocOwner(x)'
           /\ InsnOf(x)' = InsnOf(x)
<1>1. InsnOf(x)' = InsnOf(x)
  BY DEF Keeps, InsnOf
<1> QED
  BY <1>1 DEF Keeps, FetchOwner, AllocOwner

(* A step that sets neither flag and deletes nothing.                      *)
LEMMA OwnedQuiet ==
    ASSUME AllocOwned, FetchOwned, Unblocking => Unblocking',
           alloc_blocked' => alloc_blocked, fetch_blocked' => fetch_blocked,
           Elems(rob) \subseteq Elems(rob)', Elems(rob) \subseteq Live,
           \A y \in Live : y \in Live' /\ Keeps(y, {"pc", "exc"})
    PROVE  AllocOwned' /\ FetchOwned'
<1>1. \A y \in Live : Keeps(y, {"pc"}) /\ Keeps(y, {"exc"})
  BY DEF Keeps
<1>2. AllocOwned'
  BY <1>1, OwnersKept DEF AllocOwned
<1>3. FetchOwned'
  BY <1>1, OwnersKept DEF FetchOwned
<1> QED
  BY <1>2, <1>3

(* fetch() stops behind a monitor call, which is live.                     *)
LEMMA FetchOwns ==
    ASSUME WindowInv, AllocOwned, FetchOwned, NEW pc, NEW npc, NEW taken,
           FetchMore, PushFetch(pc, npc, taken)
    PROVE  AllocOwned' /\ FetchOwned'
<1>1. \A y \in Live : y \in Live' /\ Keeps(y, {"pc"}) /\ Keeps(y, {"exc"})
  BY FrontEndOps DEF Keeps, StateFields
<1>2. UNCHANGED <<rpc, nuke, alloc_blocked, rob>> /\ Elems(rob) \subseteq Live
  BY QueuesLive DEF WindowInv, PushFetch
<1>3. AllocOwned'
  BY <1>1, <1>2, OwnersKept DEF AllocOwned, Unblocking
<1>4. FetchOwned'
  <2> SUFFICES ASSUME fetch_blocked' PROVE \E x \in Live' : FetchOwner(x)'
    BY DEF FetchOwned
  <2>1. FreeId \in Ids /\ DOMAIN op = Ids
    BY FreeIdFresh DEF WindowInv, FetchMore, Shape
  <2>2. op' = [op EXCEPT ![FreeId] = NewOp(pc, npc, taken)] /\ InsnAt(pc).k = "monitor"
    BY DEF PushFetch
  <2>3. op'[FreeId] = NewOp(pc, npc, taken)
    BY <2>1, <2>2
  <2>4. DOMAIN op'[FreeId] = Fields /\ op'[FreeId].pc = pc
    BY <2>3 DEF NewOp, Fields
  <2>5. PICK id : id = FreeId
    OBVIOUS
  <2>6. id \in Live' /\ op'[id].pc = pc
    BY <2>1, <2>4, <2>5, FieldsNotNull DEF Live
  <2>7. FetchOwner(id)'
    BY <2>2, <2>6 DEF FetchOwner, InsnOf
  <2> QED
    BY <2>6, <2>7
<1> QED
  BY <1>3, <1>4

(* allocate() stops behind a sync or a monitor call, which is in the rob.  *)
LEMMA AllocateOwns ==
    ASSUME WindowInv, AllocOwned, FetchOwned, AllocateOne
    PROVE  AllocOwned' /\ FetchOwned'
<1>1. \A y \in Live : y \in Live' /\ Keeps(y, {"pc"})
  BY FrontEndOps DEF Keeps, StateFields
<1>2. FetchOwned'
  BY <1>1, OwnersKept DEF FetchOwned, Unblocking, AllocateOne, fetchVars
<1>3. AllocOwned'
  <2> DEFINE h == Head(decode_queue)
  <2>1. PICK x : x = h
    OBVIOUS
  <2>2. /\ rob' = Append(rob, x) /\ alloc_blocked' = (InsnOf(x).k \in {"sync", "monitor"})
        /\ decode_queue # <<>>
    BY <2>1 DEF AllocateOne, AllocateMore
  <2>3. x \in Live /\ x \in Ids
    BY <2>1, <2>2, TailElems, QueuesLive DEF WindowInv, Shape
  <2>4. x \in Elems(rob)'
    BY <2>2, <2>3, AppendElems DEF WindowInv, Shape
  <2>5. InsnOf(x)' = InsnOf(x)
    BY <1>1, <2>3, OwnersKept
  <2> QED
    BY <2>2, <2>4, <2>5 DEF AllocOwned, AllocOwner
<1> QED
  BY <1>2, <1>3

(* execute() stops allocate() behind a mispredicted branch.                *)
LEMMA ExecuteOwns ==
    ASSUME WindowInv, AllocOwned, FetchOwned, ExecuteOne
    PROVE  AllocOwned' /\ FetchOwned'
<1>1. PICK x \in Elems(rob) :
        /\ ~ op[x].issued
        /\ alloc_blocked' => alloc_blocked \/ (InsnOf(x).k \in Branches /\ op'[x].exc)
        /\ \A y \in Live :
              /\ y \in Live' /\ Keeps(y, {"pc"})
              /\ y # x => Keeps(y, StateFields)
  BY ExecuteOps
<1>2. Elems(rob)' = Elems(rob) /\ Elems(rob) \subseteq Live /\ Unblocking' = Unblocking
      /\ fetch_blocked' = fetch_blocked
  BY QueuesLive DEF WindowInv, ExecuteOne, queueVars, fetchVars, Unblocking, Elems
<1>3. ~ op[x].exc
  BY <1>1, <1>2 DEF WindowInv, Unissued
<1>4. FetchOwned'
  BY <1>1, <1>2, OwnersKept DEF FetchOwned
<1>5. ASSUME NEW y \in Elems(rob), AllocOwner(y) PROVE AllocOwner(y)'
  <2>1. CASE y = x
    <3>1. InsnOf(y).k \in {"sync", "monitor"}
      BY <1>3, <1>5, <2>1 DEF AllocOwner
    <3>2. InsnOf(y)' = InsnOf(y)
      BY <1>1, <1>2, OwnersKept
    <3> QED
      BY <3>1, <3>2 DEF AllocOwner
  <2>2. CASE y # x
    <3>1. Keeps(y, {"pc"}) /\ Keeps(y, {"exc"})
      BY <1>1, <1>2, <2>2 DEF Keeps, StateFields
    <3> QED
      BY <1>5, <3>1, OwnersKept
  <2> QED
    BY <2>1, <2>2
<1>6. AllocOwned'
  <2> SUFFICES ASSUME ~ Unblocking, alloc_blocked' PROVE \E y \in Elems(rob) : AllocOwner(y)'
    BY <1>2 DEF AllocOwned
  <2>1. CASE alloc_blocked
    BY <1>5, <2>1 DEF AllocOwned
  <2>2. CASE InsnOf(x).k \in Branches /\ op'[x].exc
    <3>1. InsnOf(x)' = InsnOf(x)
      BY <1>1, <1>2, OwnersKept
    <3>2. AllocOwner(x)'
      BY <2>2, <3>1 DEF AllocOwner
    <3> QED
      BY <3>2
  <2> QED
    BY <1>1, <2>1, <2>2
<1> QED
  BY <1>4, <1>6

(* A retiring operation releases what it owns: it is no mispredicted       *)
(* branch when no recovery follows, sync and monitor clear alloc_blocked   *)
(* and monitor clears fetch_blocked.                                       *)
LEMMA RetireOwns ==
    ASSUME WindowInv, AllocOwned, FetchOwned, RetireOne
    PROVE  AllocOwned' /\ FetchOwned'
<1> DEFINE h == Head(rob)
<1>1. /\ rob # <<>> /\ op[h].done /\ ~ op[h].exc /\ rpc \in {"loop", "slot"}
      /\ RetireOp(h)
  BY DEF RetireOne, WindowInv, HeadDone, RetireMore, u
<1>2. /\ Elems(rob)' = Elems(rob) \ {h}
      /\ \A y \in Live \ {h} : y \in Live' /\ Keeps(y, StateFields)
  BY <1>1, RetireOps
<1>3. ~ Unblocking
  BY <1>1, OldestDone DEF Unblocking
<1>4. /\ alloc_blocked' => alloc_blocked /\ InsnOf(h).k \notin {"sync", "monitor"}
      /\ fetch_blocked' => fetch_blocked /\ InsnOf(h).k # "monitor"
  BY <1>1 DEF RetireOp, BlocksAlloc
<1>5. Elems(rob) \subseteq Live
  BY QueuesLive DEF WindowInv
<1> HIDE DEF h
<1>6. AllocOwned'
  <2> SUFFICES ASSUME alloc_blocked' PROVE \E x \in Elems(rob)' : AllocOwner(x)'
    BY DEF AllocOwned
  <2>1. PICK x \in Elems(rob) : AllocOwner(x)
    BY <1>3, <1>4 DEF AllocOwned
  <2>2. x # h
    BY <1>1, <1>4, <2>1 DEF AllocOwner
  <2>3. x \in Elems(rob)' /\ Keeps(x, {"pc"}) /\ Keeps(x, {"exc"})
    BY <1>2, <1>5, <2>1, <2>2 DEF Keeps, StateFields
  <2> QED
    BY <2>1, <2>3, OwnersKept
<1>7. FetchOwned'
  <2> SUFFICES ASSUME fetch_blocked' PROVE \E x \in Live' : FetchOwner(x)'
    BY DEF FetchOwned
  <2>1. PICK x \in Live : FetchOwner(x)
    BY <1>3, <1>4 DEF FetchOwned
  <2>2. x # h
    BY <1>4, <2>1 DEF FetchOwner
  <2>3. x \in Live' /\ Keeps(x, {"pc"})
    BY <1>2, <2>1, <2>2 DEF Keeps, StateFields
  <2> QED
    BY <2>1, <2>3, OwnersKept
<1> QED
  BY <1>6, <1>7

(* The steps that set neither flag and delete nothing.                     *)
LEMMA OthersOwn ==
    ASSUME WindowInv, AllocOwned, FetchOwned,
           \/ DecodeOne \/ CompleteOne \/ CacheTick \/ NextCycle \/ ThreadYield
           \/ RetireIdle \/ RetireException \/ RetireWaitSlot \/ ExceptionBegin
           \/ ExceptionWaitSlot \/ DelaySlotException \/ RetireEnd
           \/ Terminated \/ UNCHANGED vars
    PROVE  AllocOwned' /\ FetchOwned'
<1>1. /\ rob' = rob /\ nuke' = nuke
      /\ alloc_blocked' => alloc_blocked
      /\ fetch_blocked' = fetch_blocked
      /\ rpc \in {"excuu", "nuke"} => rpc' = rpc
  <2>1. CASE DecodeOne \/ CompleteOne \/ CacheTick \/ NextCycle \/ ThreadYield
    <3>1. UNCHANGED <<rob, nuke, alloc_blocked, fetch_blocked, rpc>>
      BY <2>1 DEF DecodeOne, CompleteOne, CacheTick, NextCycle, ThreadYield, queueVars, fetchVars
    <3> QED
      BY <3>1, Zenon
  <2>2. CASE \/ RetireIdle \/ RetireException \/ RetireWaitSlot \/ RetireEnd
             \/ ExceptionWaitSlot \/ DelaySlotException
    <3>1. UNCHANGED <<rob, nuke, alloc_blocked, fetch_blocked>> /\ rpc \notin {"excuu", "nuke"}
      BY <2>2 DEF RetireIdle, RetireException, RetireWaitSlot, ExceptionWaitSlot,
         DelaySlotException, RetireEnd, RetireMoves, queueVars, fetchVars
    <3> QED
      BY <3>1, Zenon
  <2>3. CASE ExceptionBegin
    BY <2>3 DEF ExceptionBegin, RetireMoves, queueVars, fetchVars
  <2>4. CASE Terminated \/ UNCHANGED vars
    <3>1. UNCHANGED <<rob, nuke, alloc_blocked, fetch_blocked, rpc>>
      BY <2>4 DEF Terminated, vars, queueVars, fetchVars
    <3> QED
      BY <3>1, Zenon
  <2> QED
    BY <2>1, <2>2, <2>3, <2>4
<1>2. Elems(rob)' = Elems(rob) /\ Elems(rob) \subseteq Live
  BY <1>1, QueuesLive DEF WindowInv, Elems
<1>3. Unblocking => Unblocking'
  BY <1>1 DEF Unblocking
<1>4. ASSUME NEW y \in Live PROVE y \in Live' /\ Keeps(y, {"pc", "exc"})
  <2>1. CASE DecodeOne
    BY <2>1, FrontEndOps DEF Keeps, StateFields
  <2>2. CASE CompleteOne
    BY <2>2, CompleteOps DEF Keeps, StateFields
  <2>3. CASE CacheTick
    BY <2>3, CacheTickOps DEF Keeps
  <2>4. CASE NextCycle
    BY <2>4, NextCycleOps DEF Keeps
  <2>5. CASE op' = op
    BY <2>5 DEF Keeps, Live
  <2>6. \/ DecodeOne \/ CompleteOne \/ CacheTick \/ NextCycle \/ op' = op
    BY DEF ThreadYield, RetireIdle, RetireException, RetireWaitSlot, ExceptionBegin,
       ExceptionWaitSlot, DelaySlotException, RetireEnd, Terminated, RetireMoves, vars
  <2> QED
    BY <2>1, <2>2, <2>3, <2>4, <2>5, <2>6
<1> QED
  BY <1>1, <1>2, <1>3, <1>4, OwnedQuiet

(* Every step keeps the owners.                                            *)
LEMMA NextOwns ==
    ASSUME WindowInv, AllocOwned, FetchOwned, [Next]_vars
    PROVE  AllocOwned' /\ FetchOwned'
<1>1. CASE RetireOne
  BY <1>1, RetireOwns
<1>2. CASE ExceptionNoSlot \/ ExceptionBranch \/ ExceptionSlot
  BY <1>2 DEF ExceptionNoSlot, ExceptionBranch, ExceptionSlot, AllocOwned, FetchOwned, Unblocking
<1>3. CASE Nuke
  BY <1>3 DEF Nuke, ClearWindow, AllocOwned, FetchOwned, Unblocking
<1>4. CASE RecoverySleep
  BY <1>4 DEF RecoverySleep, ClearWindow, AllocOwned, FetchOwned, Unblocking, WindowInv, Recovery
<1>5. CASE ExecuteOne
  BY <1>5, ExecuteOwns
<1>6. CASE AllocateOne
  BY <1>6, AllocateOwns
<1>7. CASE FetchSlot
  BY <1>7, FetchOwns DEF FetchSlot
<1>8. CASE FetchInsn
  <2>1. FetchMore /\ \E pc, npc, taken : PushFetch(pc, npc, taken)
    BY <1>8 DEF FetchInsn
  <2> QED
    BY <2>1, FetchOwns
<1>9. CASE \/ DecodeOne \/ CompleteOne \/ CacheTick \/ NextCycle \/ ThreadYield
           \/ RetireIdle \/ RetireException \/ RetireWaitSlot \/ ExceptionBegin
           \/ ExceptionWaitSlot \/ DelaySlotException \/ RetireEnd
           \/ Terminated \/ UNCHANGED vars
  BY <1>9, OthersOwn
<1> QED
  BY <1>1, <1>2, <1>3, <1>4, <1>5, <1>6, <1>7, <1>8, <1>9 DEF Next, retire

(* No stage is blocked for good: an operation that will clear              *)
(* alloc_blocked (sync and monitor_op::retire(), or the recovery from a    *)
(* mispredicted branch) or fetch_blocked (monitor_op::retire()) is in the  *)
(* window.                                                                 *)
THEOREM NoOrphanBlock == Spec => []BlockedHasOwner
<1>1. Init => AllocOwned /\ FetchOwned
  BY DEF Init, AllocOwned, FetchOwned
<1>2. WindowInv /\ AllocOwned /\ FetchOwned /\ [Next]_vars => AllocOwned' /\ FetchOwned'
  BY NextOwns
<1> QED
  BY <1>1, <1>2, Window, BlockedHasOwnerParts, PTL DEF Spec

-----------------------------------------------------------------------------
(* No operation misses the cycle in which it completes                     *)

(* A step that keeps the accesses and the operations of the rob, but for   *)
(* new ones that have not been executed and for completions.               *)
LEMMA CycleKept ==
    ASSUME CycleInv, turn \in 1 .. 8, turn' \in 1 .. 8,
           turn' \in 3 .. 8 => turn \in 3 .. 8 /\ terminate_sim' = terminate_sim,
           turn' = 8 => turn = 8,
           inflight \cap Elems(rob)' \subseteq inflight', inflight' \subseteq inflight,
           \A x \in inflight' : Keeps(x, {"aux"}),
           \A x \in Elems(rob)' :
              \/ ~ op'[x].issued \/ op'[x].done
              \/ x \in Elems(rob) /\ Keeps(x, {"issued", "done", "cc", "aux"})
    PROVE  CycleInv'
<1> USE DEF Keeps, CycleInv
<1>1. Completes'
  BY DEF Completes
<1>2. NothingNow'
  BY DEF NothingNow
<1>3. NothingOver'
  BY DEF NothingOver
<1> QED
  BY <1>1, <1>2, <1>3

(* The front end.                                                          *)
LEMMA FrontEndCycle ==
    ASSUME WindowInv, CycleInv,
           \/ FetchSlot \/ FetchInsn \/ DecodeOne \/ AllocateOne
    PROVE  CycleInv'
<1>1. \/ FetchMore /\ \E pc, npc, taken : PushFetch(pc, npc, taken)
      \/ DecodeOne
      \/ AllocateOne
  BY DEF FetchSlot, FetchInsn
<1>2. \A y \in Live : y \in Live' /\ Keeps(y, StateFields)
  BY <1>1, FrontEndOps
<1>3. /\ inflight' = inflight /\ terminate_sim' = terminate_sim
      /\ turn \in 4 .. 6 /\ turn' \in 4 .. 7
  <2>1. turn \in 1 .. 8
    BY DEF WindowInv, Shape
  <2>2. CASE FetchSlot \/ FetchInsn
    <3>1. UNCHANGED <<inflight, terminate_sim>> /\ Running("fetch") /\ (Yield \/ turn' = turn)
      BY <2>2 DEF FetchSlot, FetchInsn, PushFetch, windowVars, Stay
    <3> QED
      BY <2>1, <3>1, Turns
  <2>3. CASE DecodeOne \/ AllocateOne
    <3>1. /\ UNCHANGED <<inflight, terminate_sim, turn>>
          /\ Running("decode") \/ Running("allocate")
      BY <2>3 DEF DecodeOne, AllocateOne, windowVars, Stay
    <3> QED
      BY <2>1, <3>1, Turns
  <2> QED
    BY <2>2, <2>3
<1>4. ASSUME NEW x \in Elems(rob)'
      PROVE  \/ ~ op'[x].issued
             \/ x \in Elems(rob) /\ Keeps(x, {"issued", "done", "cc", "aux"})
  <2>1. CASE x \in Elems(rob)
    BY <1>2, <2>1, QueuesLive DEF WindowInv, Keeps, StateFields
  <2>2. CASE x \notin Elems(rob)
    <3>1. AllocateOne
      BY <1>1, <1>4, <2>2 DEF PushFetch, DecodeOne, Elems
    <3>2. rob' = Append(rob, Head(decode_queue)) /\ decode_queue # <<>>
      BY <3>1 DEF AllocateOne, AllocateMore
    <3>3. x = Head(decode_queue)
      <4>1. Head(decode_queue) \in Elems(decode_queue) /\ Elems(decode_queue) \subseteq Ids
        BY <3>2, TailElems, QueuesLive DEF WindowInv, Shape
      <4>2. Elems(rob)' = Elems(rob) \cup {Head(decode_queue)}
        BY <3>2, <4>1, AppendElems DEF WindowInv, Shape
      <4> QED
        BY <1>4, <2>2, <4>2
    <3>4. x \in Elems(decode_queue) /\ x \in Live
      BY <3>2, <3>3, TailElems, QueuesLive DEF WindowInv, Shape
    <3>5. ~ op[x].issued
      BY <2>2, <3>4 DEF WindowInv, Unissued
    <3> QED
      BY <1>2, <3>4, <3>5 DEF Keeps, StateFields
  <2> QED
    BY <2>1, <2>2
<1>5. \A x \in inflight' : Keeps(x, {"aux"})
  BY <1>2, <1>3, QueuesLive DEF WindowInv, InFlight, Keeps, StateFields
<1> QED
  BY <1>3, <1>4, <1>5, CycleKept

(* complete() handles what completes now, and yields when there is nothing *)
(* more.                                                                   *)
LEMMA CompleteCycle ==
    ASSUME WindowInv, CycleInv, CompleteOne
    PROVE  CycleInv'
<1>1. PICK x \in Elems(rob) :
             /\ ~ op[x].done /\ op[x].cc = 0
             /\ \A y \in Live :
                   /\ y \in Live' /\ Keeps(y, StateFields \ {"done"})
                   /\ IF y = x THEN op'[y].done ELSE Keeps(y, {"done"})
  BY CompleteOps
<1>2. inflight' = inflight /\ Elems(rob)' = Elems(rob) /\ turn = 2 /\ turn' = 2
  BY Turns DEF WindowInv, Shape, CompleteOne, queueVars, windowVars, Elems
<1>3. Elems(rob) \subseteq Live /\ inflight \subseteq Elems(rob)
  BY QueuesLive DEF WindowInv, InFlight
<1>4. \A y \in Elems(rob) : op'[y].done \/ Keeps(y, {"issued", "done", "cc", "aux"})
  BY <1>1, <1>3 DEF Keeps, StateFields
<1>5. \A y \in inflight : Keeps(y, {"aux"})
  BY <1>1, <1>3 DEF Keeps, StateFields
<1> QED
  BY <1>2, <1>3, <1>4, <1>5, CycleKept

(* Every op class completes in a later cycle than it is executed in, or is *)
(* given to the cache.                                                     *)
LEMMA ExecuteCycle ==
    ASSUME WindowInv, CycleInv, ExecuteOne
    PROVE  CycleInv'
<1>1. PICK x, lat :
             /\ x \in Elems(rob)
             /\ lat \in Latencies(x)
             /\ \/ op'[x].cc = -1 /\ op'[x].aux = lat /\ inflight' = inflight \cup {x} /\ UseL1d
                \/ op'[x].cc = lat /\ inflight' = inflight /\ ~ UseL1d
                \/ op'[x].cc \in 1 .. 32 /\ inflight' = inflight
             /\ \A y \in Live : y # x => Keeps(y, StateFields)
  BY ExecuteOps
<1>2. lat \in Nat /\ (~ UseL1d => lat # 0)
  BY <1>1, LatsAssumption DEF Latencies
<1>3. Elems(rob)' = Elems(rob) /\ turn = 3 /\ turn' = 3 /\ terminate_sim' = terminate_sim
  <2>1. UNCHANGED <<turn, rob, terminate_sim>> /\ Running("execute")
    BY DEF ExecuteOne, queueVars
  <2> QED
    BY <2>1, Turns DEF WindowInv, Shape, Elems
<1>4. \A y \in Elems(rob) : y # x => Keeps(y, {"issued", "done", "cc", "aux"})
  BY <1>1, QueuesLive DEF WindowInv, Keeps, StateFields
<1>5. Completes'
  BY <1>1, <1>2, <1>3, <1>4 DEF CycleInv, Completes, Keeps
<1>6. NothingNow'
  BY <1>1, <1>2, <1>3, <1>4 DEF CycleInv, NothingNow, Keeps
<1>7. NothingOver'
  BY <1>3 DEF NothingOver
<1> QED
  BY <1>5, <1>6, <1>7 DEF CycleInv

(* simCache::tick() asks for the next cycle, which is yet to come.         *)
LEMMA CacheTickCycle ==
    ASSUME WindowInv, CycleInv, CacheTick
    PROVE  CycleInv'
<1>1. \A y \in Live :
             /\ Keeps(y, {"pc", "issued", "done", "exc"})
             /\ IF y \in inflight /\ op[y].aux = 0 THEN op'[y].cc = 1 /\ y \notin inflight'
                ELSE Keeps(y, {"cc", "aux"}) /\ (y \in inflight => y \in inflight')
  BY CacheTickOps
<1>2. UNCHANGED <<rob, terminate_sim>> /\ turn = 7 /\ ~ terminate_sim
      /\ inflight' = {x \in inflight : op[x].aux # 0}
  <2>1. /\ UNCHANGED <<rob, terminate_sim>> /\ Running("cache") /\ ~ terminate_sim
        /\ inflight' = {x \in inflight : op[x].aux # 0}
    BY DEF CacheTick, queueVars
  <2> QED
    BY <2>1, Turns DEF WindowInv, Shape
<1>3. Elems(rob)' = Elems(rob) /\ Elems(rob) \subseteq Live /\ inflight \subseteq Elems(rob)
  BY <1>2, QueuesLive DEF WindowInv, InFlight, Elems
<1>4. Completes'
  BY <1>1, <1>2, <1>3 DEF CycleInv, Completes, Keeps
<1>5. NothingNow'
  BY <1>1, <1>2, <1>3 DEF CycleInv, NothingNow, Keeps
<1>6. NothingOver'
  BY <1>1, <1>2, <1>3 DEF NothingOver, Keeps
<1> QED
  BY <1>4, <1>5, <1>6 DEF CycleInv

(* When curr_cycle advances nothing is due in the old cycle any more.      *)
LEMMA NextCycleCycle ==
    ASSUME WindowInv, CycleInv, NextCycle
    PROVE  CycleInv'
<1>1. \A y \in Live :
             /\ Keeps(y, {"pc", "issued", "done", "exc"})
             /\ op'[y].cc = (IF op[y].cc = -1 THEN -1 ELSE op[y].cc - 1)
             /\ op'[y].aux = (IF op[y].aux = -1 THEN -1 ELSE op[y].aux - 1)
  BY NextCycleOps
<1>2. UNCHANGED <<rob, inflight>> /\ turn = 8 /\ turn' = 1 /\ ~ terminate_sim
  <2>1. UNCHANGED <<rob, inflight>> /\ Running("cycle_count") /\ ~ terminate_sim /\ Yield
    BY DEF NextCycle, queueVars, windowVars
  <2> QED
    BY <2>1, Turns DEF WindowInv, Shape
<1>3. Elems(rob)' = Elems(rob) /\ Elems(rob) \subseteq Live /\ inflight \subseteq Elems(rob)
  BY <1>2, QueuesLive DEF WindowInv, InFlight, Elems
<1>4. Completes'
  <2> SUFFICES ASSUME NEW x \in Elems(rob), op'[x].issued, ~ op'[x].done
               PROVE  op'[x].cc \in Nat \/ (x \in inflight /\ op'[x].aux \in Nat)
    BY <1>2, <1>3 DEF Completes
  <2>1. op[x].issued /\ ~ op[x].done /\ x \in Live
    BY <1>1, <1>3 DEF Keeps
  <2>2. CASE op[x].cc \in Nat
    <3>1. op[x].cc # 0
      BY <1>2, <2>1 DEF CycleInv, NothingNow
    <3>2. op'[x].cc = op[x].cc - 1
      BY <1>1, <2>1, <2>2
    <3> QED
      BY <2>2, <3>1, <3>2
  <2>3. CASE x \in inflight /\ op[x].aux \in Nat
    <3>1. op[x].aux # 0
      BY <1>2, <2>3 DEF CycleInv, NothingOver
    <3>2. op'[x].aux = op[x].aux - 1
      BY <1>1, <2>1, <2>3
    <3> QED
      BY <2>3, <3>1, <3>2
  <2> QED
    BY <2>1, <2>2, <2>3 DEF CycleInv, Completes
<1>5. NothingNow' /\ NothingOver'
  BY <1>2 DEF NothingNow, NothingOver
<1> QED
  BY <1>4, <1>5 DEF CycleInv

(* complete() and the cache yield when they have nothing to do, or when    *)
(* the simulation is over.                                                 *)
LEMMA YieldCycle ==
    ASSUME WindowInv, CycleInv, ThreadYield
    PROVE  CycleInv'
<1>1. UNCHANGED <<rob, op, inflight, terminate_sim, nuke>> /\ Yield
  BY DEF ThreadYield, queueVars, windowVars
<1>2. turn \in 1 .. 8 /\ turn' = (IF turn = 8 THEN 1 ELSE turn + 1)
  BY <1>1, Turns DEF WindowInv, Shape
<1>3. /\ turn = 2 => Completing = {}
      /\ turn = 7 => terminate_sim
      /\ turn # 1
  <2>1. turn = 2 => Running("complete") /\ ~ Running("fetch") /\ ~ Running("decode")
                    /\ ~ Running("allocate") /\ ~ Running("execute") /\ ~ Running("cache")
                    /\ ~ Running("cycle_count")
    BY <1>2, Turns
  <2>2. turn = 7 => Running("cache") /\ ~ Running("fetch") /\ ~ Running("decode")
                    /\ ~ Running("allocate") /\ ~ Running("execute") /\ ~ Running("complete")
    BY <1>2, Turns
  <2>3. turn # 1
    BY <1>2, Turns DEF ThreadYield
  <2> QED
    BY <2>1, <2>2, <2>3 DEF ThreadYield
<1>4. Completes'
  BY <1>1 DEF CycleInv, Completes, Elems
<1>5. NothingNow'
  <2> SUFFICES ASSUME turn' \in 3 .. 8, ~ terminate_sim, NEW x \in Elems(rob),
                      op[x].issued, ~ op[x].done
               PROVE  op[x].cc # 0
    BY <1>1 DEF NothingNow, Elems
  <2>1. CASE turn = 2
    <3>1. PICK j \in DOMAIN rob : x = rob[j]
      BY DEF Elems
    <3>2. ~ nuke
      <4>1. rob # <<>>
        BY <3>1 DEF WindowInv, Shape
      <4> QED
        BY <4>1 DEF WindowInv, Recovery
    <3> QED
      BY <1>3, <2>1, <3>1, <3>2 DEF Completing
  <2>2. CASE turn # 2
    <3>1. turn \in 3 .. 8
      BY <1>2, <1>3, <2>2
    <3> QED
      BY <3>1 DEF CycleInv, NothingNow
  <2> QED
    BY <2>1, <2>2
<1>6. NothingOver'
  <2>1. turn' = 8 => terminate_sim'
    BY <1>1, <1>2, <1>3
  <2> QED
    BY <2>1 DEF NothingOver
<1> QED
  BY <1>4, <1>5, <1>6 DEF CycleInv

(* retire() runs before complete(): what it leaves in the rob is as it     *)
(* was.                                                                    *)
LEMMA RetireCycle ==
    ASSUME WindowInv, CycleInv, retire
    PROVE  CycleInv'
<1>0. turn \in 1 .. 8 /\ HeadDone /\ Recovery
  BY DEF WindowInv, Shape
<1>1. turn = 1 /\ turn' \in 1 .. 2
  <2>1. Running("retire") /\ (Yield \/ turn' = turn)
    BY DEF retire, RetireIdle, RetireException, RetireWaitSlot, RetireOne, ExceptionBegin,
       ExceptionNoSlot, ExceptionWaitSlot, DelaySlotException, ExceptionBranch, ExceptionSlot,
       Nuke, RecoverySleep, RetireEnd, RetireOp
  <2> QED
    BY <1>0, <2>1, Turns
<1>2. CASE RetireOne \/ ExceptionNoSlot \/ ExceptionBranch \/ ExceptionSlot
  <2>1. rob # <<>> /\ op[Head(rob)].done /\ RetireOp(Head(rob))
    BY <1>0, <1>2 DEF RetireOne, ExceptionNoSlot, ExceptionBranch, ExceptionSlot, HeadDone,
       RetireMore, u
  <2>2. /\ Elems(rob)' = Elems(rob) \ {Head(rob)}
        /\ \A y \in Live \ {Head(rob)} : y \in Live' /\ Keeps(y, StateFields)
    BY <2>1, RetireOps
  <2>3. inflight' = inflight /\ Head(rob) \notin inflight
    BY <2>1, OldestDone DEF RetireOp
  <2>4. \A x \in Elems(rob)' : x \in Elems(rob) /\ Keeps(x, {"issued", "done", "cc", "aux"})
    BY <2>2, QueuesLive DEF WindowInv, Keeps, StateFields
  <2>5. \A x \in inflight : Keeps(x, {"aux"})
    BY <2>2, <2>3, QueuesLive DEF WindowInv, InFlight, Keeps, StateFields
  <2> QED
    BY <1>1, <2>3, <2>4, <2>5, CycleKept
<1>3. CASE \/ RetireIdle \/ RetireException \/ RetireWaitSlot \/ ExceptionBegin
           \/ ExceptionWaitSlot \/ DelaySlotException \/ RetireEnd
  <2>1. UNCHANGED <<op, rob, inflight>>
    BY <1>3 DEF RetireIdle, RetireException, RetireWaitSlot, ExceptionBegin, ExceptionWaitSlot,
       DelaySlotException, RetireEnd, RetireMoves, queueVars, windowVars
  <2>2. Elems(rob)' = Elems(rob)
    BY <2>1 DEF Elems
  <2> QED
    BY <1>1, <2>1, <2>2, CycleKept DEF Keeps
<1>4. CASE Nuke \/ RecoverySleep
  <2>1. rob' = <<>>
    BY <1>0, <1>4 DEF Nuke, RecoverySleep, Recovery
  <2>2. Elems(rob)' = {}
    BY <2>1 DEF Elems
  <2> QED
    BY <1>1, <2>2 DEF CycleInv, Completes, NothingNow, NothingOver
<1> QED
  BY <1>2, <1>3, <1>4 DEF retire

(* complete() tests complete_cycle for equality with the current cycle,    *)
(* and still no operation that was executed ever misses its cycle: the     *)
(* threads run in an order in which whatever is scheduled is in the        *)
(* future when complete() has had its turn (ooo_core.cc's complete() and   *)
(* simCache::tick()).                                                      *)
THEOREM EveryCompletionIsSeen == Spec => []NoMissedCompletion
<1>1. Init => CycleInv
  BY DEF Init, CycleInv, Completes, NothingNow, NothingOver, Elems
<1>2. ASSUME WindowInv, CycleInv, [Next]_vars PROVE CycleInv'
  <2>1. CASE retire
    BY <1>2, <2>1, RetireCycle
  <2>2. CASE CompleteOne
    BY <1>2, <2>2, CompleteCycle
  <2>3. CASE ExecuteOne
    BY <1>2, <2>3, ExecuteCycle
  <2>4. CASE AllocateOne \/ DecodeOne \/ FetchSlot \/ FetchInsn
    BY <1>2, <2>4, FrontEndCycle
  <2>5. CASE CacheTick
    BY <1>2, <2>5, CacheTickCycle
  <2>6. CASE NextCycle
    BY <1>2, <2>6, NextCycleCycle
  <2>7. CASE ThreadYield
    BY <1>2, <2>7, YieldCycle
  <2>8. CASE Terminated \/ UNCHANGED vars
    BY <1>2, <2>8 DEF Terminated, vars, queueVars, windowVars, CycleInv, Completes, NothingNow,
       NothingOver, Elems
  <2> QED
    BY <1>2, <2>1, <2>2, <2>3, <2>4, <2>5, <2>6, <2>7, <2>8 DEF Next
<1>3. CycleInv /\ WindowInv => NoMissedCompletion
  BY DEF CycleInv, Completes, NoMissedCompletion, Elems
<1> QED
  BY <1>1, <1>2, <1>3, Window, PTL DEF Spec

-----------------------------------------------------------------------------
(* The renaming: the invariant                                             *)

(* Only loads are marked for a replay, only jumps, branches and host calls *)
(* have an exception; the load table holds loads.                          *)
Marks ==
    /\ \A x \in Live : /\ op[x].lexc => SigOf(x).cls = "load"
                       /\ op[x].exc => SigOf(x).cls \notin {"load", "store"}
    /\ ~ nuke => \A x \in load_tbl : SigOf(x).cls = "load"
(* What retire() is about to retire will not be replayed.                  *)
HeadMarks ==
    /\ rpc \in {"slot", "excslot", "excuu"} => ~ op[Head(rob)].lexc
    /\ rpc = "excslot" => op[Head(rob)].exc

MarkInv == Marks /\ HeadMarks

(* The table after registers d are renamed to n.                           *)
Over(t, d, n) ==
    [r \in Regs |-> IF \E k \in DOMAIN d : d[k] = r
                    THEN n[CHOOSE k \in DOMAIN d : d[k] = r] ELSE t[r]]
(* The operation o with sources and destinations s was renamed at table t. *)
RenamedAt(o, s, t) ==
    /\ o.src = [r \in s.src |-> t[r]]
    /\ o.prev = [k \in DOMAIN s.dst |-> t[s.dst[k]]]
    /\ o.new \in [DOMAIN s.dst -> Pregs]

RangeOf(f) == {f[x] : x \in DOMAIN f}
Injective(f) == \A x, y \in DOMAIN f : f[x] = f[y] => x = y

(* x was renamed at table t and left the table n.                          *)
Renamed(x, t, n) ==
    /\ RenamedAt(op[x], SigOf(x), t)
    /\ n = Over(t, SigOf(x).dst, op[x].new)

(* A table before and after each operation of the rob: the retired one     *)
(* before the oldest, the speculative one after the youngest.              *)
IsChain(T) ==
    /\ T \in [1 .. Len(rob) + 1 -> [Regs -> Pregs]]
    /\ T[1] = rat_retire /\ T[Len(rob) + 1] = rat
    /\ \A j \in 1 .. Len(rob) : Renamed(rob[j], T[j], T[j + 1])
Chained == \E T : IsChain(T)

(* The physical registers x has taken, and all that are taken.             *)
Taken(x) == RangeOf(op[x].new)
TakenAll == UNION {Taken(x) : x \in Elems(rob)}

(* No physical register has two owners.                                    *)
OneOwner ==
    /\ Injective(rat_retire)
    /\ \A x \in Elems(rob) : Injective(op[x].new) /\ Taken(x) \cap RangeOf(rat_retire) = {}
    /\ \A x, y \in Elems(rob) : x # y => Taken(x) \cap Taken(y) = {}

(* The in-use vectors.                                                     *)
InUse ==
    /\ freevec = RangeOf(rat_retire) \cup TakenAll
    /\ freevec_retire = RangeOf(rat_retire)

(* The valid bits, at retirement and of the operation x.                   *)
ValidOf(x) ==
    /\ op[x].issued => RangeOf(op[x].src) \subseteq valid
    /\ ~ op[x].done \/ SigOf(x).at = "retire" => Taken(x) \cap valid = {}
    /\ op[x].done /\ SigOf(x).at # "retire" /\ ~ op[x].lexc => Taken(x) \subseteq valid
ValidBits == RangeOf(rat_retire) \subseteq valid /\ \A x \in Elems(rob) : ValidOf(x)

RenameInv == Chained /\ OneOwner /\ InUse /\ ValidBits

-----------------------------------------------------------------------------
(* What an instruction reads and writes                                    *)

(* What decode_insn() says of destinations and of the method that writes   *)
(* them: none, one, or two neighbours in one register file.                *)
DstShape(d) ==
    \/ d = <<>>
    \/ \E f, n : d = <<<<f, n>>>>
    \/ \E f, n : d = <<<<f, n>>, <<f, n + 1>>>>

(* The destinations of a floating-point result.                            *)
LEMMA FpShape == \A k, n : DstShape(Fp(k, n))
BY DEF Fp, DstShape, CPR1

(* Every mnemonic: its destinations, and which method of its class writes  *)
(* them.                                                                   *)
LEMMA DecodeDst ==
    ASSUME NEW i, i.k \in Mnemonics
    PROVE  LET s == decode_insn(i)
           IN  /\ DstShape(s.dst)
               /\ s.at \in {"execute", "complete", "retire"}
               /\ s.at = "complete" <=> s.cls = "load"
               /\ s.at = "retire" <=> i.k = "monitor"
<1> USE DEF Branches, Likely, NonLikely, Jumps, IType, LoadOps, StoreOps, ConstShift, RType,
            CondMove, LoHi, MultDiv, FpCmp, FpCondMove, FpRegMove, ToSingle, ToDouble,
            FpArithD, FpArithS, Alu, Sig
<1> DEFINE Goal(s) == /\ DstShape(s.dst)
                      /\ s.at \in {"execute", "complete", "retire"}
                      /\ s.at = "complete" <=> s.cls = "load"
                      /\ s.at = "retire" <=> i.k = "monitor"
<1>a. \A f, n : DstShape(<<<<f, n>>>>) /\ DstShape(<<<<f, n>>, <<f, n + 1>>>>)
  BY DEF DstShape
<1>b. DstShape(<<>>) /\ \A b, n : DstShape(IF b THEN <<>> ELSE <<GPR(n)>>)
  BY <1>a DEF DstShape, GPR
<1>c. DstShape(<<LO, HI>>)
  <2>1. <<LO, HI>> = <<<<"gpr", 32>>, <<"gpr", 32 + 1>>>>
    BY DEF LO, HI, GPR
  <2> QED
    BY <1>a, <2>1
<1>d. \A n : /\ DstShape(<<GPR(n)>>) /\ DstShape(<<CPR0(n)>>) /\ DstShape(<<CPR1(n)>>)
             /\ DstShape(<<CPR1(n), CPR1(n + 1)>>)
  BY <1>a DEF GPR, CPR0, CPR1
<1>e. DstShape(<<LO>>) /\ DstShape(<<HI>>) /\ DstShape(<<CR25>>)
  BY <1>a DEF LO, HI, GPR, CR25
<1> HIDE DEF Fp
<1>1. CASE i.k \in ConstShift \cup RType \cup CondMove \cup LoHi \cup MultDiv
                  \cup {"teq", "jr", "jalr", "break", "sync", "monitor"}
  <2>1. decode_insn(i) = decode_rtype_insn(i)
    BY <1>1 DEF decode_insn
  <2>2. CASE i.k \in ConstShift
    <3>1. decode_insn(i) = rtype_const_shift_alu_op(i)
      BY <2>1, <2>2 DEF decode_rtype_insn
    <3>2. DstShape(decode_insn(i).dst)
      BY <1>b, <1>d, <3>1 DEF rtype_const_shift_alu_op
    <3> QED
      BY <2>2, <3>1, <3>2 DEF rtype_const_shift_alu_op
  <2>3. CASE i.k \in RType
    <3>1. decode_insn(i) = rtype_alu_op(i)
      BY <2>1, <2>3 DEF decode_rtype_insn
    <3>2. DstShape(decode_insn(i).dst)
      BY <1>b, <1>d, <3>1 DEF rtype_alu_op
    <3> QED
      BY <2>3, <3>1, <3>2 DEF rtype_alu_op
  <2>4. CASE i.k \in CondMove
    <3>1. decode_insn(i) = movci_op(i)
      BY <2>1, <2>4 DEF decode_rtype_insn
    <3>2. decode_insn(i).dst = <<GPR(i.rd)>>
      BY <3>1 DEF movci_op
    <3>3. DstShape(decode_insn(i).dst)
      BY <1>d, <3>2
    <3> QED
      BY <2>4, <3>1, <3>3 DEF movci_op
  <2>5. CASE i.k \in LoHi
    <3>1. decode_insn(i) = lo_hi_move(i)
      BY <2>1, <2>5 DEF decode_rtype_insn
    <3>2. decode_insn(i).dst \in {<<GPR(i.rd)>>, <<LO>>, <<HI>>}
      BY <2>5, <3>1 DEF lo_hi_move
    <3>3. DstShape(decode_insn(i).dst)
      BY <1>d, <1>e, <3>2
    <3> QED
      BY <2>5, <3>1, <3>3 DEF lo_hi_move
  <2>6. CASE i.k \in MultDiv
    <3>1. decode_insn(i) = mult_div_op(i)
      BY <2>1, <2>6 DEF decode_rtype_insn
    <3>2. DstShape(decode_insn(i).dst)
      BY <1>c, <3>1 DEF mult_div_op
    <3> QED
      BY <2>6, <3>1, <3>2 DEF mult_div_op
  <2>7. CASE i.k \in {"teq"}
    <3>1. decode_insn(i) = teq_op(i)
      BY <2>1, <2>7 DEF decode_rtype_insn
    <3>2. DstShape(decode_insn(i).dst)
      BY <1>b, <3>1 DEF teq_op
    <3> QED
      BY <2>7, <3>1, <3>2 DEF teq_op
  <2>8. CASE i.k \in {"jr", "jalr"}
    <3>1. decode_insn(i) = jump_op(i)
      BY <2>1, <2>8 DEF decode_rtype_insn
    <3>2. DstShape(decode_insn(i).dst)
      BY <1>b, <1>d, <3>1 DEF jump_op
    <3> QED
      BY <2>8, <3>1, <3>2 DEF jump_op
  <2>9. CASE i.k \in {"break"}
    <3>1. decode_insn(i) = break_op(i)
      BY <2>1, <2>9 DEF decode_rtype_insn
    <3>2. DstShape(decode_insn(i).dst)
      BY <1>b, <3>1 DEF break_op
    <3> QED
      BY <2>9, <3>1, <3>2 DEF break_op
  <2>10. CASE i.k \in {"sync"}
    <3>1. decode_insn(i) = sync_op(i)
      BY <2>1, <2>10 DEF decode_rtype_insn
    <3>2. DstShape(decode_insn(i).dst)
      BY <1>b, <3>1 DEF sync_op
    <3> QED
      BY <2>10, <3>1, <3>2 DEF sync_op
  <2>11. CASE i.k \in {"monitor"}
    <3>1. decode_insn(i) = monitor_op(i)
      BY <2>1, <2>11 DEF decode_rtype_insn
    <3>2. decode_insn(i).dst = <<GPR(2)>>
      BY <3>1 DEF monitor_op
    <3>3. DstShape(decode_insn(i).dst)
      BY <1>d, <3>2
    <3> QED
      BY <2>11, <3>1, <3>3 DEF monitor_op
  <2> QED
    BY <1>1, <2>2, <2>3, <2>4, <2>5, <2>6, <2>7, <2>8, <2>9, <2>10, <2>11
<1>2. CASE i.k \in Branches \cup IType \cup LoadOps \cup StoreOps
                  \cup {"lui", "lwc1", "ldc1", "swc1", "sdc1"}
  <2>1. decode_insn(i) = decode_itype_insn(i)
    BY <1>2 DEF decode_insn
  <2>2. DstShape(decode_insn(i).dst)
    BY <1>b, <1>d, <1>e, <1>2, <2>1, FpShape
    DEF decode_itype_insn, branch_op, itype_alu_op, itype_lui_op, load_op,
        store_op, fp_load_op, fp_store_op
  <2> QED
    BY <1>2, <2>1, <2>2
    DEF decode_itype_insn, branch_op, itype_alu_op, itype_lui_op, load_op,
        store_op, fp_load_op, fp_store_op
<1>3. CASE i.k \in {"mfc1", "mtc1"} \cup FpCmp \cup FpCondMove \cup FpRegMove \cup ToSingle
                  \cup ToDouble \cup FpArithD \cup FpArithS
  <2>1. decode_insn(i) = decode_coproc1_insn(i)
    BY <1>3 DEF decode_insn
  <2>2. decode_insn(i).dst \in {<<GPR(i.rt)>>, <<CPR1(i.rd)>>, <<CR25>>, Fp(i.k, i.sa),
                                <<CPR1(i.sa)>>, <<CPR1(i.sa), CPR1(i.sa + 1)>>}
    BY <1>3, <2>1
    DEF decode_coproc1_insn, mfc1, mtc1, fp_cmp, fmovc_op, fmov_op,
        cvts_truncw_op, cvtd_op, fp_arith_op
  <2>3. DstShape(decode_insn(i).dst)
    BY <1>d, <1>e, <2>2, FpShape
  <2> QED
    BY <1>3, <2>1, <2>3
    DEF decode_coproc1_insn, mfc1, mtc1, fp_cmp, fmovc_op, fmov_op,
        cvts_truncw_op, cvtd_op, fp_arith_op
<1>4. CASE i.k \in {"madd", "msub", "mul", "clz", "ext", "ins", "seb", "seh", "mtc0", "j", "jal",
                   "madd.d", "msub.d", "madd.s", "msub.s"}
  BY <1>b, <1>c, <1>d, <1>4, FpShape, ZenonT(40)
  DEF decode_insn, decode_special2_insn, decode_special3_insn, mult_div_op, mul_op,
        clz_op, ext_op, ins_op, se_op, mtc0, jump_op, fp_fma
<1> QED
  BY <1>1, <1>2, <1>3, <1>4 DEF Mnemonics

(* A decoded instruction names modelled registers, its destinations are    *)
(* different registers of one file, at most two.                           *)
SigShape(s) ==
    /\ s.src \subseteq Regs
    /\ s.dst \in Seq(Regs) /\ NoRepeat(s.dst) /\ Len(s.dst) <= 2
    /\ \A j, k \in DOMAIN s.dst : s.dst[j][1] = s.dst[k][1]
    /\ s.at \in {"execute", "complete", "retire"}
    /\ s.at = "complete" <=> s.cls = "load"

(* Every instruction of the text decodes to such a signature.              *)
LEMMA SigsShaped == \A a : SigShape(decode_insn(InsnAt(a)))
<1> SUFFICES ASSUME NEW a PROVE SigShape(decode_insn(InsnAt(a)))
  OBVIOUS
<1> DEFINE s == decode_insn(InsnAt(a))
<1>1. PICK b \in DOMAIN Program \cup {-1} : InsnAt(a) = InsnAt(b)
  BY RegsAssumption DEF InsnAt
<1>2. s.src \subseteq Regs /\ RangeSet(s.dst) \subseteq Regs
  BY <1>1, RegsAssumption
<1>3. /\ DstShape(s.dst) /\ s.at \in {"execute", "complete", "retire"}
      /\ s.at = "complete" <=> s.cls = "load"
  BY Decodes, DecodeDst
<1> HIDE DEF s
<1>4. \A j \in DOMAIN s.dst : s.dst[j] \in Regs
  BY <1>2 DEF RangeSet
<1>5. s.dst \in Seq(Regs) /\ NoRepeat(s.dst) /\ Len(s.dst) <= 2
      /\ \A j, k \in DOMAIN s.dst : s.dst[j][1] = s.dst[k][1]
  <2>1. CASE s.dst = <<>>
    BY <2>1 DEF NoRepeat
  <2>2. ASSUME NEW f, NEW n, s.dst = <<<<f, n>>>> PROVE <1>5
    <3>1. <<f, n>> \in Regs
      BY <1>4, <2>2
    <3> QED
      BY <2>2, <3>1 DEF NoRepeat
  <2>3. ASSUME NEW f, NEW n, s.dst = <<<<f, n>>, <<f, n + 1>>>> PROVE <1>5
    <3>1. <<f, n>> \in Regs /\ <<f, n + 1>> \in Regs
      BY <1>4, <2>3
    <3>2. n \in Nat
      BY <3>1, RegsAssumption
    <3>3. <<f, n>> # <<f, n + 1>>
      BY <3>2
    <3> QED
      BY <2>3, <3>1, <3>3 DEF NoRepeat
  <2> QED
    BY <1>3, <2>1, <2>2, <2>3 DEF DstShape
<1> QED
  BY <1>2, <1>3, <1>5 DEF SigShape, s

-----------------------------------------------------------------------------
(* Tables                                                                  *)

(* Renaming registers d to n: the table stays one, without repetitions,    *)
(* and its values lose those of d and win n.                               *)
LEMMA OverTable ==
    ASSUME NEW t \in [Regs -> Pregs], NEW d \in Seq(Regs), NoRepeat(d),
           NEW n \in [DOMAIN d -> Pregs]
    PROVE  /\ Over(t, d, n) \in [Regs -> Pregs]
           /\ \A k \in DOMAIN d : Over(t, d, n)[d[k]] = n[k]
           /\ \A r \in Regs : (\A k \in DOMAIN d : d[k] # r) => Over(t, d, n)[r] = t[r]
<1>1. \A r \in Regs : (\E k \in DOMAIN d : d[k] = r) =>
            LET c == CHOOSE k \in DOMAIN d : d[k] = r IN c \in DOMAIN d /\ d[c] = r
  OBVIOUS
<1>2. \A k \in DOMAIN d : d[k] \in Regs
  OBVIOUS
<1>3. \A k \in DOMAIN d : (CHOOSE j \in DOMAIN d : d[j] = d[k]) = k
  BY <1>1, <1>2 DEF NoRepeat
<1>4. ASSUME NEW k \in DOMAIN d PROVE Over(t, d, n)[d[k]] = n[k]
  BY <1>2, <1>3 DEF Over
<1>5. ASSUME NEW r \in Regs PROVE Over(t, d, n)[r] \in Pregs
  BY <1>1 DEF Over
<1>6. Over(t, d, n) \in [Regs -> Pregs]
  BY <1>5 DEF Over
<1>7. ASSUME NEW r \in Regs, \A k \in DOMAIN d : d[k] # r PROVE Over(t, d, n)[r] = t[r]
  BY <1>7 DEF Over
<1> QED
  BY <1>4, <1>6, <1>7

(* Renaming to fresh registers keeps a table without repetitions: its      *)
(* values lose those that the destinations had and win the new ones.       *)
LEMMA OverRange ==
    ASSUME NEW t \in [Regs -> Pregs], NEW d \in Seq(Regs), NoRepeat(d),
           NEW n \in [DOMAIN d -> Pregs], Injective(t), Injective(n),
           RangeOf(n) \cap RangeOf(t) = {}
    PROVE  LET o == Over(t, d, n)
           IN  /\ Injective(o)
               /\ RangeOf(o) = (RangeOf(t) \ {t[d[k]] : k \in DOMAIN d}) \cup RangeOf(n)
<1> DEFINE o == Over(t, d, n)
<1>1. /\ o \in [Regs -> Pregs]
      /\ \A k \in DOMAIN d : o[d[k]] = n[k]
      /\ \A r \in Regs : (\A k \in DOMAIN d : d[k] # r) => o[r] = t[r]
  BY OverTable
<1> HIDE DEF o
<1>2. \A k \in DOMAIN d : d[k] \in Regs
  OBVIOUS
<1>3. \A k \in DOMAIN d : \A r \in Regs : n[k] # t[r]
  BY DEF RangeOf
<1>4. Injective(o)
  BY <1>1, <1>2, <1>3 DEF Injective
<1>5. RangeOf(o) \subseteq (RangeOf(t) \ {t[d[k]] : k \in DOMAIN d}) \cup RangeOf(n)
  <2> SUFFICES ASSUME NEW r \in Regs
               PROVE  o[r] \in (RangeOf(t) \ {t[d[k]] : k \in DOMAIN d}) \cup RangeOf(n)
    BY <1>1 DEF RangeOf
  <2>1. CASE \E k \in DOMAIN d : d[k] = r
    BY <1>1, <2>1 DEF RangeOf
  <2>2. CASE \A k \in DOMAIN d : d[k] # r
    BY <1>1, <1>2, <2>2 DEF RangeOf, Injective
  <2> QED
    BY <2>1, <2>2
<1>6. (RangeOf(t) \ {t[d[k]] : k \in DOMAIN d}) \cup RangeOf(n) \subseteq RangeOf(o)
  <2>1. ASSUME NEW k \in DOMAIN d PROVE n[k] \in RangeOf(o)
    BY <1>1, <1>2 DEF RangeOf
  <2>2. ASSUME NEW r \in Regs, \A k \in DOMAIN d : t[r] # t[d[k]] PROVE t[r] \in RangeOf(o)
    BY <1>1, <2>2 DEF RangeOf
  <2> QED
    BY <2>1, <2>2 DEF RangeOf
<1> QED
  BY <1>4, <1>5, <1>6 DEF o

(* The n-th register in the n-th physical one: each file has enough.       *)
LEMMA InitRatTable == InitRat \in [Regs -> Pregs] /\ Injective(InitRat)
<1> DEFINE File(f) == {q \in Regs : q[1] = f}
           Below(r) == {q \in Regs : q[1] = r[1] /\ q[2] < r[2]}
<1>1. \A r \in Regs : InitRat[r] = <<r[1], Cardinality(Below(r))>>
  BY DEF InitRat
<1>2. ASSUME NEW r \in Regs
      PROVE  /\ IsFiniteSet(Below(r)) /\ Cardinality(Below(r)) \in Nat
             /\ Cardinality(Below(r)) < Cardinality(File(r[1]))
             /\ Cardinality(File(r[1])) <= NumPrf[r[1]] /\ NumPrf[r[1]] \in Nat
             /\ r[1] \in Files
  <2>1. IsFiniteSet(File(r[1])) /\ Cardinality(File(r[1])) \in Nat
    BY RegsAssumption, FS_Subset, FS_CardinalityType
  <2>2. Below(r) \subseteq File(r[1]) /\ r \in File(r[1]) /\ r \notin Below(r)
    BY RegsAssumption
  <2>3. /\ IsFiniteSet(Below(r)) /\ Cardinality(Below(r)) <= Cardinality(File(r[1]))
        /\ Cardinality(Below(r)) # Cardinality(File(r[1])) /\ Cardinality(Below(r)) \in Nat
    BY <2>1, <2>2, FS_Subset, FS_CardinalityType
  <2>4. r[1] \in Files
    BY DEF Files
  <2>5. Cardinality(File(r[1])) <= NumPrf[r[1]] /\ NumPrf[r[1]] \in Nat
    BY <2>4, RegsAssumption
  <2> QED
    BY <2>1, <2>3, <2>4, <2>5
<1>3. ASSUME NEW r \in Regs PROVE InitRat[r] \in Pregs
  <2>1. Cardinality(Below(r)) \in 0 .. NumPrf[r[1]] - 1
    <3> HIDE DEF Below, File
    <3>1. Cardinality(File(r[1])) \in Nat
      BY RegsAssumption, FS_Subset, FS_CardinalityType DEF File
    <3> QED
      BY <1>2, <3>1
  <2>2. InitRat[r] \in {r[1]} \X (0 .. NumPrf[r[1]] - 1)
    <3> HIDE DEF Below
    <3>1. \A n \in 0 .. NumPrf[r[1]] - 1 : <<r[1], n>> \in {r[1]} \X (0 .. NumPrf[r[1]] - 1)
      OBVIOUS
    <3>2. InitRat[r] = <<r[1], Cardinality(Below(r))>>
      BY <1>1
    <3> QED
      BY <2>1, <3>1, <3>2
  <2> QED
    BY <1>2, <2>2 DEF Pregs
<1>4. ASSUME NEW r \in Regs, NEW s \in Regs, r[1] = s[1], r[2] < s[2]
      PROVE  Cardinality(Below(r)) # Cardinality(Below(s))
  <2>1. Below(r) \subseteq Below(s) /\ r \in Below(s) /\ r \notin Below(r)
    BY <1>4, RegsAssumption
  <2>2. IsFiniteSet(Below(s))
    BY <1>2
  <2> HIDE DEF Below
  <2> QED
    BY <2>1, <2>2, FS_Subset
<1>5. Injective(InitRat)
  <2> SUFFICES ASSUME NEW r \in Regs, NEW s \in Regs, InitRat[r] = InitRat[s] PROVE r = s
    BY DEF Injective, InitRat
  <2>1. r[1] = s[1] /\ Cardinality(Below(r)) = Cardinality(Below(s))
    BY <1>1
  <2>2. ~ (r[2] < s[2]) /\ ~ (s[2] < r[2])
    BY <1>4, <2>1
  <2>3. r[2] = s[2]
    BY <2>2, RegsAssumption
  <2> QED
    BY <2>1, <2>3, RegsAssumption
<1> QED
  BY <1>3, <1>5 DEF InitRat

(* find_first_unset() finds free registers of the file, two different ones *)
(* when it is asked for two.                                               *)
LEMMA NthFreeIsFree ==
    ASSUME NEW f \in Files, freevec \subseteq Pregs,
           NEW m \in 1 .. 2, Cardinality(Free(f)) >= m
    PROVE  /\ \A n \in 1 .. m : NthFree(f, n) \in Pregs \ freevec
           /\ m = 2 => NthFree(f, 1) # NthFree(f, 2)
<1> DEFINE S == Free(f)
           Under(k) == {j \in S : j < k}
           At(n, k) == k \in S /\ Cardinality(Under(k)) = n - 1
<1>0. NumPrf[f] \in Nat
  BY RegsAssumption
<1>1. S \subseteq 0 .. NumPrf[f] - 1 /\ S \subseteq Nat /\ IsFiniteSet(S) /\ Cardinality(S) \in Nat
  <2>1. S \subseteq 0 .. NumPrf[f] - 1
    BY DEF Free
  <2>2. IsFiniteSet(0 .. NumPrf[f] - 1)
    BY <1>0, FS_Interval
  <2>3. 0 .. NumPrf[f] - 1 \subseteq Nat
    BY <1>0
  <2> HIDE DEF S
  <2> QED
    BY <2>1, <2>2, <2>3, FS_Subset, FS_CardinalityType
<1>2. \A k \in S : <<f, k>> \in Pregs \ freevec
  BY DEF Free, Pregs
<1>3. S # {}
  <2>1. Cardinality({}) = 0
    BY FS_EmptySet
  <2> QED
    BY <1>1, <2>1
<1> HIDE DEF S
<1>4. PICK a \in S : \A y \in S : a <= y
  BY <1>1, <1>3, Least
<1>5. At(1, a)
  <2>1. Under(a) = {}
    <3>1. \A y \in S : y \in Nat /\ a \in Nat /\ a <= y
      BY <1>1, <1>4
    <3>2. \A y \in S : ~ (y < a)
      BY <3>1
    <3> QED
      BY <3>2
  <2> QED
    BY <2>1, FS_EmptySet
<1>6. CASE m = 1
  <2>1. \A n \in 1 .. m : n = 1
    BY <1>6
  <2>2. PICK k : NthFree(f, 1) = <<f, k>> /\ At(1, k)
    BY <1>5 DEF NthFree, S
  <2> QED
    BY <1>2, <1>6, <2>1, <2>2
<1>7. CASE m = 2
  <2> DEFINE R == S \ {a}
  <2>1. R # {}
    <3>1. Cardinality({a}) = 1
      BY FS_Singleton
    <3>2. Cardinality(S) # 1
      BY <1>1, <1>7 DEF S
    <3>3. R = {} => S = {a}
      BY <1>4
    <3> QED
      BY <3>1, <3>2, <3>3
  <2>2. PICK b \in R : \A y \in R : b <= y
    BY <1>1, <2>1, Least
  <2>3. At(2, b)
    <3>1. Under(b) = {a}
      <4>1. \A y \in S : y \in Nat /\ a \in Nat /\ b \in Nat /\ a <= y /\ b # a
        BY <1>1, <1>4, <2>2
      <4>2. b \in S /\ \A y \in S : y # a => b <= y
        BY <2>2
      <4>3. \A y \in S : y < b <=> y = a
        BY <4>1, <4>2
      <4> QED
        BY <1>4, <4>3
    <3>2. Cardinality({a}) = 1
      BY FS_Singleton
    <3> QED
      BY <2>2, <3>1, <3>2
  <2>4. PICK j : NthFree(f, 1) = <<f, j>> /\ At(1, j)
    BY <1>5 DEF NthFree, S
  <2>5. PICK k : NthFree(f, 2) = <<f, k>> /\ At(2, k)
    BY <2>3 DEF NthFree, S
  <2>6. j # k
    BY <2>4, <2>5
  <2>7. \A n \in 1 .. m : n = 1 \/ n = 2
    BY <1>7
  <2> QED
    BY <1>2, <2>4, <2>5, <2>6, <2>7
<1> QED
  BY <1>6, <1>7

-----------------------------------------------------------------------------
(* Chains                                                                  *)

(* Every operation of the rob at its position.                             *)
LEMMA RobElems ==
    ASSUME Shape
    PROVE  /\ Len(rob) \in Nat /\ DOMAIN rob = 1 .. Len(rob)
           /\ \A j \in 1 .. Len(rob) : rob[j] \in Elems(rob)
           /\ \A x \in Elems(rob) : \E j \in 1 .. Len(rob) : x = rob[j]
BY DEF Shape, Elems

(* The signature of an operation is one.                                   *)
LEMMA SigOfShaped == \A x : SigShape(SigOf(x))
BY SigsShaped DEF SigOf, InsnOf

(* What one operation does to a table.                                     *)
RenamedFacts(x, t, n, d) ==
    /\ n \in [Regs -> Pregs]
    /\ op[x].new \in [DOMAIN d -> Pregs]
    /\ op[x].src = [r \in SigOf(x).src |-> t[r]]
    /\ op[x].prev = [k \in DOMAIN d |-> t[d[k]]]
    /\ \A k \in DOMAIN d : n[d[k]] = op[x].new[k]
    /\ \A r \in Regs : r \notin RangeSet(d) => n[r] = t[r]

(* The definition of Renamed, unfolded register by register.               *)
LEMMA RenamedStep ==
    ASSUME NEW x, NEW t \in [Regs -> Pregs], NEW n, Renamed(x, t, n)
    PROVE  RenamedFacts(x, t, n, SigOf(x).dst)
<1> DEFINE d == SigOf(x).dst
<1>1. d \in Seq(Regs) /\ NoRepeat(d)
  BY SigOfShaped DEF SigShape
<1>2. op[x].new \in [DOMAIN d -> Pregs] /\ n = Over(t, d, op[x].new)
  BY DEF Renamed, RenamedAt
<1>3. /\ n \in [Regs -> Pregs]
      /\ \A k \in DOMAIN d : n[d[k]] = op[x].new[k]
      /\ \A r \in Regs : (\A k \in DOMAIN d : d[k] # r) => n[r] = t[r]
  BY <1>1, <1>2, OverTable
<1> QED
  BY <1>2, <1>3 DEF Renamed, RenamedAt, RangeSet, RenamedFacts

(* The tables of a chain name registers that are retired or taken.         *)
LEMMA ChainOwned ==
    ASSUME Shape, NEW T, IsChain(T)
    PROVE  \A j \in 1 .. Len(rob) + 1 : RangeOf(T[j]) \subseteq RangeOf(rat_retire) \cup TakenAll
<1> DEFINE S == RangeOf(rat_retire) \cup TakenAll
           Bad == {j \in 1 .. Len(rob) + 1 : ~ RangeOf(T[j]) \subseteq S}
<1>1. /\ Len(rob) \in Nat
      /\ \A j \in 1 .. Len(rob) : rob[j] \in Elems(rob)
  BY RobElems
<1>2. /\ \A j \in 1 .. Len(rob) + 1 : T[j] \in [Regs -> Pregs]
      /\ T[1] = rat_retire
      /\ \A j \in 1 .. Len(rob) : Renamed(rob[j], T[j], T[j + 1])
  BY DEF IsChain
<1>3. ASSUME NEW j \in 1 .. Len(rob), RangeOf(T[j]) \subseteq S
      PROVE  RangeOf(T[j + 1]) \subseteq S
  <2> DEFINE x == rob[j]
             d == SigOf(x).dst
             n == T[j + 1]
             t == T[j]
  <2>1. t \in [Regs -> Pregs] /\ Renamed(x, t, n)
    BY <1>1, <1>2
  <2> HIDE DEF t, n
  <2>2. /\ n \in [Regs -> Pregs]
        /\ op[x].new \in [DOMAIN d -> Pregs]
        /\ \A k \in DOMAIN d : n[d[k]] = op[x].new[k]
        /\ \A r \in Regs : r \notin RangeSet(d) => n[r] = t[r]
    <3>1. RenamedFacts(x, t, n, SigOf(x).dst)
      BY <2>1, RenamedStep
    <3> QED
      BY <3>1 DEF RenamedFacts
  <2>3. Taken(x) \subseteq S
    BY <1>1 DEF TakenAll
  <2>4. ASSUME NEW r \in Regs PROVE n[r] \in S
    <3>1. CASE r \notin RangeSet(d)
      BY <1>3, <2>1, <2>2, <3>1 DEF RangeOf, t
    <3>2. CASE r \in RangeSet(d)
      BY <2>2, <2>3, <3>2 DEF RangeOf, RangeSet, Taken
    <3> QED
      BY <3>1, <3>2
  <2> QED
    BY <2>2, <2>4 DEF RangeOf, n
<1> HIDE DEF S
<1>4. Bad = {}
  <2> SUFFICES ASSUME Bad # {} PROVE FALSE
    OBVIOUS
  <2>1. Bad \in SUBSET Nat
    BY <1>1
  <2>2. PICK j \in Bad : \A y \in Bad : j <= y
    BY <2>1, Least
  <2>3. j # 1
    BY <1>2 DEF S
  <2>4. j - 1 \in 1 .. Len(rob) /\ (j - 1) + 1 = j
        /\ j - 1 \notin Bad /\ j - 1 \in 1 .. Len(rob) + 1
    <3>1. j \in 1 .. Len(rob) + 1 /\ j \in Nat
      BY <2>1
    <3>2. ~ (j <= j - 1)
      BY <3>1
    <3> HIDE DEF Bad
    <3> QED
      BY <1>1, <2>2, <2>3, <3>1, <3>2
  <2> QED
    BY <1>3, <2>4
<1> QED
  BY <1>4 DEF S

(* The operation at position k renames r.                                  *)
WritesAt(k, r) == r \in RangeSet(SigOf(rob[k]).dst)
NameAt(k, r) == ByReg(rob[k], op[rob[k]].new)[r]
(* p holds r for position j, as MapsTo of RegRename says it.               *)
HeldBy(r, j, p) ==
    \/ p = rat_retire[r] /\ \A k \in 1 .. j - 1 : ~ WritesAt(k, r)
    \/ \E i \in 1 .. j - 1 :
        /\ WritesAt(i, r) /\ p = NameAt(i, r)
        /\ \A k \in i + 1 .. j - 1 : ~ WritesAt(k, r)

(* The tables of a chain say who holds a register.                         *)
LEMMA ChainMaps ==
    ASSUME Shape, NEW T, IsChain(T), NEW r \in Regs
    PROVE  \A j \in 1 .. Len(rob) + 1 : HeldBy(r, j, T[j][r])
<1> DEFINE Bad == {j \in 1 .. Len(rob) + 1 : ~ HeldBy(r, j, T[j][r])}
<1>1. Len(rob) \in Nat
  BY RobElems
<1>2. HeldBy(r, 1, T[1][r])
  BY DEF HeldBy, IsChain
<1>3. ASSUME NEW j \in 1 .. Len(rob), HeldBy(r, j, T[j][r])
      PROVE  HeldBy(r, j + 1, T[j + 1][r])
  <2> DEFINE x == rob[j]
             d == SigOf(x).dst
             n == T[j + 1]
             t == T[j]
  <2>1. t \in [Regs -> Pregs] /\ Renamed(x, t, n)
    BY <1>1 DEF IsChain
  <2> HIDE DEF t, n
  <2>2. /\ \A k \in DOMAIN d : n[d[k]] = op[x].new[k]
        /\ r \notin RangeSet(d) => n[r] = t[r]
    <3>1. RenamedFacts(x, t, n, SigOf(x).dst)
      BY <2>1, RenamedStep
    <3> QED
      BY <3>1 DEF RenamedFacts
  <2>3. CASE WritesAt(j, r)
    <3>1. PICK k \in DOMAIN d : d[k] = r
      BY <2>3 DEF WritesAt, RangeSet
    <3>2. (CHOOSE m \in DOMAIN d : d[m] = r) = k
      BY <3>1, SigOfShaped DEF SigShape, NoRepeat
    <3>3. r \in RangeSet(d)
      BY <2>3 DEF WritesAt
    <3>4. NameAt(j, r) = op[x].new[k]
      BY <3>2, <3>3 DEF NameAt, ByReg
    <3>5. n[r] = NameAt(j, r)
      BY <2>2, <3>1, <3>4
    <3>6. j \in 1 .. (j + 1) - 1 /\ j + 1 .. (j + 1) - 1 = {}
      OBVIOUS
    <3> QED
      BY <2>3, <3>5, <3>6 DEF HeldBy, n
  <2>4. CASE ~ WritesAt(j, r)
    <3>1. n[r] = t[r]
      BY <2>2, <2>4 DEF WritesAt
    <3>2. /\ 1 .. (j + 1) - 1 = (1 .. j - 1) \cup {j}
          /\ \A i \in 1 .. j - 1 : i + 1 .. (j + 1) - 1 = (i + 1 .. j - 1) \cup {j}
      OBVIOUS
    <3>3. CASE t[r] = rat_retire[r] /\ \A k \in 1 .. j - 1 : ~ WritesAt(k, r)
      BY <2>4, <3>1, <3>2, <3>3 DEF HeldBy, n
    <3>4. ASSUME NEW i \in 1 .. j - 1, WritesAt(i, r), t[r] = NameAt(i, r),
                 \A k \in i + 1 .. j - 1 : ~ WritesAt(k, r)
          PROVE  HeldBy(r, j + 1, n[r])
      <4>1. \A k \in i + 1 .. (j + 1) - 1 : ~ WritesAt(k, r)
        BY <2>4, <3>2, <3>4
      <4>2. i \in 1 .. (j + 1) - 1
        BY <3>2
      <4> QED
        BY <3>1, <3>4, <4>1, <4>2 DEF HeldBy
    <3> QED
      BY <1>3, <3>3, <3>4 DEF HeldBy, t, n
  <2> QED
    BY <2>3, <2>4
<1>4. Bad = {}
  <2> SUFFICES ASSUME Bad # {} PROVE FALSE
    OBVIOUS
  <2>1. Bad \in SUBSET Nat
    BY <1>1
  <2>2. PICK j \in Bad : \A y \in Bad : j <= y
    BY <2>1, Least
  <2>3. j # 1
    BY <1>2
  <2>4. j - 1 \in 1 .. Len(rob) /\ (j - 1) + 1 = j
        /\ j - 1 \notin Bad /\ j - 1 \in 1 .. Len(rob) + 1
    <3>1. j \in 1 .. Len(rob) + 1 /\ j \in Nat
      BY <2>1
    <3>2. ~ (j <= j - 1)
      BY <3>1
    <3> HIDE DEF Bad
    <3> QED
      BY <1>1, <2>2, <2>3, <3>1, <3>2
  <2> QED
    BY <1>3, <2>4
<1> QED
  BY <1>4

(* The pc that stands for an operation has its instruction.                *)
LEMMA EntryOp ==
    ASSUME NEW x
    PROVE  OpOf(x) \in Pcs /\ decode_insn(InsnAt(OpOf(x))) = SigOf(x)
<1>1. OpOf(x) \in Pcs
  BY DEF OpOf, Pcs
<1>2. -1 \notin DOMAIN Program
  BY RegsAssumption
<1>3. InsnAt(OpOf(x)) = InsnOf(x)
  <2>1. CASE op[x].pc \in Pcs
    BY <2>1 DEF OpOf, InsnOf
  <2>2. CASE op[x].pc \notin Pcs
    BY <1>2, <2>2 DEF OpOf, InsnOf, InsnAt, Pcs
  <2> QED
    BY <2>1, <2>2
<1> QED
  BY <1>1, <1>3 DEF SigOf

(* The destinations of an entry, register by register.                     *)
LEMMA ByRegIs ==
    ASSUME NEW x, NEW s, DOMAIN s = DOMAIN SigOf(x).dst
    PROVE  /\ DOMAIN ByReg(x, s) = RangeSet(SigOf(x).dst)
           /\ \A k \in DOMAIN SigOf(x).dst : ByReg(x, s)[SigOf(x).dst[k]] = s[k]
           /\ RangeOf(ByReg(x, s)) = RangeOf(s)
<1> DEFINE d == SigOf(x).dst
<1>0. NoRepeat(d)
  BY SigOfShaped DEF SigShape
<1>1. DOMAIN ByReg(x, s) = RangeSet(d)
  BY DEF ByReg
<1>2. ASSUME NEW k \in DOMAIN d PROVE ByReg(x, s)[d[k]] = s[k] /\ d[k] \in RangeSet(d)
  <2>1. d[k] \in RangeSet(d)
    BY DEF RangeSet
  <2>2. (CHOOSE j \in DOMAIN d : d[j] = d[k]) = k
    BY <1>0 DEF NoRepeat
  <2> QED
    BY <2>1, <2>2 DEF ByReg
<1>3. \A r \in RangeSet(d) : \E k \in DOMAIN d : r = d[k]
  BY DEF RangeSet
<1> HIDE DEF d
<1>4. RangeOf(ByReg(x, s)) = RangeOf(s)
  <2>1. \A r \in RangeSet(d) : ByReg(x, s)[r] \in RangeOf(s)
    BY <1>2, <1>3 DEF RangeOf, d
  <2>2. \A k \in DOMAIN d : s[k] \in RangeOf(ByReg(x, s))
    BY <1>1, <1>2 DEF RangeOf
  <2>3. DOMAIN s = DOMAIN d
    BY DEF d
  <2> QED
    BY <1>1, <2>1, <2>2, <2>3 DEF RangeOf
<1> QED
  BY <1>1, <1>2, <1>4 DEF d

(* The operations of a chain, as entries of RegRename.                     *)
LEMMA ChainEntry ==
    ASSUME Shape, NEW T, IsChain(T), NEW j \in 1 .. Len(rob)
    PROVE  LET e == RenameEntry(rob[j])
               x == rob[j]
           IN  /\ e.op = OpOf(x) /\ e.src = op[x].src
               /\ e.new = ByReg(x, op[x].new) /\ e.prev = ByReg(x, op[x].prev)
               /\ DOMAIN e.new = RangeSet(SigOf(x).dst)
               /\ DOMAIN e.prev = RangeSet(SigOf(x).dst)
               /\ RangeOf(e.new) = Taken(x)
               /\ \A r \in SigOf(x).src : e.src[r] = T[j][r] /\ r \in Regs
               /\ \A r \in RangeSet(SigOf(x).dst) : e.prev[r] = T[j][r] /\ r \in Regs
<1> DEFINE x == rob[j]
           t == T[j]
           n == T[j + 1]
           d == SigOf(x).dst
           e == RenameEntry(x)
<1>1. t \in [Regs -> Pregs] /\ Renamed(x, t, n)
  BY RobElems DEF IsChain
<1> HIDE DEF t, n
<1>2. RenamedFacts(x, t, n, SigOf(x).dst)
  BY <1>1, RenamedStep
<1>3. DOMAIN op[x].new = DOMAIN d /\ DOMAIN op[x].prev = DOMAIN d
  BY <1>2 DEF RenamedFacts
<1>4. /\ e.op = OpOf(x) /\ e.src = op[x].src
      /\ e.new = ByReg(x, op[x].new) /\ e.prev = ByReg(x, op[x].prev)
  BY DEF RenameEntry
<1>5. /\ DOMAIN e.new = RangeSet(d) /\ DOMAIN e.prev = RangeSet(d)
      /\ RangeOf(e.new) = Taken(x)
  BY <1>3, <1>4, ByRegIs DEF Taken
<1>6. SigOf(x).src \subseteq Regs /\ d \in Seq(Regs)
  BY SigOfShaped DEF SigShape
<1>7. \A r \in SigOf(x).src : e.src[r] = t[r] /\ r \in Regs
  BY <1>2, <1>4, <1>6 DEF RenamedFacts
<1>8. ASSUME NEW r \in RangeSet(d) PROVE e.prev[r] = t[r] /\ r \in Regs
  <2>1. PICK k \in DOMAIN d : r = d[k]
    BY DEF RangeSet
  <2>2. e.prev[r] = op[x].prev[k]
    BY <1>3, <1>4, <2>1, ByRegIs
  <2>3. op[x].prev[k] = t[d[k]] /\ d[k] \in Regs
    BY <1>2, <1>6 DEF RenamedFacts
  <2> QED
    BY <2>1, <2>2, <2>3
<1> QED
  BY <1>4, <1>5, <1>7, <1>8 DEF t

-----------------------------------------------------------------------------
(* The invariant says what RegRename says                                  *)

(* Both ways to say who writes a register, and who holds it.               *)
LEMMA HeldIsMapsTo ==
    ASSUME Shape, NEW T, IsChain(T), NEW j \in 1 .. Len(rob), NEW r, NEW p, HeldBy(r, j, p)
    PROVE  Rename!MapsTo(r, j, p)
<1>1. Len(rob) \in Nat /\ DOMAIN rob = 1 .. Len(rob)
  BY RobElems
<1>2. \A k \in 1 .. Len(rob) :
        /\ Rename!Writes(k, r) <=> WritesAt(k, r)
        /\ [m \in DOMAIN rob |-> RenameEntry(rob[m])][k].new[r] = NameAt(k, r)
  <2> SUFFICES ASSUME NEW k \in 1 .. Len(rob)
               PROVE  /\ Rename!Writes(k, r) <=> WritesAt(k, r)
                      /\ [m \in DOMAIN rob |-> RenameEntry(rob[m])][k].new[r] = NameAt(k, r)
    OBVIOUS
  <2>1. [m \in DOMAIN rob |-> RenameEntry(rob[m])][k] = RenameEntry(rob[k])
    BY <1>1
  <2>2. /\ RenameEntry(rob[k]).op = OpOf(rob[k])
        /\ RenameEntry(rob[k]).new = ByReg(rob[k], op[rob[k]].new)
    BY DEF RenameEntry
  <2>3. [a \in Pcs |-> DstOf(a)][OpOf(rob[k])] = RangeSet(SigOf(rob[k]).dst)
    BY EntryOp DEF DstOf
  <2> QED
    BY <2>1, <2>2, <2>3 DEF Rename!Writes, WritesAt, NameAt
<1>3. /\ \A k \in 1 .. j - 1 : k \in 1 .. Len(rob)
      /\ \A i \in 1 .. j - 1 : \A k \in i + 1 .. j - 1 : k \in 1 .. Len(rob)
  BY <1>1
<1>4. CASE p = rat_retire[r] /\ \A k \in 1 .. j - 1 : ~ WritesAt(k, r)
  BY <1>2, <1>3, <1>4 DEF Rename!MapsTo
<1>5. ASSUME NEW i \in 1 .. j - 1, WritesAt(i, r), p = NameAt(i, r),
             \A k \in i + 1 .. j - 1 : ~ WritesAt(k, r)
      PROVE  Rename!MapsTo(r, j, p)
  BY <1>2, <1>3, <1>5 DEF Rename!MapsTo
<1> QED
  BY <1>4, <1>5 DEF HeldBy

(* Sources and destinations are those of program order.                    *)
LEMMA DataflowExact ==
    ASSUME Shape, Chained
    PROVE  Rename!SequentialDataflow
<1> DEFINE R == [m \in DOMAIN rob |-> RenameEntry(rob[m])]
<1>1. PICK T : IsChain(T)
  BY DEF Chained
<1>2. Len(rob) \in Nat /\ DOMAIN rob = 1 .. Len(rob)
  BY RobElems
<1> SUFFICES ASSUME NEW j \in 1 .. Len(rob)
             PROVE  /\ \A r \in [a \in Pcs |-> decode_insn(InsnAt(a)).src][R[j].op] :
                            Rename!MapsTo(r, j, R[j].src[r])
                    /\ \A r \in [a \in Pcs |-> DstOf(a)][R[j].op] :
                            Rename!MapsTo(r, j, R[j].prev[r])
  BY <1>2 DEF Rename!SequentialDataflow
<1> DEFINE x == rob[j]
           e == RenameEntry(x)
<1>3. R[j] = e
  BY <1>2
<1>4. /\ e.op = OpOf(x)
      /\ \A r \in SigOf(x).src : e.src[r] = T[j][r] /\ r \in Regs
      /\ \A r \in RangeSet(SigOf(x).dst) : e.prev[r] = T[j][r] /\ r \in Regs
  BY <1>1, ChainEntry
<1>5. /\ [a \in Pcs |-> decode_insn(InsnAt(a)).src][e.op] = SigOf(x).src
      /\ [a \in Pcs |-> DstOf(a)][e.op] = RangeSet(SigOf(x).dst)
  BY <1>4, EntryOp DEF DstOf
<1>6. ASSUME NEW r \in Regs PROVE Rename!MapsTo(r, j, T[j][r])
  <2>1. HeldBy(r, j, T[j][r])
    BY <1>1, <1>2, ChainMaps
  <2> QED
    BY <1>1, <2>1, HeldIsMapsTo
<1> HIDE DEF R, e, x
<1> QED
  BY <1>3, <1>4, <1>5, <1>6

(* The in-flight registers of RegRename.                                   *)
LEMMA TakenIsInFlight ==
    ASSUME Shape, Chained
    PROVE  TakenAll = Rename!InFlight
<1> DEFINE R == [m \in DOMAIN rob |-> RenameEntry(rob[m])]
<1>1. PICK T : IsChain(T)
  BY DEF Chained
<1>2. /\ Len(rob) \in Nat
      /\ DOMAIN rob = 1 .. Len(rob)
      /\ DOMAIN R = DOMAIN rob
      /\ \A j \in 1 .. Len(rob) : rob[j] \in Elems(rob)
      /\ \A x \in Elems(rob) : \E j \in 1 .. Len(rob) : x = rob[j]
  BY RobElems
<1>3. \A j \in 1 .. Len(rob) : Rename!RangeOf(R[j].new) = Taken(rob[j])
  <2> SUFFICES ASSUME NEW j \in 1 .. Len(rob)
               PROVE  Rename!RangeOf(R[j].new) = Taken(rob[j])
    OBVIOUS
  <2>1. R[j] = RenameEntry(rob[j])
    BY <1>2
  <2>2. RangeOf(RenameEntry(rob[j]).new) = Taken(rob[j])
    BY <1>1, ChainEntry
  <2> QED
    BY <2>1, <2>2 DEF Rename!RangeOf, RangeOf
<1>4. Rename!InFlight = UNION {Rename!RangeOf(R[j].new) : j \in DOMAIN R}
  BY DEF Rename!InFlight
<1>5. DOMAIN R = 1 .. Len(rob)
  BY <1>2
<1> HIDE DEF R
<1>6. TakenAll \subseteq UNION {Rename!RangeOf(R[j].new) : j \in DOMAIN R}
  <2> SUFFICES ASSUME NEW x \in Elems(rob), NEW p \in Taken(x)
               PROVE  \E j \in DOMAIN R : p \in Rename!RangeOf(R[j].new)
    BY DEF TakenAll
  <2>1. \E j \in 1 .. Len(rob) : x = rob[j]
    BY RobElems
  <2>2. PICK j \in 1 .. Len(rob) : x = rob[j]
    BY <2>1
  <2> QED
    BY <1>3, <1>5, <2>2
<1>7. UNION {Rename!RangeOf(R[j].new) : j \in DOMAIN R} \subseteq TakenAll
  BY <1>2, <1>3, <1>5 DEF TakenAll
<1> QED
  BY <1>4, <1>6, <1>7

(* The in-use vectors.                                                     *)
LEMMA FreevecsExact ==
    ASSUME Shape, Chained, InUse
    PROVE  Rename!FreevecExact
BY TakenIsInFlight DEF Rename!FreevecExact, InUse, Rename!RangeOf, RangeOf

(* The valid bits.                                                         *)
LEMMA ValidsExact ==
    ASSUME WindowInv, Chained, ValidBits, Marks
    PROVE  Rename!ValidExact
<1> DEFINE R == [m \in DOMAIN rob |-> RenameEntry(rob[m])]
           At == [a \in Pcs |-> decode_insn(InsnAt(a)).at]
<1>0. Shape /\ OnePlace /\ Unissued
  BY DEF WindowInv
<1>1. PICK T : IsChain(T)
  BY DEF Chained
<1>2. Len(rob) \in Nat /\ DOMAIN rob = 1 .. Len(rob) /\ DOMAIN R = DOMAIN rob
      /\ \A j \in 1 .. Len(rob) : rob[j] \in Elems(rob)
  BY <1>0, RobElems
<1>3. Rename!RangeOf(rat_retire) \subseteq valid
  BY DEF ValidBits, Rename!RangeOf, RangeOf
<1>4. ASSUME NEW j \in 1 .. Len(rob)
      PROVE  /\ R[j].st # "allocated" => Rename!RangeOf(R[j].src) \subseteq valid
             /\ (R[j].st \in {"allocated", "executed"} \/ At[R[j].op] = "retire")
                    => Rename!RangeOf(R[j].new) \cap valid = {}
             /\ (R[j].st = "complete" /\ At[R[j].op] # "retire")
                    => Rename!RangeOf(R[j].new) \subseteq valid
  <2> DEFINE x == rob[j]
             e == RenameEntry(x)
  <2>1. R[j] = e
    BY <1>2
  <2>2. /\ e.op = OpOf(x) /\ e.src = op[x].src /\ RangeOf(e.new) = Taken(x)
    BY <1>0, <1>1, ChainEntry
  <2>3. At[e.op] = SigOf(x).at
    BY <2>2, EntryOp
  <2>4. Rename!RangeOf(e.src) = RangeOf(op[x].src) /\ Rename!RangeOf(e.new) = Taken(x)
    BY <2>2 DEF Rename!RangeOf, RangeOf
  <2>5. x \in Elems(rob) /\ x \in Live
    BY <1>0, <1>2, QueuesLive
  <2>6. /\ op[x].done => op[x].issued
        /\ op[x].lexc => SigOf(x).cls = "load"
        /\ ValidOf(x)
    BY <1>0, <2>5 DEF Unissued, Marks, ValidBits
  <2>7. /\ e.st # "allocated" => op[x].issued
        /\ e.st \in {"allocated", "executed"} => ~ op[x].done
        /\ e.st = "complete" =>
              /\ op[x].done
              /\ SigOf(x).cls = "load" => Taken(x) \subseteq valid
    <3>1. e.st = CASE ~ op[x].issued                  -> "allocated"
                   [] op[x].issued /\ ~ op[x].done    -> "executed"
                   [] SigOf(x).cls = "load" /\ op[x].done /\ ~ Taken(x) \subseteq valid
                                                      -> "faulted"
                   [] OTHER                           -> "complete"
      BY DEF RenameEntry, Taken, RangeOf, RangeSet
    <3> HIDE DEF e, x
    <3> QED
      BY <2>6, <3>1
  <2> HIDE DEF e, x, R, At
  <2> QED
    BY <2>1, <2>3, <2>4, <2>6, <2>7 DEF ValidOf
<1> HIDE DEF R, At
<1>5. \A j \in DOMAIN R :
          /\ R[j].st # "allocated" => Rename!RangeOf(R[j].src) \subseteq valid
          /\ (R[j].st \in {"allocated", "executed"} \/ At[R[j].op] = "retire")
                 => Rename!RangeOf(R[j].new) \cap valid = {}
          /\ (R[j].st = "complete" /\ At[R[j].op] # "retire")
                 => Rename!RangeOf(R[j].new) \subseteq valid
  BY <1>2, <1>4
<1> QED
  BY <1>3, <1>5 DEF Rename!ValidExact, R, At

(* The sources of what is in flight are in use.                            *)
LEMMA SourcesTaken ==
    ASSUME Shape, Chained, InUse
    PROVE  \A x \in Elems(rob) : RangeOf(op[x].src) \subseteq freevec
<1>1. PICK T : IsChain(T)
  BY DEF Chained
<1> SUFFICES ASSUME NEW j \in 1 .. Len(rob) PROVE RangeOf(op[rob[j]].src) \subseteq freevec
  BY RobElems
<1>2. /\ op[rob[j]].src = [r \in SigOf(rob[j]).src |-> T[j][r]]
      /\ SigOf(rob[j]).src \subseteq Regs
      /\ T[j] \in [Regs -> Pregs]
  <2>1. T[j] \in [Regs -> Pregs] /\ Renamed(rob[j], T[j], T[j + 1])
    BY <1>1, RobElems DEF IsChain
  <2>2. SigOf(rob[j]).src \subseteq Regs
    BY SigOfShaped DEF SigShape
  <2> QED
    BY <2>1, <2>2 DEF Renamed, RenamedAt
<1>3. RangeOf(T[j]) \subseteq freevec
  BY <1>1, RobElems, ChainOwned DEF InUse
<1> QED
  BY <1>2, <1>3 DEF RangeOf

(* RenameExact, and the assertions of the recovery (ooo_core.cc:586-587).  *)
LEMMA RenameInvExact ==
    ASSUME WindowInv, Marks, RenameInv
    PROVE  /\ RenameExact
           /\ Rename!SourcesHeld
           /\ Cardinality(freevec_retire) = Cardinality(Regs)
<1>1. Shape
  BY DEF WindowInv
<1>2. RenameExact
  BY <1>1, DataflowExact, FreevecsExact, ValidsExact DEF RenameExact, RenameInv
<1>3. Rename!SourcesHeld
  <2> DEFINE R == [m \in DOMAIN rob |-> RenameEntry(rob[m])]
  <2>1. ASSUME NEW j \in DOMAIN rob PROVE Rename!RangeOf(R[j].src) \subseteq freevec
    <3>1. rob[j] \in Elems(rob) /\ R[j] = RenameEntry(rob[j])
      BY DEF Elems
    <3>2. R[j].src = op[rob[j]].src
      BY <3>1 DEF RenameEntry
    <3>3. RangeOf(op[rob[j]].src) \subseteq freevec
      BY <1>1, <3>1, SourcesTaken DEF RenameInv
    <3> QED
      BY <3>2, <3>3 DEF Rename!RangeOf, RangeOf
  <2>2. DOMAIN R = DOMAIN rob
    OBVIOUS
  <2> QED
    BY <2>1, <2>2 DEF Rename!SourcesHeld
<1>4. Cardinality(freevec_retire) = Cardinality(Regs)
  <2>1. PICK T : IsChain(T)
    BY DEF RenameInv, Chained
  <2>2. rat_retire \in [Regs -> Pregs] /\ IsFiniteSet(Regs)
    BY <1>1, <2>1, RobElems, RegsAssumption DEF IsChain
  <2>3. /\ rat_retire \in Surjection(Regs, RangeOf(rat_retire))
        /\ rat_retire \in Injection(Regs, RangeOf(rat_retire))
    BY <2>2 DEF RenameInv, OneOwner, Injective, Injection, Surjection, IsInjective, RangeOf
  <2>4. Cardinality(RangeOf(rat_retire)) = Cardinality(Regs)
    BY <2>2, <2>3, FS_Surjection
  <2> QED
    BY <2>4 DEF RenameInv, InUse
<1> QED
  BY <1>2, <1>3, <1>4

-----------------------------------------------------------------------------
(* What the steps do to the fields that renaming looks at                  *)

Names == {"pc", "src", "new", "prev"}
RenameFields == Names \cup {"issued", "done", "lexc", "exc"}
Unmarked(x) == ~ op[x].lexc /\ ~ op[x].exc

(* The update of one entry of op.                                          *)
LEMMA OneOp ==
    ASSUME WindowInv, NEW x, NEW o, op' = [op EXCEPT ![x] = o]
    PROVE  /\ \A y \in Live : y # x => op'[y] = op[y]
           /\ x \in Live => op'[x] = o
           /\ Live' \subseteq Live \cup {x}
           /\ x \in Ids => op'[x] = o
BY DEF WindowInv, Shape, Live

(* A live operation has all its fields.                                    *)
LEMMA LiveFields == ASSUME WindowInv, NEW y \in Live PROVE y \in Ids /\ DOMAIN op[y] = Fields
BY LiveShape DEF WindowInv, Live

(* fetch() and decode(), the cache and the clock: nothing; what fetch()    *)
(* adds is not marked.                                                     *)
LEMMA QuietOps ==
    ASSUME WindowInv,
           \/ FetchMore /\ \E pc, npc, taken : PushFetch(pc, npc, taken)
           \/ DecodeOne \/ CacheTick \/ NextCycle \/ op' = op
    PROVE  /\ \A y \in Live : Keeps(y, RenameFields)
           /\ \A y \in Live' : y \in Live \/ Unmarked(y)'
<1>1. CASE FetchMore /\ \E pc, npc, taken : PushFetch(pc, npc, taken)
  <2>1. PICK pc, npc, taken : PushFetch(pc, npc, taken)
    BY <1>1
  <2>2. PICK x, o : x = FreeId /\ o = NewOp(pc, npc, taken)
    OBVIOUS
  <2>3. op' = [op EXCEPT ![x] = o] /\ x \notin Live /\ x \in Ids /\ ~ o.lexc /\ ~ o.exc
    BY <1>1, <2>1, <2>2, FreeIdFresh DEF PushFetch, NewOp, WindowInv, FetchMore
  <2>4. /\ \A y \in Live : op'[y] = op[y]
        /\ op'[x] = o
        /\ Live' \subseteq Live \cup {x}
    BY <2>3, OneOp
  <2> QED
    BY <2>3, <2>4 DEF Keeps, Unmarked
<1>2. CASE DecodeOne
  <2>1. PICK x, a : op' = [op EXCEPT ![x] = [op[x] EXCEPT !.age = 0, !.slot = a]] /\ x \in Live
    <3>1. PICK x, a : op' = [op EXCEPT ![x].age = 0, ![x].slot = a] /\ x = Head(fetch_queue)
      BY <1>2 DEF DecodeOne
    <3>2. op' = [op EXCEPT ![x] = [op[x] EXCEPT !.age = 0, !.slot = a]]
      BY <3>1
    <3>3. x \in Live
      BY <1>2, <3>1, TailElems, QueuesLive DEF WindowInv, Shape, DecodeOne, DecodeMore
    <3> QED
      BY <3>2, <3>3
  <2> DEFINE o == [op[x] EXCEPT !.age = 0, !.slot = a]
  <2>2. \A f \in RenameFields : o[f] = op[x][f]
    BY <2>1, LiveFields DEF RenameFields, Names, Fields
  <2> HIDE DEF o
  <2>3. /\ \A y \in Live : y # x => op'[y] = op[y]
        /\ op'[x] = o
        /\ Live' \subseteq Live
    BY <2>1, OneOp DEF o
  <2> QED
    BY <2>2, <2>3 DEF Keeps
<1>3. CASE CacheTick
  <2>1. ASSUME NEW y \in Live PROVE Keeps(y, RenameFields)
    <3>1. y \in Ids /\ DOMAIN op[y] = Fields
      BY LiveFields
    <3>2. op'[y] = (IF y \in inflight /\ op[y].aux = 0
                    THEN [op[y] EXCEPT !.cc = 1, !.aux = -1] ELSE op[y])
      BY <1>3, <3>1 DEF CacheTick, TickDelay
    <3> QED
      BY <3>1, <3>2 DEF Keeps, RenameFields, Names, Fields
  <2>2. Live' \subseteq Live
    <3>1. ASSUME NEW y \in Ids, y \notin Live PROVE op'[y] = Null
      <4>1. y \notin inflight
        BY <3>1, QueuesLive DEF WindowInv, InFlight
      <4> QED
        BY <1>3, <3>1, <4>1 DEF CacheTick, Live
    <3> QED
      BY <3>1 DEF Live
  <2> QED
    BY <2>1, <2>2
<1>4. CASE NextCycle
  <2> DEFINE dec(n) == IF n = -1 THEN -1 ELSE n - 1
  <2>1. ASSUME NEW y \in Live PROVE Keeps(y, RenameFields)
    <3>1. y \in Ids /\ DOMAIN op[y] = Fields
      BY LiveFields
    <3>2. op'[y] = [op[y] EXCEPT !.age = IF @ < 2 THEN @ + 1 ELSE 2, !.cc = dec(@), !.aux = dec(@)]
      BY <1>4, <3>1 DEF NextCycle
    <3> QED
      BY <3>1, <3>2 DEF Keeps, RenameFields, Names, Fields
  <2>2. Live' \subseteq Live
    BY <1>4 DEF NextCycle, Live
  <2> QED
    BY <2>1, <2>2
<1>5. CASE op' = op
  BY <1>5 DEF Keeps, Live
<1> QED
  BY <1>1, <1>2, <1>3, <1>4, <1>5

(* allocate(): the registers of one operation that enters the rob.         *)
LEMMA AllocateOps ==
    ASSUME WindowInv, AllocateOne, NEW x, x = Head(decode_queue)
    PROVE  /\ x \in Live /\ x \in Ids /\ x \notin Elems(rob) /\ ~ op[x].issued /\ ~ op[x].done
           /\ rob' = Append(rob, x)
           /\ op'[x].src = [r \in SigOf(x).src |-> rat[r]]
           /\ op'[x].prev = [j \in DOMAIN SigOf(x).dst |-> rat[SigOf(x).dst[j]]]
           /\ op'[x].new = [j \in DOMAIN SigOf(x).dst |-> NthFree(SigOf(x).dst[j][1], j)]
           /\ Keeps(x, RenameFields \ {"src", "new", "prev"})
           /\ \A y \in Live : y # x => Keeps(y, RenameFields)
           /\ Live' \subseteq Live
<1>1. PICK a, b, c :
        /\ op' = [op EXCEPT ![x].src = a, ![x].prev = b, ![x].new = c]
        /\ a = [r \in SigOf(x).src |-> rat[r]]
        /\ b = [j \in DOMAIN SigOf(x).dst |-> rat[SigOf(x).dst[j]]]
        /\ c = [j \in DOMAIN SigOf(x).dst |-> NthFree(SigOf(x).dst[j][1], j)]
  BY DEF AllocateOne
<1>2. op' = [op EXCEPT ![x] = [op[x] EXCEPT !.src = a, !.prev = b, !.new = c]]
  BY <1>1
<1>3. x \in Elems(decode_queue) /\ x \in Live /\ x \in Ids /\ x \notin Elems(rob)
      /\ rob' = Append(rob, x)
  BY TailElems, QueuesLive DEF WindowInv, Shape, OnePlace, AllocateOne, AllocateMore
<1>4. DOMAIN op[x] = Fields /\ ~ op[x].issued /\ ~ op[x].done
  BY <1>3, LiveFields DEF WindowInv, Unissued
<1> DEFINE o == [op[x] EXCEPT !.src = a, !.prev = b, !.new = c]
<1>5. /\ o.src = a /\ o.prev = b /\ o.new = c
      /\ \A f \in RenameFields \ {"src", "new", "prev"} : o[f] = op[x][f]
  BY <1>4 DEF RenameFields, Names, Fields
<1> HIDE DEF o
<1>6. /\ \A y \in Live : y # x => op'[y] = op[y]
      /\ op'[x] = o
      /\ Live' \subseteq Live
  BY <1>2, <1>3, OneOp DEF o
<1> QED
  BY <1>1, <1>3, <1>4, <1>5, <1>6 DEF Keeps

(* complete(): one operation is done.                                      *)
LEMMA CompleteNames ==
    ASSUME WindowInv, CompleteOne
    PROVE  \E x \in Elems(rob) :
             /\ ~ op[x].done /\ op'[x].done /\ op[x].issued
             /\ valid' = IF SigOf(x).at = "retire" \/ op[x].lexc THEN valid
                         ELSE valid \cup RangeOf(op[x].new)
             /\ Keeps(x, RenameFields \ {"done"})
             /\ \A y \in Live : y # x => Keeps(y, RenameFields)
             /\ Live' \subseteq Live
<1> DEFINE n == Min(Completing)
<1>1. n \in Completing
  <2>1. Completing \in SUBSET Nat
    BY DEF Completing, WindowInv, Shape
  <2>2. Completing # {}
    BY DEF CompleteOne
  <2> QED
    BY <2>1, <2>2, MinIn
<1>2. PICK x : x = rob[n]
  OBVIOUS
<1>3. /\ op' = [op EXCEPT ![x].done = TRUE]
      /\ valid' = IF SigOf(x).at = "retire" \/ op[x].lexc THEN valid
                  ELSE valid \cup RangeSet(op[x].new)
  BY <1>2 DEF CompleteOne
<1> HIDE DEF n
<1>4. x \in Elems(rob) /\ ~ op[x].done /\ op[x].cc = 0
  BY <1>1, <1>2 DEF Completing, Elems
<1>5. x \in Live /\ DOMAIN op[x] = Fields
  BY <1>4, QueuesLive, LiveFields DEF WindowInv
<1>6. op[x].issued
  BY <1>4, <1>5 DEF WindowInv, Unissued
<1>7. op' = [op EXCEPT ![x] = [op[x] EXCEPT !.done = TRUE]]
  BY <1>3
<1> DEFINE o == [op[x] EXCEPT !.done = TRUE]
<1>8. o.done /\ \A f \in RenameFields \ {"done"} : o[f] = op[x][f]
  BY <1>5 DEF RenameFields, Names, Fields
<1> HIDE DEF o
<1>9. /\ \A y \in Live : y # x => op'[y] = op[y]
      /\ op'[x] = o
      /\ Live' \subseteq Live
  BY <1>5, <1>7, OneOp DEF o
<1>10. RangeSet(op[x].new) = RangeOf(op[x].new)
  BY DEF RangeSet, RangeOf
<1> QED
  BY <1>3, <1>4, <1>6, <1>8, <1>9, <1>10 DEF Keeps

(* retire(): the oldest operation is deleted; a store may mark loads.      *)
LEMMA RetireNames ==
    ASSUME WindowInv, rob # <<>>, RetireOp(Head(rob)), NEW x, x = Head(rob)
    PROVE  /\ \A y \in Live : y # x =>
                 /\ Keeps(y, RenameFields \ {"lexc"})
                 /\ op[y].lexc => op'[y].lexc
                 /\ op'[y].lexc => op[y].lexc \/ (y \in load_tbl /\ SigOf(x).cls = "store")
           /\ Live' \subseteq Live \ {x}
<1>1. PICK replay \in BOOLEAN :
        /\ op' = [y \in Ids |-> IF y = x THEN Null
                                ELSE IF replay /\ y \in load_tbl
                                THEN [op[y] EXCEPT !.lexc = TRUE] ELSE op[y]]
        /\ replay => SigOf(x).cls = "store"
  <2>1. PICK replay \in BOOLEAN : replay = (Violated(x) # {})
    OBVIOUS
  <2>2. op' = [y \in Ids |-> IF y = x THEN Null
                             ELSE IF Violated(x) # {} /\ y \in load_tbl
                             THEN [op[y] EXCEPT !.lexc = TRUE] ELSE op[y]]
    BY DEF RetireOp
  <2>3. Violated(x) # {} => SigOf(x).cls = "store"
    BY DEF Violated
  <2> QED
    BY <2>1, <2>2, <2>3
<1>2. ASSUME NEW y \in Live, y # x
      PROVE  /\ Keeps(y, RenameFields \ {"lexc"})
             /\ op[y].lexc => op'[y].lexc
             /\ op'[y].lexc => op[y].lexc \/ (y \in load_tbl /\ SigOf(x).cls = "store")
  <2>1. y \in Ids /\ DOMAIN op[y] = Fields
    BY LiveFields
  <2>2. op'[y] = IF replay /\ y \in load_tbl THEN [op[y] EXCEPT !.lexc = TRUE] ELSE op[y]
    BY <1>1, <1>2, <2>1
  <2>3. CASE replay /\ y \in load_tbl
    <3>1. op'[y] = [op[y] EXCEPT !.lexc = TRUE]
      BY <2>2, <2>3
    <3>2. op'[y].lexc = TRUE /\ \A f \in RenameFields \ {"lexc"} : op'[y][f] = op[y][f]
      BY <2>1, <3>1 DEF RenameFields, Names, Fields
    <3> QED
      BY <1>1, <2>3, <3>2 DEF Keeps
  <2>4. CASE ~ (replay /\ y \in load_tbl)
    BY <2>2, <2>4 DEF Keeps
  <2> QED
    BY <2>3, <2>4
<1>3. Live' \subseteq Live \ {x}
  <2> SUFFICES ASSUME NEW y \in Ids, op'[y] # Null PROVE y \in Live /\ y # x
    BY DEF Live
  <2>1. y # x
    BY <1>1
  <2>2. CASE op[y] = Null
    <3>1. replay /\ y \in load_tbl
      BY <1>1, <2>1, <2>2
    <3>2. y \in Elems(rob) /\ Elems(rob) \subseteq Live
      BY <1>1, <3>1, QueuesLive DEF WindowInv, Tables, Recovery
    <3> QED
      BY <2>1, <3>2
  <2> QED
    BY <2>1, <2>2 DEF Live
<1> QED
  BY <1>2, <1>3

(* What execute() of the op class marks.                                   *)
ExecutedFrom(e, o, cls) ==
    /\ e.done = o.done
    /\ \A f \in Names : e[f] = o[f]
    /\ e.lexc => o.lexc \/ cls = "load"
    /\ e.exc => o.exc \/ cls \notin {"load", "store"}

(* execute() of the op class marks loads that are misaligned, and jumps,   *)
(* branches and host calls whose prediction was wrong.                     *)
LEMMA ExecutedMarks ==
    ASSUME NEW x, NEW val, NEW lat, DOMAIN op[x] = Fields
    PROVE  ExecutedFrom(Executed(x, val, lat), op[x], SigOf(x).cls)
<1> DEFINE i == InsnOf(x)
           o == [op[x] EXCEPT !.issued = TRUE, !.cc = SigOf(x).lat]
           m == [o EXCEPT !.ea = EffectiveAddress(i, val), !.v = val,
                          !.aux = IF UseL1d THEN lat ELSE -1, !.cc = IF UseL1d THEN -1 ELSE lat]
           target == CASE i.k \in Branches -> IF TakeBr(i, val) THEN BranchTarget(i, o.pc)
                                              ELSE Unsigned(o.pc + 8)
                       [] i.k \in Jumps    -> JumpTarget(i, val)
                       [] i.k = "monitor"  -> val[GPR(31)]
           load == [m EXCEPT !.lexc = @ \/ Misaligned(i, m.ea)]
           jump == [o EXCEPT !.target = target, !.exc = (o.npc # target)]
           branch == [o EXCEPT !.target = target,
                               !.slot = TakeBr(i, val) \/ i.k \notin Likely,
                               !.exc = Mispredicted(i, o, TakeBr(i, val))]
           monitor == [o EXCEPT !.v = val, !.target = target, !.exc = TRUE]
           e == Executed(x, val, lat)
<1>0. /\ SigOf(x).cls \in {"load", "store"} => i.k \notin Jumps \cup Branches \cup {"monitor"}
      /\ i.k \in Jumps => i.k \notin Branches \cup {"monitor"}
      /\ i.k \in Branches => i.k # "monitor"
  <2>1. i.k \in Mnemonics
    BY Decodes DEF InsnOf
  <2>2. SigOf(x).cls \in {"load", "store"}
          => i.k \in LoadOps \cup {"lwc1", "ldc1"} \cup StoreOps \cup {"swc1", "sdc1"}
    BY <2>1, Decode DEF SigOf
  <2> QED
    BY <2>2 DEF LoadOps, StoreOps, Jumps, Branches, Likely, NonLikely
<1>1. e = CASE SigOf(x).cls = "load"  -> load
            [] SigOf(x).cls = "store" -> m
            [] i.k \in Jumps          -> jump
            [] i.k \in Branches       -> branch
            [] i.k = "monitor"        -> monitor
            [] OTHER                  -> o
  BY Zenon DEF Executed
<1> HIDE DEF e, target, i
<1> DEFINE Same(p) == /\ DOMAIN p = Fields /\ p.done = op[x].done
                      /\ \A f \in Names : p[f] = op[x][f]
<1> USE DEF Fields, Names
<1>2. Same(o) /\ o.lexc = op[x].lexc /\ o.exc = op[x].exc
  OBVIOUS
<1> HIDE DEF o
<1>3. Same(m) /\ m.lexc = op[x].lexc /\ m.exc = op[x].exc
  BY <1>2
<1> HIDE DEF m
<1>4. Same(load) /\ load.exc = op[x].exc
  BY <1>3
<1>5. Same(jump) /\ jump.lexc = op[x].lexc
  BY <1>2
<1>6. Same(branch) /\ branch.lexc = op[x].lexc
  BY <1>2
<1>7. Same(monitor) /\ monitor.lexc = op[x].lexc
  BY <1>2
<1> HIDE DEF load, jump, branch, monitor
<1>8. CASE SigOf(x).cls = "load"
  <2>1. e = load
    BY <1>0, <1>1, <1>8
  <2> QED
    BY <1>4, <1>8, <2>1 DEF ExecutedFrom, e
<1>9. CASE SigOf(x).cls = "store"
  <2>1. e = m
    BY <1>0, <1>1, <1>9
  <2> QED
    BY <1>3, <1>9, <2>1 DEF ExecutedFrom, e
<1>10. CASE SigOf(x).cls \notin {"load", "store"}
  <2>1. e \in {jump, branch, monitor, o}
    BY <1>0, <1>1, <1>10
  <2>2. Same(e) /\ (e.lexc = op[x].lexc)
    BY <1>2, <1>5, <1>6, <1>7, <2>1
  <2> QED
    BY <1>10, <2>2 DEF ExecutedFrom, e
<1> QED
  BY <1>8, <1>9, <1>10

(* execute(): an operation is issued whose sources are valid.              *)
LEMMA ExecuteNames ==
    ASSUME WindowInv, ExecuteOne
    PROVE  \E x \in Elems(rob) :
             /\ ~ op[x].done /\ ~ op'[x].done /\ RangeOf(op[x].src) \subseteq valid
             /\ Keeps(x, Names)
             /\ op'[x].lexc => op[x].lexc \/ SigOf(x).cls = "load"
             /\ op'[x].exc => op[x].exc \/ SigOf(x).cls \notin {"load", "store"}
             /\ \A y \in Live : y # x => Keeps(y, RenameFields)
             /\ Live' \subseteq Live
<1> DEFINE cc == SchedOrder[Min(Schedulable)]
           xx == rs[cc][Min(ReadyAt(cc))]
<1>1. PICK c, x, val, lat :
        /\ c \in Classes /\ x \in Elems(rs[c]) /\ Ready(x) /\ ~ nuke
        /\ op' = [op EXCEPT ![x] = Executed(x, val, lat)]
  <2>1. Schedulable # {}
    BY DEF ExecuteOne
  <2>2. cc \in Classes /\ xx \in Elems(rs[cc]) /\ ~ nuke
    BY <2>1, ScheduledOp
  <2>3. PICK val, lat : op' = [op EXCEPT ![xx] = Executed(xx, val, lat)]
    BY DEF ExecuteOne
  <2>4. Ready(xx)
    <3>1. Min(Schedulable) \in Schedulable
      <4>1. Schedulable \in SUBSET Nat
        BY DEF Schedulable, SchedOrder
      <4> QED
        BY <2>1, <4>1, MinIn
    <3>2. ReadyAt(cc) # {}
      BY <3>1 DEF Schedulable
    <3> HIDE DEF cc
    <3>3. Min(ReadyAt(cc)) \in ReadyAt(cc)
      <4>1. ReadyAt(cc) \in SUBSET Nat
        BY <2>2 DEF ReadyAt, WindowInv, Shape
      <4> QED
        BY <3>2, <4>1, MinIn
    <3> QED
      BY <3>3 DEF ReadyAt
  <2> HIDE DEF cc, xx
  <2> QED
    BY <2>2, <2>3, <2>4
<1> HIDE DEF cc, xx
<1>2. x \in Elems(rob) /\ ~ op[x].issued
  BY <1>1 DEF WindowInv, Waiting
<1>3. x \in Live /\ DOMAIN op[x] = Fields /\ ~ op[x].done
  BY <1>2, QueuesLive, LiveFields DEF WindowInv, Unissued
<1>4. PICK o : o = Executed(x, val, lat)
  OBVIOUS
<1>5. ExecutedFrom(o, op[x], SigOf(x).cls)
  BY <1>3, <1>4, ExecutedMarks
<1>6. /\ \A y \in Live : y # x => op'[y] = op[y]
      /\ op'[x] = o
      /\ Live' \subseteq Live
  BY <1>1, <1>3, <1>4, OneOp
<1>7. RangeOf(op[x].src) \subseteq valid
  BY <1>1 DEF Ready, RangeSet, RangeOf
<1> QED
  BY <1>2, <1>3, <1>5, <1>6, <1>7 DEF ExecutedFrom, Keeps

-----------------------------------------------------------------------------
(* The marks                                                               *)

(* The steps that neither rename, execute, complete nor retire.            *)
QuietFront == FetchSlot \/ FetchInsn \/ DecodeOne \/ CacheTick \/ NextCycle \/ ThreadYield
QuietRetire ==
    \/ RetireIdle \/ RetireException \/ RetireWaitSlot \/ ExceptionBegin
    \/ ExceptionWaitSlot \/ DelaySlotException \/ RetireEnd
QuietStep == QuietFront \/ QuietRetire \/ Terminated \/ UNCHANGED vars

(* These steps leave alone everything that renaming looks at.              *)
LEMMA QuietNames ==
    ASSUME WindowInv, QuietStep
    PROVE  /\ \A y \in Live : Keeps(y, RenameFields)
           /\ \A y \in Live' : y \in Live \/ Unmarked(y)'
           /\ UNCHANGED <<rob, load_tbl, nuke>>
           /\ UNCHANGED <<rat, rat_retire, freevec, freevec_retire, valid>>
<1>1. CASE FetchSlot \/ FetchInsn
  <2>1. PICK pc, npc, taken : FetchMore /\ PushFetch(pc, npc, taken)
    <3>1. CASE FetchSlot
      BY <3>1 DEF FetchSlot
    <3>2. CASE FetchInsn
      BY <3>2 DEF FetchInsn
    <3> QED
      BY <1>1, <3>1, <3>2
  <2>2. /\ UNCHANGED <<rob, load_tbl, nuke>>
        /\ UNCHANGED <<rat, rat_retire, freevec, freevec_retire, valid>>
    BY <2>1 DEF PushFetch, windowVars, renameVars
  <2> QED
    BY <2>1, <2>2, QuietOps
<1>2. CASE DecodeOne \/ CacheTick \/ NextCycle
  <2>1. /\ UNCHANGED <<rob, load_tbl, nuke>>
        /\ UNCHANGED <<rat, rat_retire, freevec, freevec_retire, valid>>
    BY <1>2 DEF DecodeOne, CacheTick, NextCycle, queueVars, windowVars, renameVars
  <2> QED
    BY <1>2, <2>1, QuietOps
<1>3. CASE ThreadYield \/ QuietRetire \/ Terminated \/ UNCHANGED vars
  <2>1. op' = op /\ UNCHANGED <<queueVars, windowVars, nuke, renameVars>>
    <3>1. CASE ThreadYield
      BY <3>1 DEF ThreadYield
    <3>2. CASE QuietRetire
      BY <3>2 DEF QuietRetire, RetireIdle, RetireException, RetireWaitSlot, ExceptionBegin,
         ExceptionWaitSlot, DelaySlotException, RetireEnd, RetireMoves
    <3>3. CASE Terminated \/ UNCHANGED vars
      BY <3>3 DEF Terminated, vars
    <3> QED
      BY <1>3, <3>1, <3>2, <3>3
  <2>2. /\ UNCHANGED <<rob, load_tbl, nuke>>
        /\ UNCHANGED <<rat, rat_retire, freevec, freevec_retire, valid>>
    BY <2>1 DEF queueVars, windowVars, renameVars
  <2> QED
    BY <2>1, <2>2, QuietOps
<1> QED
  BY <1>1, <1>2, <1>3 DEF QuietStep, QuietFront

(* An operation keeps its signature with its pc.                           *)
LEMMA SigKept == ASSUME NEW x, Keeps(x, Names) PROVE SigOf(x)' = SigOf(x)
BY DEF Keeps, Names, SigOf, InsnOf

(* Fewer fields are kept too.                                              *)
LEMMA RenameKeeps ==
    ASSUME NEW x
    PROVE  /\ \A F, G : Keeps(x, F) /\ G \subseteq F => Keeps(x, G)
           /\ Keeps(x, RenameFields) => Keeps(x, Names)
           /\ Keeps(x, RenameFields \ {"lexc"}) => Keeps(x, Names)
           /\ Keeps(x, RenameFields \ {"done"}) => Keeps(x, Names)
BY DEF Keeps, RenameFields, Names

(* Marks appear on loads, or on operations that are no loads and stores.   *)
LEMMA MarksKept ==
    ASSUME Marks,
           \A y \in Live' :
              \/ Unmarked(y)'
              \/ /\ y \in Live /\ SigOf(y)' = SigOf(y)
                 /\ op'[y].lexc => op[y].lexc \/ SigOf(y).cls = "load"
                 /\ op'[y].exc => op[y].exc \/ SigOf(y).cls \notin {"load", "store"},
           \/ nuke'
           \/ \A x \in load_tbl' : /\ SigOf(x)' = SigOf(x)
                                   /\ (x \in load_tbl /\ ~ nuke) \/ SigOf(x).cls = "load"
    PROVE  Marks'
BY DEF Marks, Unmarked

(* The head keeps its marks.                                               *)
LEMMA HeadKept ==
    ASSUME WindowInv, HeadMarks, rpc' = rpc, rob # <<>> => Head(rob') = Head(rob),
           \A y \in Elems(rob) : op[y].done =>
                op'[y].lexc = op[y].lexc /\ op'[y].exc = op[y].exc
    PROVE  HeadMarks'
<1> SUFFICES ASSUME rpc \in {"slot", "excslot", "excuu"} PROVE HeadMarks'
  BY DEF HeadMarks
<1>1. rob # <<>> /\ op[Head(rob)].done
  BY DEF WindowInv, HeadDone
<1>2. Head(rob) \in Elems(rob)
  BY <1>1, TailElems DEF WindowInv, Shape
<1> QED
  BY <1>1, <1>2 DEF HeadMarks

(* The load table is live outside the recovery.                            *)
LEMMA LoadsLive ==
    ASSUME WindowInv
    PROVE  /\ ~ nuke => load_tbl \subseteq Elems(rob)
           /\ Elems(rob) \subseteq Live
BY QueuesLive DEF WindowInv, Tables

(* The quiet steps keep the marks; a retirement that starts to wait for    *)
(* its delay slot has read the marks of the head before.                   *)
LEMMA QuietMarks ==
    ASSUME WindowInv, MarkInv, QuietStep
    PROVE  MarkInv'
<1>1. /\ \A y \in Live : Keeps(y, RenameFields)
      /\ \A y \in Live' : y \in Live \/ Unmarked(y)'
      /\ UNCHANGED <<rob, load_tbl, nuke>>
  BY QuietNames
<1>2. \A y \in Live : /\ SigOf(y)' = SigOf(y)
                      /\ op'[y].lexc = op[y].lexc /\ op'[y].exc = op[y].exc
                      /\ op'[y].done = op[y].done
  <2> SUFFICES ASSUME NEW y \in Live
               PROVE  /\ SigOf(y)' = SigOf(y)
                      /\ op'[y].lexc = op[y].lexc /\ op'[y].exc = op[y].exc
                      /\ op'[y].done = op[y].done
    OBVIOUS
  <2>1. Keeps(y, RenameFields) /\ Keeps(y, Names)
    BY <1>1, RenameKeeps
  <2> QED
    BY <2>1, SigKept DEF Keeps, RenameFields
<1>3. Marks'
  <2>1. \/ nuke'
        \/ \A x \in load_tbl' : /\ SigOf(x)' = SigOf(x)
                                /\ (x \in load_tbl /\ ~ nuke) \/ SigOf(x).cls = "load"
    BY <1>1, <1>2, LoadsLive
  <2>2. Marks
    BY DEF MarkInv
  <2> QED
    BY <1>1, <1>2, <2>1, <2>2, MarksKept
<1>4. HeadMarks'
  <2>0. HeadMarks /\ Elems(rob) \subseteq Live
    BY LoadsLive DEF MarkInv
  <2>1. CASE rpc' = rpc
    BY <1>1, <1>2, <2>0, <2>1, HeadKept
  <2>2. CASE rpc' # rpc
    <3>1. QuietRetire
      BY <2>2 DEF QuietStep, QuietFront, FetchSlot, FetchInsn, PushFetch, DecodeOne, CacheTick,
         NextCycle, ThreadYield, Terminated, vars
    <3>2. rpc' \in {"slot", "excslot", "excuu"} => RetireWaitSlot \/ ExceptionBegin
      BY <2>2, <3>1 DEF QuietRetire, RetireIdle, RetireException, RetireWaitSlot, ExceptionBegin,
         ExceptionWaitSlot, DelaySlotException, RetireEnd
    <3>3. ASSUME rob # <<>> PROVE Head(rob) \in Live
      BY <2>0, <3>3, TailElems DEF WindowInv, Shape
    <3>4. CASE RetireWaitSlot
      <4>1. rob # <<>> /\ ~ op[Head(rob)].lexc /\ rpc' = "slot"
        BY <2>2, <3>4 DEF RetireWaitSlot, RetireMore, u
      <4> QED
        BY <1>1, <1>2, <3>3, <4>1 DEF HeadMarks
    <3>5. CASE ExceptionBegin
      <4>1. rob # <<>> /\ (rpc' = "nuke" \/ (op[Head(rob)].exc /\ rpc' = "excslot"))
        BY <3>5 DEF ExceptionBegin, u, WindowInv, HeadDone
      <4>2. op[Head(rob)].exc => ~ op[Head(rob)].lexc
        BY <3>3, <4>1 DEF MarkInv, Marks
      <4> QED
        BY <1>1, <1>2, <3>3, <4>1, <4>2 DEF HeadMarks
    <3> QED
      BY <3>2, <3>4, <3>5 DEF HeadMarks
  <2> QED
    BY <2>1, <2>2
<1> QED
  BY <1>3, <1>4 DEF MarkInv

(* The steps that retire an operation: it is done and not marked for a     *)
(* replay.                                                                 *)
RetireStep == RetireOne \/ ExceptionNoSlot \/ ExceptionBranch \/ ExceptionSlot

(* What retire() retires is done and not marked for a replay; when it goes *)
(* on with a delay slot, so is that.                                       *)
LEMMA RetireHead ==
    ASSUME WindowInv, MarkInv, RetireStep
    PROVE  /\ rob # <<>> /\ op[Head(rob)].done /\ ~ op[Head(rob)].lexc /\ RetireOp(Head(rob))
           /\ Head(rob) \in Live /\ Head(rob) \in Elems(rob) /\ ~ nuke
           /\ \/ rpc' \in {"loop", "nuke"}
              \/ /\ rpc' = "excuu" /\ Len(rob) >= 2 /\ op[rob[2]].done
                 /\ ~ op[rob[2]].lexc /\ op[Head(rob)].exc
<1> USE DEF u, uu
<1>0. HeadDone /\ Marks /\ HeadMarks
  BY DEF WindowInv, MarkInv
<1>1. rob # <<>> /\ op[Head(rob)].done /\ RetireOp(Head(rob))
  BY <1>0 DEF RetireStep, RetireOne, ExceptionNoSlot, ExceptionBranch, ExceptionSlot, HeadDone,
     RetireMore
<1>2. Head(rob) \in Live /\ Head(rob) \in Elems(rob)
  BY <1>1, TailElems, QueuesLive DEF WindowInv, Shape
<1>3. ~ nuke
  BY <1>1 DEF WindowInv, Recovery
<1>4. CASE RetireOne
  <2>1. ~ op[Head(rob)].lexc /\ rpc' = "loop"
    BY <1>0, <1>4 DEF RetireOne, HeadMarks
  <2> QED
    BY <1>1, <1>2, <1>3, <2>1
<1>5. CASE ExceptionNoSlot
  <2>1. ~ op[Head(rob)].lexc /\ rpc' = "nuke"
    BY <1>0, <1>2, <1>5 DEF ExceptionNoSlot, Marks
  <2> QED
    BY <1>1, <1>2, <1>3, <2>1
<1>6. CASE ExceptionBranch
  <2>1. /\ ~ op[Head(rob)].lexc /\ op[Head(rob)].exc
        /\ rpc' = "excuu" /\ Len(rob) >= 2 /\ op[rob[2]].done /\ ~ op[rob[2]].lexc
    BY <1>0, <1>6 DEF ExceptionBranch, HeadMarks, SlotDone
  <2> QED
    BY <1>1, <1>2, <1>3, <2>1
<1>7. CASE ExceptionSlot
  <2>1. ~ op[Head(rob)].lexc /\ rpc' = "nuke"
    BY <1>0, <1>7 DEF ExceptionSlot, HeadMarks
  <2> QED
    BY <1>1, <1>2, <1>3, <2>1
<1> QED
  BY <1>4, <1>5, <1>6, <1>7 DEF RetireStep

(* retire() marks loads for a replay, and only when it retires a store.    *)
LEMMA RetireMarks ==
    ASSUME WindowInv, MarkInv, RetireStep
    PROVE  MarkInv'
<1>1. PICK x : x = Head(rob)
  OBVIOUS
<1>2. /\ rob # <<>> /\ RetireOp(x) /\ ~ nuke /\ x \in Live /\ x \in Elems(rob)
      /\ \/ rpc' \in {"loop", "nuke"}
         \/ /\ rpc' = "excuu" /\ Len(rob) >= 2 /\ op[rob[2]].done
            /\ ~ op[rob[2]].lexc /\ op[x].exc
  BY <1>1, RetireHead
<1>3. /\ \A y \in Live : y # x =>
            /\ Keeps(y, RenameFields \ {"lexc"})
            /\ op'[y].lexc => op[y].lexc \/ (y \in load_tbl /\ SigOf(x).cls = "store")
      /\ Live' \subseteq Live \ {x}
  BY <1>1, <1>2, RetireNames
<1>4. \A y \in Live : y # x => SigOf(y)' = SigOf(y) /\ op'[y].exc = op[y].exc
  <2> SUFFICES ASSUME NEW y \in Live, y # x PROVE SigOf(y)' = SigOf(y) /\ op'[y].exc = op[y].exc
    OBVIOUS
  <2>1. Keeps(y, RenameFields \ {"lexc"}) /\ Keeps(y, Names)
    BY <1>3, RenameKeeps
  <2> QED
    BY <2>1, SigKept DEF Keeps, RenameFields
<1>5. Marks
  BY DEF MarkInv
<1>6. load_tbl \subseteq Live /\ load_tbl' \subseteq load_tbl \ {x} /\ nuke' = nuke
  BY <1>2, LoadsLive DEF RetireOp, LeaveTbl
<1>7. Marks'
  BY <1>2, <1>3, <1>4, <1>5, <1>6, MarksKept DEF Marks
<1>8. HeadMarks'
  <2>1. CASE rpc' \in {"loop", "nuke"}
    BY <2>1 DEF HeadMarks
  <2>2. CASE /\ rpc' = "excuu" /\ Len(rob) >= 2 /\ op[rob[2]].done
             /\ ~ op[rob[2]].lexc /\ op[x].exc
    <3>1. rob' = Tail(rob) /\ Head(rob') = rob[2]
      BY <1>2, <2>2, TailHead DEF RetireOp, WindowInv, Shape
    <3>2. rob[2] \in Elems(rob) /\ rob[2] # x
      <4>1. rob \in Seq(Ids) /\ 2 \in DOMAIN rob /\ 1 \in DOMAIN rob /\ x = rob[1]
        BY <1>1, <2>2 DEF WindowInv, Shape
      <4> QED
        BY <4>1 DEF Elems, WindowInv, OnePlace, NoRepeat
    <3>3. SigOf(x).cls # "store"
      BY <1>2, <1>5, <2>2 DEF Marks
    <3>4. ~ op'[rob[2]].lexc
      BY <1>3, <2>2, <3>2, <3>3, LoadsLive
    <3> QED
      BY <2>2, <3>1, <3>4 DEF HeadMarks
  <2> QED
    BY <1>2, <2>1, <2>2
<1> QED
  BY <1>7, <1>8 DEF MarkInv

(* allocate() puts loads into the load table, and marks nothing.           *)
LEMMA AllocateMarks ==
    ASSUME WindowInv, MarkInv, AllocateOne
    PROVE  MarkInv'
<1>1. PICK x : x = Head(decode_queue)
  OBVIOUS
<1>2. /\ x \in Live /\ x \notin Elems(rob)
      /\ rob' = Append(rob, x)
      /\ Keeps(x, RenameFields \ {"src", "new", "prev"})
      /\ \A y \in Live : y # x => Keeps(y, RenameFields)
      /\ Live' \subseteq Live
  BY <1>1, AllocateOps
<1>3. \A y \in Live : /\ SigOf(y)' = SigOf(y)
                      /\ op'[y].lexc = op[y].lexc /\ op'[y].exc = op[y].exc
  <2> SUFFICES ASSUME NEW y \in Live
               PROVE  Keeps(y, {"pc", "lexc", "exc"})
    BY DEF Keeps, SigOf, InsnOf
  <2>1. CASE y = x
    BY <1>2, <2>1 DEF Keeps, RenameFields, Names
  <2>2. CASE y # x
    BY <1>2, <2>2 DEF Keeps, RenameFields, Names
  <2> QED
    BY <2>1, <2>2
<1>4. /\ load_tbl' = (IF SigOf(x).cls = "load" THEN load_tbl \cup {x} ELSE load_tbl)
      /\ nuke' = nuke /\ ~ nuke /\ rpc' = rpc
  BY <1>1 DEF AllocateOne, AllocateMore
<1>5. Marks' 
  <2>1. \A y \in load_tbl' : /\ SigOf(y)' = SigOf(y)
                             /\ (y \in load_tbl /\ ~ nuke) \/ SigOf(y).cls = "load"
    BY <1>2, <1>3, <1>4, LoadsLive
  <2>2. Marks
    BY DEF MarkInv
  <2> QED
    BY <1>2, <1>3, <2>1, <2>2, MarksKept
<1>6. HeadMarks'
  <2>1. rob # <<>> => Head(rob') = Head(rob)
    BY <1>2, AppendElems DEF WindowInv, Shape, Live
  <2> QED
    BY <1>3, <1>4, <2>1, HeadKept, LoadsLive DEF MarkInv
<1> QED
  BY <1>5, <1>6 DEF MarkInv

(* execute() keeps the marks, as the op classes set them.                  *)
LEMMA ExecuteMarks ==
    ASSUME WindowInv, MarkInv, ExecuteOne
    PROVE  MarkInv'
<1>1. PICK x \in Elems(rob) :
        /\ ~ op[x].done /\ ~ op'[x].done
        /\ Keeps(x, Names)
        /\ op'[x].lexc => op[x].lexc \/ SigOf(x).cls = "load"
        /\ op'[x].exc => op[x].exc \/ SigOf(x).cls \notin {"load", "store"}
        /\ \A y \in Live : y # x => Keeps(y, RenameFields)
        /\ Live' \subseteq Live
  BY ExecuteNames
<1>2. UNCHANGED <<rob, load_tbl, nuke, rpc>>
  BY DEF ExecuteOne, queueVars
<1>3. \A y \in Live : y # x => op'[y].lexc = op[y].lexc /\ op'[y].exc = op[y].exc
  BY <1>1 DEF Keeps, RenameFields
<1>4. \A y \in Live : SigOf(y)' = SigOf(y)
  <2> SUFFICES ASSUME NEW y \in Live PROVE Keeps(y, Names)
    BY SigKept
  <2> QED
    BY <1>1, RenameKeeps
<1>5. Marks'
  <2>1. nuke' \/ \A y \in load_tbl' : /\ SigOf(y)' = SigOf(y)
                                      /\ (y \in load_tbl /\ ~ nuke) \/ SigOf(y).cls = "load"
    BY <1>2, <1>4, LoadsLive
  <2>2. Marks
    BY DEF MarkInv
  <2>3. \A y \in Live' :
           /\ y \in Live /\ SigOf(y)' = SigOf(y)
           /\ op'[y].lexc => op[y].lexc \/ SigOf(y).cls = "load"
           /\ op'[y].exc => op[y].exc \/ SigOf(y).cls \notin {"load", "store"}
    BY <1>1, <1>3, <1>4
  <2> QED
    BY <2>1, <2>2, <2>3, MarksKept
<1>6. HeadMarks'
  <2>1. \A y \in Elems(rob) : op[y].done => op'[y].lexc = op[y].lexc /\ op'[y].exc = op[y].exc
    BY <1>1, <1>3, LoadsLive
  <2> QED
    BY <1>2, <2>1, HeadKept DEF MarkInv
<1> QED
  BY <1>5, <1>6 DEF MarkInv

(* complete() marks nothing.                                               *)
LEMMA CompleteMarks ==
    ASSUME WindowInv, MarkInv, CompleteOne
    PROVE  MarkInv'
<1>1. PICK x \in Elems(rob) :
        /\ Keeps(x, RenameFields \ {"done"})
        /\ \A y \in Live : y # x => Keeps(y, RenameFields)
        /\ Live' \subseteq Live
  BY CompleteNames
<1>2. UNCHANGED <<rob, load_tbl, nuke, rpc>>
  BY DEF CompleteOne, queueVars, windowVars
<1>3. \A y \in Live : /\ SigOf(y)' = SigOf(y)
                      /\ op'[y].lexc = op[y].lexc /\ op'[y].exc = op[y].exc
  <2> SUFFICES ASSUME NEW y \in Live PROVE Keeps(y, Names \cup {"lexc", "exc"})
    BY DEF Keeps, Names, SigOf, InsnOf
  <2> QED
    BY <1>1 DEF Keeps, RenameFields, Names
<1>4. Marks'
  <2>1. nuke' \/ \A y \in load_tbl' : /\ SigOf(y)' = SigOf(y)
                                      /\ (y \in load_tbl /\ ~ nuke) \/ SigOf(y).cls = "load"
    BY <1>2, <1>3, LoadsLive
  <2>2. Marks
    BY DEF MarkInv
  <2> QED
    BY <1>1, <1>3, <2>1, <2>2, MarksKept
<1>5. HeadMarks'
  BY <1>2, <1>3, HeadKept, LoadsLive DEF MarkInv
<1> QED
  BY <1>4, <1>5 DEF MarkInv

(* The recovery deletes operations, and marks none.                        *)
LEMMA RecoveryMarks ==
    ASSUME WindowInv, MarkInv, Nuke \/ RecoverySleep
    PROVE  MarkInv'
<1>1. HeadMarks'
  BY DEF HeadMarks, Nuke, RecoverySleep, ClearWindow
<1>2. CASE ClearWindow
  <2>1. Live' = {} /\ load_tbl' = {}
    BY <1>2 DEF ClearWindow, Live
  <2> QED
    BY <1>1, <2>1 DEF MarkInv, Marks
<1>3. CASE ~ ClearWindow
  <2>1. nuke' = TRUE /\ \A y \in Ids : op'[y] = op[y] \/ op'[y] = Null
    <3>1. CASE Nuke
      BY <1>3, <3>1 DEF Nuke
    <3>2. CASE RecoverySleep
      BY <1>3, <3>2 DEF RecoverySleep, WindowInv, Recovery
    <3> QED
      BY <3>1, <3>2
  <2>2. \A y \in Live' : y \in Live /\ op'[y] = op[y] /\ SigOf(y)' = SigOf(y)
    BY <2>1 DEF Live, SigOf, InsnOf
  <2>3. Marks'
    BY <2>1, <2>2 DEF MarkInv, Marks
  <2> QED
    BY <1>1, <2>3 DEF MarkInv
<1> QED
  BY <1>2, <1>3

(* Every step is of one of these kinds.                                    *)
LEMMA StepKinds ==
    ASSUME [Next]_vars
    PROVE  \/ QuietStep \/ RetireStep \/ AllocateOne \/ ExecuteOne \/ CompleteOne
           \/ Nuke \/ RecoverySleep
BY DEF Next, retire, QuietStep, QuietFront, QuietRetire, RetireStep

(* Every step keeps the marks.                                             *)
LEMMA NextMarks ==
    ASSUME WindowInv, MarkInv, [Next]_vars
    PROVE  MarkInv'
BY StepKinds, QuietMarks, RetireMarks, AllocateMarks, ExecuteMarks, CompleteMarks, RecoveryMarks

-----------------------------------------------------------------------------
(* The steps keep the renaming                                             *)

(* An operation that keeps its names was renamed where it was before.      *)
LEMMA RenamedKept ==
    ASSUME NEW x, Keeps(x, Names)
    PROVE  /\ \A t, n : Renamed(x, t, n)' <=> Renamed(x, t, n)
           /\ Taken(x)' = Taken(x)
           /\ op'[x].new = op[x].new /\ op'[x].src = op[x].src
           /\ SigOf(x)' = SigOf(x)
<1>1. op'[x].new = op[x].new /\ op'[x].src = op[x].src /\ op'[x].prev = op[x].prev
  BY DEF Keeps, Names
<1>2. SigOf(x)' = SigOf(x)
  BY SigKept
<1> QED
  BY <1>1, <1>2 DEF Renamed, RenamedAt, Taken

(* A step that leaves the tables and the registers of the rob alone.       *)
LEMMA TablesKept ==
    ASSUME Shape, RenameInv, UNCHANGED <<rob, rat, rat_retire, freevec, freevec_retire>>,
           \A y \in Elems(rob) : Keeps(y, Names)
    PROVE  Chained' /\ OneOwner' /\ InUse'
<1>1. PICK T : IsChain(T)
  BY DEF RenameInv, Chained
<1>2. /\ \A j \in 1 .. Len(rob) : rob[j] \in Elems(rob)
      /\ Elems(rob)' = Elems(rob)
  BY RobElems DEF Elems
<1>3. \A y \in Elems(rob) : /\ \A t, n : Renamed(y, t, n)' <=> Renamed(y, t, n)
                            /\ Taken(y)' = Taken(y)
                            /\ op'[y].new = op[y].new
  BY RenamedKept
<1>4. IsChain(T)'
  BY <1>1, <1>2, <1>3 DEF IsChain
<1>5. OneOwner'
  BY <1>2, <1>3 DEF RenameInv, OneOwner
<1>6. TakenAll' = TakenAll
  BY <1>2, <1>3 DEF TakenAll
<1>7. InUse'
  BY <1>6 DEF RenameInv, InUse
<1> QED
  BY <1>4, <1>5, <1>7 DEF Chained

(* The valid bits of an operation outlast a step that changes no valid     *)
(* bit, does not complete it and clears no mark of a completed one.        *)
LEMMA ValidKept ==
    ASSUME NEW y, ValidOf(y), valid' = valid, Keeps(y, Names), op'[y].done = op[y].done,
           op'[y].issued => op[y].issued \/ RangeOf(op[y].src) \subseteq valid,
           op[y].lexc => op'[y].lexc \/ ~ op[y].done
    PROVE  ValidOf(y)'
<1>1. /\ Taken(y)' = Taken(y) /\ SigOf(y)' = SigOf(y) /\ op'[y].src = op[y].src
  BY RenamedKept
<1> QED
  BY <1>1 DEF ValidOf

(* The quiet steps keep the renaming.                                      *)
LEMMA QuietRename ==
    ASSUME WindowInv, RenameInv, QuietStep
    PROVE  RenameInv'
<1>1. /\ \A y \in Live : Keeps(y, RenameFields)
      /\ UNCHANGED <<rob, load_tbl, nuke>>
      /\ UNCHANGED <<rat, rat_retire, freevec, freevec_retire, valid>>
  BY QuietNames
<1>2. Elems(rob) \subseteq Live /\ Elems(rob)' = Elems(rob)
  BY <1>1, LoadsLive DEF Elems
<1>3. \A y \in Elems(rob) : Keeps(y, Names)
  BY <1>1, <1>2, RenameKeeps
<1>4. \A y \in Elems(rob) : ValidOf(y)'
  <2> SUFFICES ASSUME NEW y \in Elems(rob) PROVE ValidOf(y)'
    OBVIOUS
  <2>1. ValidOf(y) /\ Keeps(y, Names)
    BY <1>3 DEF RenameInv, ValidBits
  <2>2. op'[y].done = op[y].done /\ op'[y].issued = op[y].issued /\ op'[y].lexc = op[y].lexc
    BY <1>1, <1>2 DEF Keeps, RenameFields
  <2> QED
    BY <1>1, <2>1, <2>2, ValidKept
<1>5. ValidBits'
  BY <1>1, <1>2, <1>4 DEF ValidBits, RenameInv
<1> QED
  BY <1>1, <1>3, <1>5, TablesKept DEF RenameInv, WindowInv

(* execute() issues an operation whose sources are valid.                  *)
LEMMA ExecuteRename ==
    ASSUME WindowInv, RenameInv, ExecuteOne
    PROVE  RenameInv'
<1>1. PICK x \in Elems(rob) :
        /\ ~ op[x].done /\ ~ op'[x].done /\ RangeOf(op[x].src) \subseteq valid
        /\ Keeps(x, Names)
        /\ \A y \in Live : y # x => Keeps(y, RenameFields)
  BY ExecuteNames
<1>2. UNCHANGED <<rob, rat, rat_retire, freevec, freevec_retire, valid>>
  BY DEF ExecuteOne, queueVars
<1>3. Elems(rob) \subseteq Live /\ Elems(rob)' = Elems(rob)
  BY <1>2, LoadsLive DEF Elems
<1>4. \A y \in Elems(rob) : Keeps(y, Names)
  BY <1>1, <1>3, RenameKeeps
<1>5. ASSUME NEW y \in Elems(rob) PROVE ValidOf(y)'
  <2>1. ValidOf(y) /\ Keeps(y, Names)
    BY <1>4 DEF RenameInv, ValidBits
  <2>2. CASE y = x
    <3>1. Taken(x)' = Taken(x) /\ op'[x].src = op[x].src
      BY <1>1, RenamedKept
    <3> QED
      BY <1>1, <1>2, <2>1, <2>2, <3>1 DEF ValidOf
  <2>3. CASE y # x
    <3>1. op'[y].done = op[y].done /\ op'[y].issued = op[y].issued /\ op'[y].lexc = op[y].lexc
      BY <1>1, <1>3, <2>3 DEF Keeps, RenameFields
    <3> QED
      BY <1>2, <2>1, <3>1, ValidKept
  <2> QED
    BY <2>2, <2>3
<1>6. ValidBits'
  BY <1>2, <1>3, <1>5 DEF ValidBits, RenameInv
<1> QED
  BY <1>2, <1>4, <1>6, TablesKept DEF RenameInv, WindowInv

(* complete() makes the registers of one operation valid, unless it is a   *)
(* load that will be replayed or a host call: those of no other operation, *)
(* as nobody shares a register.                                            *)
LEMMA CompleteRename ==
    ASSUME WindowInv, RenameInv, CompleteOne
    PROVE  RenameInv'
<1>1. PICK x \in Elems(rob) :
        /\ ~ op[x].done /\ op'[x].done /\ op[x].issued
        /\ valid' = IF SigOf(x).at = "retire" \/ op[x].lexc THEN valid
                    ELSE valid \cup RangeOf(op[x].new)
        /\ Keeps(x, RenameFields \ {"done"})
        /\ \A y \in Live : y # x => Keeps(y, RenameFields)
  BY CompleteNames
<1>2. UNCHANGED <<rob, rat, rat_retire, freevec, freevec_retire>>
  BY DEF CompleteOne, queueVars
<1>3. Elems(rob) \subseteq Live /\ Elems(rob)' = Elems(rob)
  BY <1>2, LoadsLive DEF Elems
<1>4. \A y \in Elems(rob) : Keeps(y, Names)
  BY <1>1, <1>3, RenameKeeps
<1>5. valid \subseteq valid' /\ valid' \subseteq valid \cup Taken(x)
  BY <1>1 DEF Taken
<1>6. ASSUME NEW y \in Elems(rob) PROVE ValidOf(y)'
  <2>1. /\ ValidOf(y) /\ Taken(y)' = Taken(y) /\ SigOf(y)' = SigOf(y)
        /\ op'[y].src = op[y].src
    BY <1>4, RenamedKept DEF RenameInv, ValidBits
  <2>2. CASE y = x
    <3>1. op'[x].issued = op[x].issued /\ op'[x].lexc = op[x].lexc
      BY <1>1 DEF Keeps, RenameFields
    <3> QED
      BY <1>1, <1>5, <2>1, <2>2, <3>1 DEF ValidOf, Taken
  <2>3. CASE y # x
    <3>1. op'[y].done = op[y].done /\ op'[y].issued = op[y].issued /\ op'[y].lexc = op[y].lexc
      BY <1>1, <1>3, <2>3 DEF Keeps, RenameFields
    <3>2. Taken(x) \cap Taken(y) = {}
      BY <2>3 DEF RenameInv, OneOwner
    <3> QED
      BY <1>5, <2>1, <3>1, <3>2 DEF ValidOf
  <2> QED
    BY <2>2, <2>3
<1>7. ValidBits'
  BY <1>2, <1>3, <1>5, <1>6 DEF ValidBits, RenameInv
<1> QED
  BY <1>2, <1>4, <1>7, TablesKept DEF RenameInv, WindowInv

(* A chain of one table: nothing is in flight.                             *)
Fresh ==
    /\ rob = <<>> /\ rat \in [Regs -> Pregs] /\ rat = rat_retire /\ Injective(rat_retire)
    /\ freevec = RangeOf(rat_retire) /\ freevec_retire = RangeOf(rat_retire)
    /\ valid = RangeOf(rat_retire)

(* With such tables the invariant holds.                                   *)
LEMMA FreshRename == Fresh => RenameInv
<1> SUFFICES ASSUME Fresh PROVE RenameInv
  OBVIOUS
<1> USE DEF Fresh
<1> DEFINE T == [j \in 1 .. 1 |-> rat]
<1>1. Elems(rob) = {} /\ Len(rob) = 0
  BY DEF Elems
<1>2. IsChain(T)
  BY <1>1 DEF IsChain
<1>3. OneOwner /\ InUse /\ ValidBits
  BY <1>1 DEF OneOwner, InUse, TakenAll, ValidBits
<1> QED
  BY <1>2, <1>3 DEF RenameInv, Chained

(* The recovery starts over from the retired table.                        *)
LEMMA RecoveryRename ==
    ASSUME WindowInv, RenameInv, Nuke \/ RecoverySleep
    PROVE  RenameInv'
<1>1. PICK T : IsChain(T)
  BY DEF RenameInv, Chained
<1>2. Shape
  BY DEF WindowInv
<1>3. CASE Nuke
  <2>1. /\ rob' = <<>> /\ rat' = rat_retire /\ freevec' = freevec_retire
        /\ valid' = RangeOf(rat_retire) /\ UNCHANGED <<rat_retire, freevec_retire>>
    BY <1>3 DEF Nuke, RangeSet, RangeOf
  <2>2. rat_retire \in [Regs -> Pregs]
    BY <1>1, <1>2, RobElems DEF IsChain
  <2>3. Injective(rat_retire) /\ freevec_retire = RangeOf(rat_retire)
    BY DEF RenameInv, OneOwner, InUse
  <2>4. Injective(rat_retire)' /\ RangeOf(rat_retire)' = RangeOf(rat_retire)
    BY <2>1, <2>3
  <2>5. Fresh'
    BY <2>1, <2>2, <2>3, <2>4 DEF Fresh
  <2>6. (Fresh => RenameInv)'
    BY FreshRename, PTL
  <2> QED
    BY <2>5, <2>6
<1>4. CASE RecoverySleep
  <2>1. rob = <<>> /\ UNCHANGED <<rob, rat, rat_retire, freevec, freevec_retire, valid>>
    BY <1>4 DEF RecoverySleep, renameVars, WindowInv, Recovery
  <2>2. Elems(rob) = {} /\ Elems(rob)' = {}
    BY <2>1 DEF Elems
  <2>3. Chained' /\ OneOwner' /\ InUse'
    BY <1>2, <2>1, <2>2, TablesKept
  <2>4. ValidBits'
    BY <2>1, <2>2 DEF RenameInv, ValidBits
  <2> QED
    BY <2>3, <2>4 DEF RenameInv
<1> QED
  BY <1>3, <1>4

(* A chain for the next state, given as constants.                         *)
LEMMA ChainNext ==
    ASSUME NEW U, NEW z, z = rob', U \in [1 .. Len(z) + 1 -> [Regs -> Pregs]],
           U[1] = rat_retire', U[Len(z) + 1] = rat',
           \A j \in 1 .. Len(z) : Renamed(z[j], U[j], U[j + 1])'
    PROVE  Chained'
<1>1. IsChain(U)'
  BY DEF IsChain
<1> QED
  BY <1>1 DEF Chained

(* The registers n for the destinations d are free, and two of them differ. *)
LEMMA NthFreeRegs ==
    ASSUME NEW d \in Seq(Regs), Len(d) <= 2, freevec \subseteq Pregs,
           \A j, k \in DOMAIN d : d[j][1] = d[k][1],
           d # <<>> => Cardinality(Free(d[1][1])) >= Len(d),
           NEW n, n = [j \in DOMAIN d |-> NthFree(d[j][1], j)]
    PROVE  /\ n \in [DOMAIN d -> Pregs]
           /\ Injective(n)
           /\ RangeOf(n) \cap freevec = {}
<1>1. Len(d) \in Nat /\ DOMAIN d = 1 .. Len(d)
  OBVIOUS
<1>2. CASE Len(d) = 0
  BY <1>1, <1>2 DEF Injective, RangeOf
<1>3. CASE Len(d) # 0
  <2>1. PICK f : f = d[1][1]
    OBVIOUS
  <2>2. d[1] \in Regs /\ Len(d) \in 1 .. 2 /\ 1 \in DOMAIN d /\ d # <<>>
    BY <1>1, <1>3
  <2>3. f \in Files /\ Cardinality(Free(f)) >= Len(d)
    BY <2>1, <2>2 DEF Files
  <2>4. /\ \A j \in 1 .. Len(d) : NthFree(f, j) \in Pregs \ freevec
        /\ Len(d) = 2 => NthFree(f, 1) # NthFree(f, 2)
    BY <2>2, <2>3, NthFreeIsFree
  <2>5. n = [j \in 1 .. Len(d) |-> NthFree(f, j)]
    <3>1. \A j \in 1 .. Len(d) : d[j][1] = f
      BY <1>1, <2>1, <2>2
    <3> QED
      BY <1>1, <3>1
  <2>6. Injective(n)
    <3> SUFFICES ASSUME NEW j \in 1 .. Len(d), NEW k \in 1 .. Len(d),
                        NthFree(f, j) = NthFree(f, k)
                 PROVE  j = k
      BY <2>5 DEF Injective
    <3>1. CASE Len(d) = 1
      BY <3>1
    <3>2. CASE Len(d) = 2
      <4>1. (j = 1 \/ j = 2) /\ (k = 1 \/ k = 2)
        BY <3>2
      <4> QED
        BY <2>4, <3>2, <4>1
    <3> QED
      BY <2>2, <3>1, <3>2
  <2> QED
    BY <1>1, <2>4, <2>5, <2>6 DEF RangeOf
<1> QED
  BY <1>2, <1>3

(* allocate(): the destinations of the operation are free registers, and   *)
(* the tables change by them.                                              *)
AllocateFacts(x, d, n) ==
    /\ x \in Live /\ x \in Ids /\ x \notin Elems(rob) /\ ~ op[x].issued /\ ~ op[x].done
    /\ op'[x].src = [r \in SigOf(x).src |-> rat[r]]
    /\ op'[x].prev = [j \in DOMAIN d |-> rat[d[j]]]
    /\ n = [j \in DOMAIN d |-> NthFree(d[j][1], j)]
    /\ d # <<>> => Cardinality(Free(d[1][1])) >= Len(d)
    /\ rob' = Append(rob, x)
    /\ Keeps(x, RenameFields \ {"src", "new", "prev"})
    /\ rat' = Over(rat, d, n)
    /\ freevec' = freevec \cup RangeOf(n)
    /\ valid' = valid \ RangeOf(n)

(* allocate() does that.                                                   *)
LEMMA AllocateSays ==
    ASSUME WindowInv, AllocateOne, NEW x, x = Head(decode_queue)
    PROVE  /\ AllocateFacts(x, SigOf(x).dst, op'[x].new)
           /\ UNCHANGED <<rat_retire, freevec_retire>>
           /\ \A y \in Live : y # x => Keeps(y, RenameFields)
<1>1. /\ x \in Live /\ x \in Ids /\ x \notin Elems(rob) /\ ~ op[x].issued /\ ~ op[x].done
      /\ rob' = Append(rob, x)
      /\ op'[x].src = [r \in SigOf(x).src |-> rat[r]]
      /\ op'[x].prev = [j \in DOMAIN SigOf(x).dst |-> rat[SigOf(x).dst[j]]]
      /\ op'[x].new = [j \in DOMAIN SigOf(x).dst |-> NthFree(SigOf(x).dst[j][1], j)]
      /\ Keeps(x, RenameFields \ {"src", "new", "prev"})
      /\ \A y \in Live : y # x => Keeps(y, RenameFields)
  BY AllocateOps, ZenonT(40)
<1>2. PICK d : d = SigOf(x).dst
  OBVIOUS
<1>3. PICK n : n = op'[x].new
  OBVIOUS
<1>4. n = [j \in DOMAIN d |-> NthFree(d[j][1], j)]
  BY <1>1, <1>2, <1>3
<1>5. /\ rat' = [r \in Regs |-> IF \E j \in DOMAIN d : d[j] = r
                                THEN n[CHOOSE j \in DOMAIN d : d[j] = r] ELSE rat[r]]
      /\ freevec' = freevec \cup RangeSet(n)
      /\ valid' = valid \ RangeSet(n)
      /\ UNCHANGED <<rat_retire, freevec_retire>>
  BY <1>2, <1>4 DEF AllocateOne
<1>6. d # <<>> => Cardinality(Free(d[1][1])) >= Len(d)
  BY <1>2 DEF AllocateOne, AllocateMore, CanRename
<1>7. RangeSet(n) = RangeOf(n)
  BY DEF RangeSet, RangeOf
<1>8. AllocateFacts(x, d, n)
  BY <1>1, <1>2, <1>3, <1>4, <1>5, <1>6, <1>7 DEF AllocateFacts, Over
<1> QED
  BY <1>1, <1>2, <1>3, <1>5, <1>8

(* allocate() extends the chain by the new speculative table: the          *)
(* registers it takes were free, so nobody owns them and no valid bit of   *)
(* another operation is lost.                                              *)
LEMMA AllocateRename ==
    ASSUME WindowInv, RenameInv, AllocateOne
    PROVE  RenameInv'
<1>0. Shape /\ OneOwner /\ InUse /\ ValidBits /\ Chained
  BY DEF WindowInv, RenameInv
<1>1. PICK T : IsChain(T)
  BY <1>0 DEF Chained
<1>2. PICK x : x = Head(decode_queue)
  OBVIOUS
<1>3. PICK d : d = SigOf(x).dst
  OBVIOUS
<1>4. PICK n : n = op'[x].new
  OBVIOUS
<1>5. AllocateFacts(x, d, n) /\ UNCHANGED <<rat_retire, freevec_retire>>
      /\ \A y \in Live : y # x => Keeps(y, RenameFields)
  BY <1>2, <1>3, <1>4, AllocateSays
<1>6. /\ T \in [1 .. Len(rob) + 1 -> [Regs -> Pregs]]
      /\ T[1] = rat_retire /\ T[Len(rob) + 1] = rat
      /\ \A j \in 1 .. Len(rob) : Renamed(rob[j], T[j], T[j + 1])
      /\ Len(rob) \in Nat
      /\ rat \in [Regs -> Pregs] /\ rat_retire \in [Regs -> Pregs]
  <2>1. Len(rob) \in Nat
    BY <1>0, RobElems
  <2>2. /\ T \in [1 .. Len(rob) + 1 -> [Regs -> Pregs]]
        /\ T[1] = rat_retire /\ T[Len(rob) + 1] = rat
        /\ \A j \in 1 .. Len(rob) : Renamed(rob[j], T[j], T[j + 1])
    BY <1>1 DEF IsChain
  <2> QED
    BY <2>1, <2>2
<1>7. freevec \subseteq Pregs
  <2>1. ASSUME NEW y \in Elems(rob) PROVE Taken(y) \subseteq Pregs
    <3>1. PICK j \in 1 .. Len(rob) : y = rob[j]
      BY <1>0, RobElems
    <3>2. op[y].new \in [DOMAIN SigOf(y).dst -> Pregs]
      BY <1>6, <3>1 DEF Renamed, RenamedAt
    <3> QED
      BY <3>2 DEF Taken, RangeOf
  <2> QED
    BY <1>0, <1>6, <2>1 DEF InUse, TakenAll, RangeOf
<1>8. d \in Seq(Regs) /\ NoRepeat(d) /\ Len(d) <= 2 /\ \A j, k \in DOMAIN d : d[j][1] = d[k][1]
  BY <1>3, SigOfShaped DEF SigShape
<1>9. /\ n \in [DOMAIN d -> Pregs]
      /\ Injective(n)
      /\ RangeOf(n) \cap freevec = {}
  BY <1>5, <1>7, <1>8, NthFreeRegs DEF AllocateFacts
<1>10. /\ Len(rob') = Len(rob) + 1 /\ rob'[Len(rob) + 1] = x
       /\ \A j \in 1 .. Len(rob) : rob'[j] = rob[j] /\ rob[j] \in Elems(rob)
       /\ Elems(rob)' = Elems(rob) \cup {x} /\ x \notin Elems(rob)
  <2>1. rob \in Seq(Ids) /\ x \in Ids /\ rob' = Append(rob, x) /\ x \notin Elems(rob)
    BY <1>0, <1>5 DEF Shape, AllocateFacts
  <2> QED
    BY <1>0, <2>1, RobElems, AppendElems
<1>11. \A y \in Elems(rob) : /\ Keeps(y, RenameFields) /\ Keeps(y, Names) /\ y # x
                             /\ y \in Live
  BY <1>5, <1>10, LoadsLive, RenameKeeps
<1>12. SigOf(x)' = SigOf(x) /\ op'[x].issued = op[x].issued /\ op'[x].done = op[x].done
  BY <1>5 DEF SigOf, InsnOf, Keeps, RenameFields, Names, AllocateFacts
<1>13. rat' \in [Regs -> Pregs] /\ rat' = Over(rat, d, n)
  BY <1>5, <1>6, <1>8, <1>9, OverTable DEF AllocateFacts
<1>14. \A y \in Elems(rob) : /\ \A t, m : Renamed(y, t, m)' <=> Renamed(y, t, m)
                             /\ Taken(y)' = Taken(y) /\ op'[y].new = op[y].new
                             /\ op'[y].src = op[y].src /\ SigOf(y)' = SigOf(y)
  BY <1>11, RenamedKept
<1>15. Chained'
  <2>1. PICK z : z = rob'
    OBVIOUS
  <2>2. PICK N : N = Len(rob)
    OBVIOUS
  <2>3. PICK a, b : a = rat /\ b = rat'
    OBVIOUS
  <2> DEFINE U == [j \in 1 .. N + 2 |-> IF j = N + 2 THEN b ELSE T[j]]
  <2>4. N \in Nat /\ Len(z) = N + 1 /\ Len(z) + 1 = N + 2 /\ z[N + 1] = x
    BY <1>6, <1>10, <2>1, <2>2
  <2>5. U \in [1 .. Len(z) + 1 -> [Regs -> Pregs]]
    BY <1>6, <1>13, <2>2, <2>3, <2>4
  <2>6. U[1] = rat_retire' /\ U[Len(z) + 1] = rat'
    BY <1>5, <1>6, <2>2, <2>3, <2>4
  <2>7. Renamed(x, a, b)'
    <3>1. op'[x].src = [r \in SigOf(x).src |-> a[r]]
          /\ op'[x].prev = [j \in DOMAIN d |-> a[d[j]]]
      BY <1>5, <2>3 DEF AllocateFacts
    <3>2. b = Over(a, d, n)
      BY <1>13, <2>3
    <3> QED
      BY <1>3, <1>4, <1>9, <1>12, <3>1, <3>2 DEF Renamed, RenamedAt
  <2>8. ASSUME NEW j \in 1 .. Len(z) PROVE Renamed(z[j], U[j], U[j + 1])'
    <3>1. CASE j = N + 1
      <4>1. U[j] = a /\ U[j + 1] = b /\ z[j] = x
        BY <1>6, <2>2, <2>3, <2>4, <3>1
      <4> HIDE DEF U
      <4> QED
        BY <2>7, <4>1
    <3>2. CASE j # N + 1
      <4>1. j \in 1 .. N /\ j # N + 2 /\ j + 1 # N + 2 /\ j + 1 \in 1 .. N + 2
        BY <2>4, <3>2
      <4>2. U[j] = T[j] /\ U[j + 1] = T[j + 1]
        BY <2>4, <4>1
      <4>3. PICK y, t, m : y = rob[j] /\ t = T[j] /\ m = T[j + 1]
        OBVIOUS
      <4>4. Renamed(y, t, m) /\ y \in Elems(rob) /\ z[j] = y
        BY <1>6, <1>10, <2>1, <2>2, <4>1, <4>3
      <4>5. Renamed(y, t, m)'
        BY <1>14, <4>4
      <4> HIDE DEF U
      <4> QED
        BY <4>2, <4>3, <4>4, <4>5
    <3> QED
      BY <3>1, <3>2
  <2> HIDE DEF U
  <2> QED
    BY <2>1, <2>5, <2>6, <2>8, ChainNext
<1>16. Taken(x)' = RangeOf(n) /\ Injective(op'[x].new)
  BY <1>4, <1>9 DEF Taken
<1>17. TakenAll' = TakenAll \cup RangeOf(n)
  BY <1>10, <1>14, <1>16 DEF TakenAll
<1>18. \A y \in Elems(rob) : Taken(y) \subseteq freevec
  BY <1>0 DEF InUse, TakenAll
<1>19. InUse' /\ RangeOf(rat_retire) \subseteq freevec
  <2>1. freevec' = freevec \cup RangeOf(n)
    BY <1>5 DEF AllocateFacts
  <2> QED
    BY <1>0, <1>5, <1>17, <2>1 DEF InUse
<1>20. OneOwner'
  <2>1. ASSUME NEW y \in Elems(rob)'
        PROVE  Injective(op'[y].new) /\ Taken(y)' \cap RangeOf(rat_retire) = {}
    <3>1. CASE y = x
      BY <1>9, <1>16, <1>19, <3>1
    <3>2. CASE y # x
      BY <1>0, <1>10, <1>14, <3>2 DEF OneOwner
    <3> QED
      BY <3>1, <3>2
  <2>2. ASSUME NEW y \in Elems(rob)', NEW w \in Elems(rob)', y # w
        PROVE  Taken(y)' \cap Taken(w)' = {}
    <3>1. CASE y = x
      BY <1>9, <1>10, <1>14, <1>16, <1>18, <2>2, <3>1
    <3>2. CASE w = x
      BY <1>9, <1>10, <1>14, <1>16, <1>18, <2>2, <3>2
    <3>3. CASE y # x /\ w # x
      BY <1>0, <1>10, <1>14, <2>2, <3>3 DEF OneOwner
    <3> QED
      BY <3>1, <3>2, <3>3
  <2>3. Injective(rat_retire)' /\ RangeOf(rat_retire)' = RangeOf(rat_retire)
    BY <1>0, <1>5 DEF OneOwner
  <2> QED
    BY <2>1, <2>2, <2>3 DEF OneOwner
<1>21. ValidBits'
  <2>1. valid' = valid \ RangeOf(n)
    BY <1>5 DEF AllocateFacts
  <2>2. RangeOf(rat_retire)' \subseteq valid'
    <3>1. RangeOf(rat_retire)' = RangeOf(rat_retire)
      BY <1>5
    <3> QED
      BY <1>0, <1>9, <1>19, <2>1, <3>1 DEF ValidBits
  <2>3. ValidOf(x)'
    <3>1. ~ op'[x].issued /\ ~ op'[x].done
      BY <1>5, <1>12 DEF AllocateFacts
    <3> QED
      BY <1>16, <2>1, <3>1 DEF ValidOf
  <2>4. ASSUME NEW y \in Elems(rob) PROVE ValidOf(y)'
    <3>1. RangeOf(op[y].src) \subseteq freevec
      BY <1>0, SourcesTaken
    <3>2. op'[y].done = op[y].done /\ op'[y].issued = op[y].issued /\ op'[y].lexc = op[y].lexc
      BY <1>11 DEF Keeps, RenameFields
    <3>3. ValidOf(y)
      BY <1>0 DEF ValidBits
    <3> QED
      BY <1>9, <1>14, <1>18, <2>1, <3>1, <3>2, <3>3 DEF ValidOf
  <2> QED
    BY <1>10, <2>2, <2>3, <2>4 DEF ValidBits
<1> QED
  BY <1>15, <1>19, <1>20, <1>21 DEF RenameInv

(* The sources of what is in flight are in use, as an implication.         *)
LEMMA SourcesInUse ==
    Shape /\ Chained /\ InUse => \A y \in Elems(rob) : RangeOf(op[y].src) \subseteq freevec
BY SourcesTaken

(* Only host calls write their result at retirement.                       *)
LEMMA MonitorAt == \A y : SigOf(y).at = "retire" <=> InsnOf(y).k = "monitor"
BY Decodes, DecodeDst DEF SigOf, InsnOf

(* retire(): the registers of the oldest operation become the retired ones.*)
RetireFacts(x, d, n, q) ==
    /\ rob' = Tail(rob) /\ rat' = rat
    /\ rat_retire' = Over(rat_retire, d, n)
    /\ freevec' = freevec \ q
    /\ freevec_retire' = (freevec_retire \cup RangeOf(n)) \ q
    /\ IF InsnOf(x).k = "monitor" THEN valid' = valid \cup RangeOf(n) ELSE valid' = valid \ q

(* retire() of every op class does that.                                   *)
LEMMA RetireSays ==
    ASSUME NEW x, RetireOp(x), NEW d, d = SigOf(x).dst, NEW n, n = op[x].new,
           NEW q, q = RangeOf(op[x].prev)
    PROVE  RetireFacts(x, d, n, q)
<1>1. RangeSet(n) = RangeOf(n) /\ RangeSet(op[x].prev) = q
  BY DEF RangeSet, RangeOf
<1>2. rob' = Tail(rob) /\ rat' = rat
  BY DEF RetireOp
<1>3. rat_retire' = [r \in Regs |-> IF \E j \in DOMAIN d : d[j] = r
                                    THEN n[CHOOSE j \in DOMAIN d : d[j] = r]
                                    ELSE rat_retire[r]]
  BY DEF RetireOp
<1>4. /\ freevec' = freevec \ RangeSet(op[x].prev)
      /\ freevec_retire' = (freevec_retire \cup RangeSet(n)) \ RangeSet(op[x].prev)
  BY DEF RetireOp, Released
<1>5. IF InsnOf(x).k = "monitor" THEN valid' = valid \cup RangeSet(n)
                                 ELSE valid' = valid \ RangeSet(op[x].prev)
  BY DEF RetireOp
<1> QED
  BY <1>1, <1>2, <1>3, <1>4, <1>5 DEF RetireFacts, Over

(* retire() drops the oldest table of the chain.  The previous registers   *)
(* of the destinations leave the retired table and the in-use vectors; no  *)
(* operation in flight reads them, because its sources are in the tables   *)
(* that are left.                                                          *)
LEMMA RetireRename ==
    ASSUME WindowInv, MarkInv, RenameInv, RetireStep, Shape'
    PROVE  RenameInv'
<1>0. Shape /\ OneOwner /\ InUse /\ ValidBits /\ Chained /\ NoRepeat(rob)
  BY DEF WindowInv, RenameInv, OnePlace
<1>1. PICK T : IsChain(T)
  BY <1>0 DEF Chained
<1>2. PICK x : x = Head(rob)
  OBVIOUS
<1>3. PICK d, n, q : d = SigOf(x).dst /\ n = op[x].new /\ q = RangeOf(op[x].prev)
  OBVIOUS
<1>4. /\ rob # <<>> /\ op[x].done /\ ~ op[x].lexc /\ RetireOp(x)
      /\ x \in Live /\ x \in Elems(rob)
  BY <1>2, RetireHead
<1>5. RetireFacts(x, d, n, q)
  BY <1>3, <1>4, RetireSays
<1>6. /\ T \in [1 .. Len(rob) + 1 -> [Regs -> Pregs]]
      /\ T[1] = rat_retire /\ T[Len(rob) + 1] = rat
      /\ \A j \in 1 .. Len(rob) : Renamed(rob[j], T[j], T[j + 1])
      /\ Len(rob) \in Nat /\ rat_retire \in [Regs -> Pregs]
  <2>1. Len(rob) \in Nat
    BY <1>0, RobElems
  <2>2. /\ T \in [1 .. Len(rob) + 1 -> [Regs -> Pregs]]
        /\ T[1] = rat_retire /\ T[Len(rob) + 1] = rat
        /\ \A j \in 1 .. Len(rob) : Renamed(rob[j], T[j], T[j + 1])
    BY <1>1 DEF IsChain
  <2> QED
    BY <2>1, <2>2
<1>7. /\ rob' \in Seq(Ids) /\ Len(rob') = Len(rob) - 1 /\ Len(rob) >= 1
      /\ \A j \in 1 .. Len(rob') : rob'[j] = rob[j + 1]
      /\ Elems(rob) = Elems(rob)' \cup {x} /\ x \notin Elems(rob)' /\ rob[1] = x
      /\ \A j \in 1 .. Len(rob) : rob[j] \in Elems(rob)
  <2>1. rob \in Seq(Ids) /\ rob' = Tail(rob) /\ rob # <<>>
    BY <1>0, <1>4, <1>5 DEF Shape, RetireFacts
  <2>2. PICK s : s = rob
    OBVIOUS
  <2>3. s \in Seq(Ids) /\ s # <<>>
    BY <2>1, <2>2
  <2>4. /\ Tail(s) \in Seq(Ids) /\ Len(Tail(s)) = Len(s) - 1 /\ Len(s) >= 1
        /\ \A j \in 1 .. Len(Tail(s)) : Tail(s)[j] = s[j + 1]
        /\ Head(s) = s[1]
    BY <2>3
  <2>5. /\ Elems(s) = Elems(Tail(s)) \cup {Head(s)}
        /\ NoRepeat(s) => Head(s) \notin Elems(Tail(s))
    BY <2>3, TailElems
  <2>6. Elems(rob)' = Elems(Tail(s))
    BY <2>1, <2>2 DEF Elems
  <2>7. \A j \in 1 .. Len(rob) : rob[j] \in Elems(rob)
    BY <1>0, RobElems
  <2> QED
    BY <1>0, <1>2, <2>1, <2>2, <2>4, <2>5, <2>6, <2>7
<1>8. /\ d \in Seq(Regs) /\ NoRepeat(d)
      /\ n \in [DOMAIN d -> Pregs]
      /\ q = {rat_retire[d[k]] : k \in DOMAIN d}
      /\ T[2] = Over(rat_retire, d, n)
  <2>1. d \in Seq(Regs) /\ NoRepeat(d)
    BY <1>3, SigOfShaped DEF SigShape
  <2>2. PICK t, m : t = T[1] /\ m = T[2]
    OBVIOUS
  <2>3. Renamed(rob[1], T[1], T[1 + 1]) /\ 1 + 1 = 2
    BY <1>6, <1>7
  <2>4. Renamed(x, t, m)
    BY <1>7, <2>2, <2>3
  <2>5. /\ n \in [DOMAIN d -> Pregs] /\ m = Over(t, d, n)
        /\ op[x].prev = [k \in DOMAIN d |-> t[d[k]]]
    BY <1>3, <2>4 DEF Renamed, RenamedAt
  <2> QED
    BY <1>3, <1>6, <2>1, <2>2, <2>5 DEF RangeOf
<1>9. Taken(x) = RangeOf(n) /\ Injective(n) /\ RangeOf(n) \cap RangeOf(rat_retire) = {}
      /\ Injective(rat_retire)
  BY <1>0, <1>3, <1>4 DEF OneOwner, Taken
<1>10. q \subseteq RangeOf(rat_retire)
  BY <1>6, <1>8 DEF RangeOf
<1>11. /\ Injective(rat_retire)'
       /\ RangeOf(rat_retire)' = (RangeOf(rat_retire) \ q) \cup RangeOf(n)
       /\ rat_retire' = T[2]
  <2>1. PICK t : t = rat_retire
    OBVIOUS
  <2>2. PICK o : o = Over(t, d, n)
    OBVIOUS
  <2>3. t \in [Regs -> Pregs] /\ Injective(t) /\ RangeOf(n) \cap RangeOf(t) = {}
    BY <1>6, <1>9, <2>1
  <2>4. Injective(o) /\ RangeOf(o) = (RangeOf(t) \ {t[d[k]] : k \in DOMAIN d}) \cup RangeOf(n)
    BY <1>8, <1>9, <2>2, <2>3, OverRange
  <2>5. rat_retire' = o
    BY <1>5, <2>1, <2>2 DEF RetireFacts
  <2>6. Injective(rat_retire)' /\ RangeOf(rat_retire)' = RangeOf(o)
    BY <2>4, <2>5 DEF Injective, RangeOf
  <2> QED
    BY <1>8, <2>1, <2>2, <2>4, <2>5, <2>6
<1>12. \A y \in Live : y # x =>
          /\ Keeps(y, RenameFields \ {"lexc"})
          /\ op[y].lexc => op'[y].lexc
  BY <1>2, <1>4, RetireNames
<1>13. \A y \in Elems(rob)' : y \in Elems(rob) /\ y # x /\ y \in Live
  BY <1>7, LoadsLive
<1>14. \A y \in Elems(rob)' : /\ \A t, m : Renamed(y, t, m)' <=> Renamed(y, t, m)
                              /\ Taken(y)' = Taken(y) /\ op'[y].new = op[y].new
                              /\ op'[y].src = op[y].src /\ SigOf(y)' = SigOf(y)
  <2> SUFFICES ASSUME NEW y \in Elems(rob)' PROVE Keeps(y, Names)
    BY RenamedKept
  <2> QED
    BY <1>12, <1>13, RenameKeeps
<1>15. Chained'
  <2>1. PICK z : z = rob'
    OBVIOUS
  <2>2. PICK N : N = Len(rob)
    OBVIOUS
  <2> DEFINE U == [j \in 1 .. N |-> T[j + 1]]
  <2>3. N \in Nat /\ N >= 1 /\ Len(z) = N - 1 /\ Len(z) + 1 = N
    BY <1>6, <1>7, <2>1, <2>2
  <2>4. U \in [1 .. Len(z) + 1 -> [Regs -> Pregs]]
    <3>1. \A j \in 1 .. N : j + 1 \in 1 .. N + 1
      BY <2>3
    <3>2. \A j \in 1 .. N : T[j + 1] \in [Regs -> Pregs]
      BY <1>6, <2>2, <3>1
    <3> QED
      BY <2>3, <3>2
  <2>5. U[1] = rat_retire' /\ U[Len(z) + 1] = rat'
    <3>1. 1 \in 1 .. N /\ N \in 1 .. N /\ 1 + 1 = 2
      BY <2>3
    <3>2. U[1] = T[2] /\ U[N] = T[N + 1]
      BY <3>1
    <3>3. rat' = rat
      BY <1>5 DEF RetireFacts
    <3> HIDE DEF U
    <3> QED
      BY <1>6, <1>11, <2>2, <2>3, <3>2, <3>3
  <2>6. ASSUME NEW j \in 1 .. Len(z) PROVE Renamed(z[j], U[j], U[j + 1])'
    <3>1. j \in 1 .. N /\ j + 1 \in 1 .. N
      BY <2>3
    <3>2. PICK k : k = j + 1
      OBVIOUS
    <3>3. U[j] = T[k] /\ U[k] = T[k + 1]
      BY <3>1, <3>2
    <3> HIDE DEF U
    <3>4. PICK y, t, m : y = rob[k] /\ t = T[k] /\ m = T[k + 1]
      OBVIOUS
    <3>5. z[j] = y /\ y \in Elems(rob)'
      <4>1. z[j] = y
        BY <1>7, <2>1, <3>2, <3>4
      <4>2. rob' \in Seq(Ids) /\ j \in DOMAIN rob' /\ rob'[j] = y
        BY <1>7, <2>1, <4>1
      <4> QED
        BY <4>1, <4>2 DEF Elems
    <3>6. Renamed(y, t, m)
      BY <1>6, <2>2, <3>1, <3>2, <3>4
    <3>7. Renamed(y, t, m)'
      BY <1>14, <3>5, <3>6
    <3> QED
      BY <3>2, <3>3, <3>4, <3>5, <3>7
  <2> HIDE DEF U
  <2> QED
    BY <2>1, <2>4, <2>5, <2>6, ChainNext
<1>16. \A y \in Elems(rob)' : Taken(y) \cap Taken(x) = {} /\ Taken(y) \cap RangeOf(rat_retire) = {}
  BY <1>0, <1>4, <1>13 DEF OneOwner
<1>17. OneOwner'
  <2>1. ASSUME NEW y \in Elems(rob)'
        PROVE  Injective(op'[y].new) /\ Taken(y)' \cap RangeOf(rat_retire)' = {}
    BY <1>0, <1>9, <1>11, <1>13, <1>14, <1>16 DEF OneOwner
  <2>2. ASSUME NEW y \in Elems(rob)', NEW w \in Elems(rob)', y # w
        PROVE  Taken(y)' \cap Taken(w)' = {}
    BY <1>0, <1>13, <1>14, <2>2 DEF OneOwner
  <2> QED
    BY <1>11, <2>1, <2>2 DEF OneOwner
<1>18. TakenAll = TakenAll' \cup RangeOf(n) /\ TakenAll' \cap q = {}
  <2>1. TakenAll' = UNION {Taken(y) : y \in Elems(rob)'}
    BY <1>14 DEF TakenAll
  <2>2. TakenAll = (UNION {Taken(y) : y \in Elems(rob)'}) \cup Taken(x)
    BY <1>7 DEF TakenAll
  <2> QED
    BY <1>9, <1>10, <1>16, <2>1, <2>2
<1>19. InUse'
  <2>1. freevec' = freevec \ q /\ freevec_retire' = (freevec_retire \cup RangeOf(n)) \ q
    BY <1>5 DEF RetireFacts
  <2> QED
    BY <1>0, <1>9, <1>10, <1>11, <1>18, <2>1 DEF InUse
<1>20. ValidBits'
  <2>1. \/ SigOf(x).at = "retire" /\ valid' = valid \cup RangeOf(n)
        \/ SigOf(x).at # "retire" /\ valid' = valid \ q
    BY <1>5, MonitorAt DEF RetireFacts
  <2>2. SigOf(x).at # "retire" => RangeOf(n) \subseteq valid
    BY <1>0, <1>4, <1>9 DEF ValidBits, ValidOf
  <2>3. RangeOf(rat_retire)' \subseteq valid'
    BY <1>0, <1>9, <1>10, <1>11, <2>1, <2>2 DEF ValidBits
  <2>4. (Shape /\ Chained /\ InUse => \A y \in Elems(rob) : RangeOf(op[y].src) \subseteq freevec)'
    BY SourcesInUse, PTL
  <2>5. \A y \in Elems(rob)' : RangeOf(op[y].src) \subseteq freevec'
    BY <1>14, <1>15, <1>19, <2>4
  <2>6. freevec' \cap q = {}
    BY <1>5 DEF RetireFacts
  <2>7. ASSUME NEW y \in Elems(rob)' PROVE ValidOf(y)'
    <3>1. ValidOf(y)
      BY <1>0, <1>13 DEF ValidBits
    <3>2. /\ op'[y].done = op[y].done /\ op'[y].issued = op[y].issued
          /\ op[y].lexc => op'[y].lexc
      BY <1>12, <1>13 DEF Keeps, RenameFields
    <3>3. RangeOf(op[y].src) \cap q = {} /\ Taken(y) \cap q = {} /\ Taken(y) \cap RangeOf(n) = {}
      BY <1>9, <1>10, <1>16, <2>5, <2>6
    <3>4. /\ SigOf(y)' = SigOf(y) /\ Taken(y)' = Taken(y) /\ op'[y].src = op[y].src
      BY <1>14
    <3> QED
      BY <2>1, <3>1, <3>2, <3>3, <3>4 DEF ValidOf
  <2> QED
    BY <2>3, <2>7 DEF ValidBits
<1> QED
  BY <1>15, <1>17, <1>19, <1>20 DEF RenameInv

(* The initial tables: the n-th register in the n-th physical one.         *)
LEMMA InitRename == Init => MarkInv /\ RenameInv
<1> SUFFICES ASSUME Init PROVE MarkInv /\ RenameInv
  OBVIOUS
<1>1. MarkInv
  BY DEF Init, MarkInv, Marks, HeadMarks, Live
<1>2. Owned = RangeOf(InitRat)
  BY DEF Owned, RangeSet, RangeOf
<1>3. Fresh
  BY <1>2, InitRatTable DEF Init, Fresh
<1> QED
  BY <1>1, <1>3, FreshRename

(* Every step keeps the renaming.                                          *)
LEMMA NextRename ==
    ASSUME WindowInv, MarkInv, RenameInv, [Next]_vars
    PROVE  RenameInv'
<1>1. Shape'
  BY NextWindow DEF WindowInv
<1> QED
  BY <1>1, StepKinds, QuietRename, RetireRename, AllocateRename, ExecuteRename, CompleteRename,
     RecoveryRename

-----------------------------------------------------------------------------
(* The theorems                                                            *)

(* The window, the marks and the chain of tables hold in every reachable   *)
(* state, for every program, every number of physical registers that is    *)
(* large enough for the architectural ones, every size, width and latency. *)
THEOREM RenamingInvariant == Spec => [](WindowInv /\ MarkInv /\ RenameInv)
<1>1. Init => WindowInv /\ MarkInv /\ RenameInv
  BY InitWindow, InitRename
<1>2. WindowInv /\ MarkInv /\ RenameInv /\ [Next]_vars => (WindowInv /\ MarkInv /\ RenameInv)'
  BY NextWindow, NextMarks, NextRename
<1> QED
  BY <1>1, <1>2, PTL DEF Spec

(* The renaming of the core is exact at every instant: freevec holds the   *)
(* retired and the in-flight registers and nothing else, every source and  *)
(* every previous register is the one of program order, and the valid bits *)
(* are those of what has completed, so no operation ever reads a register  *)
(* before its producer wrote it or after it was taken again (RenameExact;  *)
(* allocate() and retire() of the op classes in mips_op.cc, complete() in  *)
(* ooo_core.cc).                                                           *)
THEOREM RenamingIsExact == Spec => []RenameExact
<1>1. WindowInv /\ MarkInv /\ RenameInv => RenameExact
  BY RenameInvExact DEF MarkInv
<1> QED
  BY <1>1, RenamingInvariant, PTL

(* What the core asserts when it recovers (ooo_core.cc:586-587): at every  *)
(* instant as many registers are in use at retirement as there are         *)
(* architectural ones; and the sources of every operation in flight are in *)
(* use until it has left.                                                  *)
THEOREM RetiredTables ==
    Spec => [](Rename!SourcesHeld /\ Cardinality(freevec_retire) = Cardinality(Regs))
<1>1. WindowInv /\ MarkInv /\ RenameInv =>
        Rename!SourcesHeld /\ Cardinality(freevec_retire) = Cardinality(Regs)
  BY RenameInvExact DEF MarkInv
<1> QED
  BY <1>1, RenamingInvariant, PTL
-----------------------------------------------------------------------------
(* Words, and what execute() computes                                      *)

(* Words are numbers.                                                      *)
LEMMA WordFacts ==
    /\ WordSize \in Nat \ {0} /\ WordSize >= 2 /\ WordSize % 2 = 0
    /\ Radix \in Nat \ {0} /\ Word = 0 .. WordSize - 1
    /\ WordBits \in Nat \ {0} /\ WordBits < WordSize
    /\ Word \subseteq Int /\ 0 \in Word /\ 1 \in Word
<1>1. ByteBits \in Nat \ {0}
  BY ByteBitsAssumption
<1>2. /\ 2 ^ 1 \in Nat \ {0} /\ 2 ^ (WordBits - 1) \in Nat \ {0}
      /\ 2 ^ 1 * 2 ^ (WordBits - 1) = WordSize /\ 2 ^ 1 = 2
  <2>1. WordBits - 1 \in 0 .. 4 * ByteBits /\ 1 \in 0 .. 4 * ByteBits
    BY <1>1 DEF WordBits
  <2>2. 2 ^ 1 = 2
    OBVIOUS
  <2> QED
    BY <1>1, <2>1, <2>2, PowersAssumption DEF WordBits
<1>3. PICK h : h = 2 ^ (WordBits - 1)
  OBVIOUS
<1>4. h \in Nat \ {0} /\ WordSize = 2 * h
  BY <1>2, <1>3
<1>5. WordSize \in Nat \ {0} /\ WordSize >= 2 /\ WordSize % 2 = 0
  BY <1>4
<1>6. Radix \in Nat \ {0}
  <2>1. Radix ^ 1 \in Nat \ {0} /\ Radix ^ 1 = Radix * Radix ^ 0 /\ Radix ^ 0 \in Nat \ {0} /\ Radix >= 2
    BY PowersAssumption
  <2>2. 2 ^ ByteBits \in Nat \ {0}
    BY <1>1, PowersAssumption
  <2> QED
    BY <2>2 DEF Radix
<1>7. WordBits \in Nat \ {0} /\ WordBits < WordSize
  BY <1>1, PowersAssumption DEF WordBits
<1> QED
  BY <1>5, <1>6, <1>7 DEF Word

(* What the registers take is a word again.                                *)
LEMMA UnsignedWord == \A n \in Int : Unsigned(n) \in Word
BY WordFacts DEF Unsigned, Word

(* A word as int32_t is a number.                                          *)
LEMMA SignedInt == \A w \in Word : Signed(w) \in Int
BY WordFacts DEF Signed, Word

(* A logical shift to the right.                                           *)
LEMMA ShiftWord ==
    ASSUME NEW w \in Word, NEW n \in Nat \ {0}
    PROVE  w \div n \in Word
BY WordFacts DEF Word

(* The powers of two up to the width of a word.                            *)
LEMMA TwoPower ==
    ASSUME NEW n \in 0 .. WordBits
    PROVE  2 ^ n \in Nat \ {0} /\ 2 ^ n <= WordSize
<1>1. /\ 2 ^ n \in Nat \ {0} /\ 2 ^ n * 2 ^ (4 * ByteBits - n) = WordSize
      /\ 2 ^ (4 * ByteBits - n) \in Nat \ {0}
  <2>1. 4 * ByteBits - n \in 0 .. 4 * ByteBits /\ n \in 0 .. 4 * ByteBits
    BY ByteBitsAssumption DEF WordBits
  <2> QED
    BY <2>1, PowersAssumption
<1>2. \A a, b \in Nat \ {0} : a <= a * b
  OBVIOUS
<1> QED
  BY <1>1, <1>2

(* The powers of the radix up to the bytes of a word.                      *)
LEMMA RadixPower ==
    ASSUME NEW n \in 0 .. 4
    PROVE  Radix ^ n \in Nat \ {0} /\ Radix ^ n <= WordSize
<1>1. /\ Radix ^ n \in Nat \ {0} /\ Radix ^ n * Radix ^ (4 - n) = WordSize
      /\ Radix ^ (4 - n) \in Nat \ {0}
  BY PowersAssumption
<1>2. \A a, b \in Nat \ {0} : a <= a * b
  OBVIOUS
<1> QED
  BY <1>1, <1>2

(* `&', `|' and `^' of two words are words (a hypothesis of the theorems   *)
(* below: the operators are parameters).                                   *)
WordOps == \A a, b \in Word : Band(a, b) \in Word /\ Bor(a, b) \in Word /\ Bxor(a, b) \in Word

(* A truth value is a word.                                                *)
LEMMA BoolWord == \A b : Bool(b) \in Word
BY WordFacts DEF Bool

(* The quotient of an integer and a power is an integer.                   *)
LEMMA DivInt == \A n \in Int, m \in Nat \ {0} : n \div m \in Int /\ n % m \in 0 .. m - 1
OBVIOUS

(* rtype_alu_op and rtype_const_shift_alu_op compute words.                *)
LEMMA RTypeTyped ==
    ASSUME WordOps, NEW i, i.k \in ConstShift \cup RType, NEW v, v[GPR(i.rt)] \in Word,
           i.k \in ConstShift => i.sa \in Nat,
           i.k \in RType => v[GPR(i.rs)] \in Word,
           i.k \in {"movn", "movz"} => v[GPR(i.rd)] \in Word
    PROVE  RTypeValue(i, v) \in Word
<1> DEFINE t == v[GPR(i.rt)]
           s == IF i.k \in ConstShift THEN i.sa ELSE v[GPR(i.rs)]
           n == 2 ^ (s % WordBits)
           old == v[GPR(i.rd)]
<1>1. /\ t \in Word /\ s \in Nat /\ (i.k \in RType => s \in Word)
      /\ (i.k \in {"movn", "movz"} => old \in Word)
  BY WordFacts DEF ConstShift, RType
<1>2. RTypeValue(i, v) =
        CASE i.k \in {"sll", "sllv"} -> Unsigned(t * n)
          [] i.k \in {"srl", "srlv"} -> t \div n
          [] i.k \in {"sra", "srav"} -> Unsigned(Signed(t) \div n)
          [] i.k = "addu" -> Unsigned(s + t)
          [] i.k = "subu" -> Unsigned(s - t)
          [] i.k = "and"  -> Band(s, t)
          [] i.k = "or"   -> Bor(s, t)
          [] i.k = "xor"  -> Bxor(s, t)
          [] i.k = "nor"  -> WordSize - 1 - Bor(s, t)
          [] i.k = "slt"  -> Bool(Signed(s) < Signed(t))
          [] i.k = "sltu" -> Bool(s < t)
          [] i.k = "movn" -> IF t # 0 THEN s ELSE old
          [] i.k = "movz" -> IF t = 0 THEN s ELSE old
  BY DEF RTypeValue
<1>3. n \in Nat \ {0}
  <2>1. s % WordBits \in 0 .. WordBits
    BY <1>1, WordFacts
  <2> QED
    BY <2>1, TwoPower
<1> HIDE DEF t, s, n, old
<1>4. t \in Int /\ s \in Int /\ Signed(t) \in Int
  BY <1>1, SignedInt, WordFacts
<1>5. CASE i.k \in {"sll", "sllv", "srl", "srlv", "sra", "srav"}
  <2>1. Unsigned(t * n) \in Word /\ t \div n \in Word /\ Unsigned(Signed(t) \div n) \in Word
    <3>1. t * n \in Int /\ Signed(t) \div n \in Int
      BY <1>3, <1>4
    <3> QED
      BY <1>1, <1>3, <3>1, UnsignedWord, ShiftWord
  <2> QED
    BY <1>2, <1>5, <2>1
<1>6. CASE i.k \in RType \ {"sllv", "srlv", "srav"}
  <2>1. s \in Word
    BY <1>1, <1>6
  <2>2. /\ Unsigned(s + t) \in Word /\ Unsigned(s - t) \in Word
        /\ Bool(Signed(s) < Signed(t)) \in Word /\ Bool(s < t) \in Word
    BY <1>4, UnsignedWord, BoolWord
  <2>3. Band(s, t) \in Word /\ Bor(s, t) \in Word /\ Bxor(s, t) \in Word
    BY <1>1, <2>1 DEF WordOps
  <2>4. WordSize - 1 - Bor(s, t) \in Word
    <3>1. \A b \in Word : WordSize - 1 - b \in Word
      BY WordFacts
    <3> QED
      BY <2>3, <3>1
  <2> QED
    BY <1>1, <1>2, <1>6, <2>1, <2>2, <2>3, <2>4 DEF RType
<1> QED
  BY <1>5, <1>6 DEF ConstShift, RType

(* itype_alu_op computes words.                                            *)
LEMMA ITypeTyped ==
    ASSUME WordOps, NEW i, i.k \in IType, i.imm \in Int, NEW v, v[GPR(i.rs)] \in Word
    PROVE  ITypeValue(i, v) \in Word
<1> DEFINE s == v[GPR(i.rs)]
           z == i.imm % Radix ^ 2
<1>1. s \in Word /\ s \in Int
  BY WordFacts
<1>2. z \in Word
  <2>1. Radix ^ 2 \in Nat \ {0} /\ Radix ^ 2 <= WordSize
    BY RadixPower
  <2> QED
    BY <2>1, WordFacts
<1>3. ITypeValue(i, v) =
        CASE i.k = "addiu" -> Unsigned(s + i.imm)
          [] i.k = "slti"  -> Bool(Signed(s) < i.imm)
          [] i.k = "sltiu" -> Bool(s < Unsigned(i.imm))
          [] i.k = "andi"  -> Band(s, z)
          [] i.k = "ori"   -> Bor(s, z)
          [] i.k = "xori"  -> Bxor(s, z)
  BY DEF ITypeValue
<1> HIDE DEF s, z
<1>4. /\ Unsigned(s + i.imm) \in Word
      /\ Bool(Signed(s) < i.imm) \in Word /\ Bool(s < Unsigned(i.imm)) \in Word
  BY <1>1, UnsignedWord, BoolWord
<1>5. Band(s, z) \in Word /\ Bor(s, z) \in Word /\ Bxor(s, z) \in Word
  BY <1>1, <1>2 DEF WordOps
<1> QED
  BY <1>3, <1>4, <1>5 DEF IType

(* mult_div_op computes words, when it leaves words where it divides by    *)
(* zero.                                                                   *)
LEMMA MultDivTyped ==
    ASSUME NEW i, i.k \in MultDiv \cup {"madd", "msub"}, NEW v, NEW old,
           v[GPR(i.rs)] \in Word, v[GPR(i.rt)] \in Word, old[1] \in Word, old[2] \in Word,
           i.k \in {"madd", "msub"} => v[LO] \in Word /\ v[HI] \in Word
    PROVE  MultDivValue(i, v, old)[1] \in Word /\ MultDivValue(i, v, old)[2] \in Word
<1> DEFINE s == v[GPR(i.rs)]
           t == v[GPR(i.rt)]
           acc == IF v[LO] >= WordSize \div 2 THEN Signed(v[LO])
                  ELSE Signed(v[HI]) * WordSize + v[LO]
           trunc(a, b) == (IF (a < 0) = (b < 0) THEN 1 ELSE -1)
                          * ((IF a < 0 THEN -a ELSE a) \div (IF b < 0 THEN -b ELSE b))
           pair(y) == <<Unsigned(y), Unsigned(y \div WordSize)>>
           q == trunc(Signed(s), Signed(t))
<1>1. s \in Word /\ t \in Word /\ s \in Int /\ t \in Int /\ Signed(s) \in Int /\ Signed(t) \in Int
  BY SignedInt, WordFacts
<1>2. MultDivValue(i, v, old) =
        CASE i.k = "mult"  -> pair(Signed(s) * Signed(t))
          [] i.k = "multu" -> pair(s * t)
          [] i.k = "madd"  -> pair(acc + Signed(s) * Signed(t))
          [] i.k = "msub"  -> pair(acc - Signed(s) * Signed(t))
          [] i.k \in {"div", "divu"} /\ t = 0 -> old
          [] i.k = "div" /\ t # 0  -> <<Unsigned(q), Unsigned(Signed(s) - q * Signed(t))>>
          [] i.k = "divu" /\ t # 0 -> <<s \div t, s % t>>
  BY DEF MultDivValue
<1>3. \A y \in Int : pair(y)[1] \in Word /\ pair(y)[2] \in Word
  <2>1. \A y \in Int : y \div WordSize \in Int
    BY WordFacts
  <2> QED
    BY <2>1, UnsignedWord
<1>4. i.k \in {"madd", "msub"} => acc \in Int
  <2>1. HAVE i.k \in {"madd", "msub"}
  <2>2. v[LO] \in Int /\ v[HI] \in Int /\ v[LO] \in Word /\ v[HI] \in Word
    BY <2>1, WordFacts
  <2>3. Signed(v[LO]) \in Int /\ Signed(v[HI]) \in Int /\ WordSize \in Int
    BY <2>2, SignedInt, WordFacts
  <2> QED
    BY <2>2, <2>3
<1>5. t # 0 => q \in Int
  <2>1. t # 0 => Signed(t) # 0
    BY <1>1, WordFacts DEF Signed
  <2>2. \A a, b \in Int : b # 0 => trunc(a, b) \in Int
    OBVIOUS
  <2> HIDE DEF trunc
  <2> QED
    BY <1>1, <2>1, <2>2
<1> HIDE DEF s, t, acc, q, pair
<1>6. /\ Signed(s) * Signed(t) \in Int /\ s * t \in Int
      /\ i.k \in {"madd", "msub"} => /\ acc + Signed(s) * Signed(t) \in Int
                                     /\ acc - Signed(s) * Signed(t) \in Int
  BY <1>1, <1>4
<1>7. CASE i.k \in {"mult", "multu", "madd", "msub"}
  BY <1>2, <1>3, <1>6, <1>7
<1>8. CASE i.k \in {"div", "divu"} /\ t = 0
  <2>1. MultDivValue(i, v, old) = old
    BY <1>2, <1>8
  <2> QED
    BY <2>1
<1>9. CASE i.k = "div" /\ t # 0
  <2>1. q * Signed(t) \in Int /\ q \in Int
    BY <1>1, <1>5, <1>9
  <2>2. Unsigned(q) \in Word /\ Unsigned(Signed(s) - q * Signed(t)) \in Word
    BY <1>1, <2>1, UnsignedWord
  <2>3. MultDivValue(i, v, old) = <<Unsigned(q), Unsigned(Signed(s) - q * Signed(t))>>
    BY <1>2, <1>9
  <2> QED
    BY <2>2, <2>3
<1>10. CASE i.k = "divu" /\ t # 0
  <2>1. t \in Nat \ {0} /\ s \in Nat
    BY <1>1, <1>10, WordFacts
  <2>2. s \div t \in 0 .. s /\ s % t \in 0 .. s
    BY <2>1, SMTT(20)
  <2>3. s \div t \in Word /\ s % t \in Word
    BY <1>1, <2>2, WordFacts
  <2>4. MultDivValue(i, v, old) = <<s \div t, s % t>>
    BY <1>2, <1>10
  <2> QED
    BY <2>3, <2>4
<1> QED
  BY <1>7, <1>8, <1>9, <1>10 DEF MultDiv

(* ext_op and ins_op.                                                      *)
LEMMA BitFieldTyped ==
    ASSUME NEW i, i.k \in {"ext", "ins"}, NEW v, v[GPR(i.rs)] \in Word,
           i.k = "ins" => v[GPR(i.rt)] \in Word,
           i.sa \in 0 .. WordBits - 1, i.rd \in 0 .. WordBits - 1,
           i.k = "ins" => i.sa <= i.rd
    PROVE  BitFieldValue(i, v) \in Word
<1> DEFINE s == v[GPR(i.rs)]
           t == v[GPR(i.rt)]
           w == 2 ^ (IF i.k = "ext" THEN i.rd + 1 ELSE i.rd - i.sa + 1)
           p == 2 ^ i.sa
<1>1. w \in Nat \ {0} /\ w <= WordSize /\ p \in Nat \ {0}
  <2>1. (IF i.k = "ext" THEN i.rd + 1 ELSE i.rd - i.sa + 1) \in 0 .. WordBits /\ i.sa \in 0 .. WordBits
    BY WordFacts
  <2> QED
    BY <2>1, TwoPower
<1>2. BitFieldValue(i, v) = IF i.k = "ext" THEN (Signed(s) \div p) % w
                            ELSE Unsigned(t - ((t \div p) % w) * p + (s % w) * p)
  BY DEF BitFieldValue
<1>3. s \in Int /\ Signed(s) \in Int /\ (i.k = "ins" => t \in Int)
  BY WordFacts, SignedInt
<1> HIDE DEF s, t, w, p
<1>4. CASE i.k = "ext"
  <2>1. Signed(s) \div p \in Int
    BY <1>1, <1>3
  <2>2. \A y \in Int : y % w \in Word
    BY <1>1, WordFacts
  <2> QED
    BY <1>2, <1>4, <2>1, <2>2
<1>5. CASE i.k = "ins"
  <2>1. ((t \div p) % w) * p \in Int /\ (s % w) * p \in Int
    <3>1. (t \div p) \in Int
      BY <1>1, <1>3, <1>5
    <3>2. (t \div p) % w \in Int /\ s % w \in Int
      BY <1>1, <1>3, <3>1
    <3> QED
      BY <1>1, <3>2
  <2>2. t - ((t \div p) % w) * p + (s % w) * p \in Int
    BY <1>3, <1>5, <2>1
  <2> QED
    BY <1>2, <1>5, <2>2, UnsignedWord
<1> QED
  BY <1>4, <1>5

(* A number below P * R * M with its digit of weight P and radix R         *)
(* replaced stays below.                                                   *)
LEMMA DigitReplaced ==
    ASSUME NEW P \in Nat \ {0}, NEW R \in Nat \ {0}, NEW M \in Nat \ {0}, NEW W, W = P * R * M,
           NEW x \in 0 .. W - 1, NEW c \in 0 .. R - 1
    PROVE  x - ((x \div P) % R) * P + c * P \in 0 .. W - 1
<1>1. PICK q, m : q = x \div P /\ m = x % P
  OBVIOUS
<1>2. q \in Nat /\ m \in 0 .. P - 1 /\ x = P * q + m
  BY <1>1
<1>3. PICK e, b : e = q \div R /\ b = q % R
  OBVIOUS
<1>4. e \in Nat /\ b \in 0 .. R - 1 /\ q = R * e + b
  BY <1>2, <1>3
<1>5. x = P * (R * e) + P * b + m
  <2>1. P * (R * e + b) = P * (R * e) + P * b
    BY <1>4
  <2> QED
    BY <1>2, <1>4, <2>1
<1>6. e + 1 <= M
  <2> SUFFICES ASSUME e >= M PROVE FALSE
    BY <1>4
  <2>1. R * e >= R * M
    BY <1>4
  <2>2. R * e \in Nat /\ R * M \in Nat
    BY <1>4
  <2>3. P * (R * e) >= P * (R * M)
    BY <2>1, <2>2
  <2>4. P * (R * M) = W /\ P * b \in Nat /\ P * (R * e) \in Nat
    BY <1>4, <2>2
  <2>5. \A y, z, n \in Nat : y >= W /\ x = y + z + n => FALSE
    OBVIOUS
  <2>6. m \in Nat /\ P * (R * e) >= W
    BY <1>2, <2>3, <2>4
  <2> QED
    BY <1>5, <2>4, <2>5, <2>6
<1>7. x - b * P + c * P = P * (R * e) + P * c + m
  <2>1. b * P = P * b /\ c * P = P * c /\ P * b \in Int /\ P * c \in Int
    BY <1>4
  <2>2. R * e \in Nat
    BY <1>4
  <2>3. P * (R * e) \in Int
    BY <2>2
  <2>5. x - P * b + P * c = P * (R * e) + P * c + m
    <3>1. PICK y, z, t : y = P * (R * e) /\ z = P * b /\ t = P * c
      OBVIOUS
    <3>2. x = y + z + m
      BY <1>5, <3>1
    <3>3. y \in Int /\ z \in Int /\ t \in Int /\ m \in Int
      BY <1>2, <2>1, <2>3, <3>1
    <3>4. x - z + t = y + t + m
      BY <3>2, <3>3
    <3> QED
      BY <3>1, <3>4
  <2> QED
    BY <2>1, <2>5
<1>8. P * (R * e) + P * c + m >= 0
  <2>1. R * e \in Nat
    BY <1>4
  <2>2. P * (R * e) \in Nat /\ P * c \in Nat
    BY <2>1
  <2> QED
    BY <1>2, <2>2
<1>9. P * (R * e) + P * c + m < W
  <2>1. R * e + c + 1 <= R * M
    <3>1. R * e + R <= R * M
      <4>1. R * (e + 1) <= R * M
        BY <1>4, <1>6
      <4>2. R * (e + 1) = R * e + R
        BY <1>4
      <4> QED
        BY <4>1, <4>2
    <3>2. R * e \in Int /\ R * M \in Int
      BY <1>4
    <3> QED
      BY <3>1, <3>2
  <2>2. R * e + c + 1 \in Nat /\ R * M \in Nat
    BY <1>4
  <2>3. P * (R * e + c + 1) <= P * (R * M)
    BY <2>1, <2>2
  <2>4. P * (R * e + c + 1) = P * (R * e) + P * c + P
    BY <1>4
  <2>5. P * (R * M) = W
    OBVIOUS
  <2>6. P * (R * e) \in Int /\ P * c \in Int
    BY <1>4
  <2> QED
    BY <1>2, <2>3, <2>4, <2>5, <2>6
<1>10. x - b * P + c * P \in Int
  BY <1>2, <1>4
<1>11. b = (x \div P) % R
  BY <1>1, <1>3
<1> QED
  BY <1>7, <1>8, <1>9, <1>10, <1>11

(* The first power.                                                        *)
LEMMA RadixOne == Radix ^ 1 = Radix
<1>1. /\ Radix ^ 0 \in Nat /\ Radix ^ 4 \in Nat \ {0} /\ Radix ^ 0 * Radix ^ (4 - 0) = WordSize
      /\ Radix ^ (0 + 1) = Radix * Radix ^ 0
  BY PowersAssumption
<1>2. PICK a, b : a = Radix ^ 0 /\ b = Radix ^ 4
  OBVIOUS
<1>3. a \in Nat /\ b \in Nat \ {0} /\ a * b = b
  BY <1>1, <1>2 DEF WordSize
<1>4. \A c \in Nat : c # 0 /\ c # 1 => c * b > b
  BY <1>3
<1>5. a = 1
  <2>1. a # 0
    BY <1>3
  <2> QED
    BY <1>3, <1>4, <2>1
<1>6. Radix ^ 1 = Radix * a
  BY <1>1, <1>2
<1> QED
  BY <1>5, <1>6, WordFacts

(* setCC() changes one bit of the condition codes.                         *)
LEMMA ConditionTyped ==
    ASSUME NEW cc \in 0 .. WordBits - 1, NEW v, v[CR25] \in Word, NEW b
    PROVE  SetCondition(cc, v, b) \in Word
<1> DEFINE x == v[CR25]
           P == 2 ^ cc
           M == 2 ^ (4 * ByteBits - (cc + 1))
<1>1. /\ P \in Nat \ {0} /\ M \in Nat \ {0}
      /\ 2 ^ (cc + 1) = 2 * P /\ 2 ^ (cc + 1) * M = WordSize
  <2>1. /\ cc \in 0 .. 4 * ByteBits /\ cc + 1 \in 0 .. 4 * ByteBits
        /\ 4 * ByteBits - (cc + 1) \in 0 .. 4 * ByteBits /\ cc \in 0 .. 4 * ByteBits - 1
    BY ByteBitsAssumption DEF WordBits
  <2> QED
    BY <2>1, PowersAssumption
<1>2. WordSize = P * 2 * M
  BY <1>1
<1>3. PICK c \in 0 .. 1 : c = Bool(b)
  BY DEF Bool
<1>4. SetCondition(cc, v, b) = x + (c - Bool((x \div P) % 2 = 1)) * P
  BY <1>3 DEF SetCondition, Condition
<1>5. x \in 0 .. WordSize - 1
  BY DEF Word
<1> HIDE DEF x, P, M
<1>6. (x \div P) % 2 \in 0 .. 1 /\ x \in Int
  BY <1>1, <1>5, WordFacts
<1>7. Bool((x \div P) % 2 = 1) = (x \div P) % 2
  BY <1>6 DEF Bool
<1>8. x - ((x \div P) % 2) * P + c * P \in 0 .. WordSize - 1
  <2> HIDE DEF Word
  <2>1. 2 \in Nat \ {0} /\ c \in 0 .. 2 - 1
    OBVIOUS
  <2> QED
    BY <1>1, <1>2, <1>5, <2>1, DigitReplaced
<1>9. x + (c - ((x \div P) % 2)) * P = x - ((x \div P) % 2) * P + c * P
  <2>1. PICK d \in 0 .. 1 : d = (x \div P) % 2
    BY <1>6
  <2>2. x + (c - d) * P = x - d * P + c * P
    BY <1>1, <1>6
  <2> QED
    BY <2>1, <2>2
<1> QED
  BY <1>4, <1>7, <1>8, <1>9 DEF Word

(* clz_op counts leading zeros.                                            *)
LEMMA ClzTyped == \A x : Clz(x) \in Word
<1> SUFFICES ASSUME NEW x PROVE Clz(x) \in Word
  OBVIOUS
<1> DEFINE S == {n \in 0 .. WordBits - 1 : x < 2 ^ n}
<1>1. IsFiniteSet(0 .. WordBits - 1) /\ Cardinality(0 .. WordBits - 1) = WordBits
  <2>1. 0 \in Int /\ WordBits - 1 \in Int
    BY WordFacts
  <2>2. /\ IsFiniteSet(0 .. WordBits - 1)
        /\ Cardinality(0 .. WordBits - 1) = IF 0 > WordBits - 1 THEN 0 ELSE WordBits - 1 - 0 + 1
    BY <2>1, FS_Interval, Zenon
  <2> QED
    BY <2>1, <2>2, WordFacts
<1>2. IsFiniteSet(S) /\ Cardinality(S) <= WordBits /\ Cardinality(S) \in Nat
  <2>1. S \subseteq 0 .. WordBits - 1
    OBVIOUS
  <2> HIDE DEF S
  <2>2. IsFiniteSet(S) /\ Cardinality(S) <= Cardinality(0 .. WordBits - 1)
    BY <1>1, <2>1, FS_Subset
  <2> QED
    BY <1>1, <2>2, FS_CardinalityType
<1>3. Clz(x) = Cardinality(S)
  BY DEF Clz
<1> QED
  BY <1>2, <1>3, WordFacts

(* SignExtend of a number.                                                 *)
LEMMA SignExtendTyped ==
    ASSUME NEW w \in 1 .. 2, NEW x \in 0 .. Radix ^ w - 1
    PROVE  SignExtend(x, w) \in Word
<1>1. Radix ^ w \in Nat \ {0} /\ Radix ^ w <= WordSize
  BY RadixPower
<1>2. x - Radix ^ w \in Int /\ x \in Word
  BY <1>1, WordFacts
<1> QED
  BY <1>2, UnsignedWord DEF SignExtend

(* The low bytes of a word.                                                *)
LEMMA LowBytesTyped ==
    ASSUME NEW n \in 0 .. 4, NEW x \in Int
    PROVE  x % Radix ^ n \in 0 .. Radix ^ n - 1 /\ x % Radix ^ n \in Word
<1>1. Radix ^ n \in Nat \ {0} /\ Radix ^ n <= WordSize
  BY RadixPower
<1> QED
  BY <1>1, WordFacts

(* The floating-point instructions whose result the host computes.         *)
FpHost ==
    (FpArithD \cup FpArithS \cup ToSingle \cup ToDouble
     \cup {"madd.d", "msub.d", "madd.s", "msub.s"}) \ {"mov.d", "mov.s"}
(* The host computes words (the other hypothesis on the operators).        *)
FpWords ==
    \A a \in DOMAIN Program :
        LET i == Program[a]
            s == decode_insn(i)
        IN  i.k \in FpHost => \A v \in [s.src -> Word], j \in DOMAIN s.dst : FpValue(i, v)[j] \in Word

(* The fields of an instruction, of the text or of the empty memory around *)
(* it.                                                                     *)
FieldsFit(i) ==
    /\ i.imm \in Int
    /\ i.k \in ConstShift \cup FpCmp \cup {"ext", "ins"} => i.sa \in 0 .. WordBits - 1
    /\ i.k \in {"ext", "ins"} => i.rd \in 0 .. WordBits - 1
    /\ i.k = "ins" => i.sa <= i.rd

(* They fit.                                                               *)
LEMMA TextFits == \A a : FieldsFit(InsnAt(a))
<1> SUFFICES ASSUME NEW a PROVE FieldsFit(InsnAt(a))
  OBVIOUS
<1>1. CASE a \in DOMAIN Program
  BY <1>1, FieldsAssumption DEF InsnAt, FieldsFit
<1>2. CASE a \notin DOMAIN Program
  BY <1>2, WordFacts DEF InsnAt, Nop, Insn, FieldsFit
<1> QED
  BY <1>1, <1>2

(* The registers of a floating-point operand are read together.            *)
LEMMA FpSourceTyped ==
    ASSUME NEW i, NEW v, NEW n, NEW m, \A r \in FpSet(i.k, n) : v[r] \in Word
    PROVE  \A j \in DOMAIN Fp(i.k, m) : FpSource(i, v, n)[j] \in Word
<1>1. DOMAIN Fp(i.k, m) = DOMAIN Fp(i.k, n)
  BY DEF Fp
<1>2. \A j \in DOMAIN Fp(i.k, n) : Fp(i.k, n)[j] \in FpSet(i.k, n)
  BY DEF FpSet, RangeSet
<1> QED
  BY <1>1, <1>2 DEF FpSource

(* The words of a signature: what the destinations j of s get.             *)
Words(s, w) == \A j \in DOMAIN s.dst : w[j] \in Word

(* One destination, two destinations.                                      *)
LEMMA WordsOf ==
    ASSUME NEW s, NEW w
    PROVE  /\ s.dst = <<>> => Words(s, w)
           /\ \A r, y : (s.dst = <<r>>) /\ y \in Word /\ (w = <<y>>) => Words(s, w)
           /\ \A r, q : (s.dst = <<r, q>>) /\ w[1] \in Word /\ w[2] \in Word => Words(s, w)
BY DEF Words

(* The integer instructions of opcode 0.                                   *)
LEMMA RTypeWords ==
    ASSUME WordOps, NEW i, FieldsFit(i), NEW pc, NEW v, NEW old, NEW s, s = decode_insn(i),
           \A r \in s.src : v[r] \in Word,
           i.k \in ConstShift \cup RType
    PROVE  Words(s, Value(i, pc, v, old))
<1>1. decode_insn(i) = decode_rtype_insn(i)
  BY DEF decode_insn, ConstShift, RType, CondMove, LoHi, MultDiv, FpCmp, FpCondMove, FpRegMove,
     ToSingle, ToDouble, FpArithD, FpArithS
<1>2. PICK y : y = RTypeValue(i, v)
  OBVIOUS
<1>3. Value(i, pc, v, old) = <<y>>
  BY <1>2 DEF Value, ConstShift, RType, IType, MultDiv, CondMove, FpCondMove, FpRegMove, FpCmp
<1>4. CASE i.k \in ConstShift
  <2>1. decode_insn(i) = rtype_const_shift_alu_op(i)
    BY <1>1, <1>4 DEF decode_rtype_insn, ConstShift, RType, CondMove, LoHi, MultDiv
  <2>2. GPR(i.rt) \in s.src /\ (s.dst = <<>> \/ s.dst = <<GPR(i.rd)>>)
    BY <2>1 DEF rtype_const_shift_alu_op, Alu, Sig
  <2>3. v[GPR(i.rt)] \in Word /\ i.sa \in Nat
    BY <1>4, <2>2, WordFacts DEF FieldsFit
  <2>4. y \in Word
    BY <1>2, <1>4, <2>3, RTypeTyped DEF ConstShift, RType
  <2> QED
    BY <1>3, <2>2, <2>4, WordsOf
<1>5. CASE i.k \in RType
  <2>1. decode_insn(i) = rtype_alu_op(i)
    BY <1>1, <1>5 DEF decode_rtype_insn, ConstShift, RType, CondMove, LoHi, MultDiv
  <2>2. /\ GPR(i.rt) \in s.src /\ GPR(i.rs) \in s.src
        /\ i.k \in {"movn", "movz"} => GPR(i.rd) \in s.src
        /\ s.dst = <<>> \/ s.dst = <<GPR(i.rd)>>
    BY <2>1 DEF rtype_alu_op, Alu, Sig
  <2>3. /\ v[GPR(i.rt)] \in Word /\ v[GPR(i.rs)] \in Word
        /\ i.k \in {"movn", "movz"} => v[GPR(i.rd)] \in Word
        /\ i.k \notin ConstShift
    BY <1>5, <2>2 DEF ConstShift, RType
  <2>4. y \in Word
    BY <1>2, <1>5, <2>3, RTypeTyped
  <2> QED
    BY <1>3, <2>2, <2>4, WordsOf
<1> QED
  BY <1>4, <1>5

(* The other instructions of opcode 0 with a result.                       *)
LEMMA SpecialWords ==
    ASSUME NEW i, NEW pc \in Int, NEW v, NEW old, NEW s, s = decode_insn(i),
           \A r \in s.src : v[r] \in Word, Words(s, old),
           i.k \in CondMove \cup LoHi \cup MultDiv \cup {"teq", "jr", "jalr", "break", "sync"}
    PROVE  Words(s, Value(i, pc, v, old))
<1> USE DEF CondMove, LoHi, MultDiv
<1>1. decode_insn(i) = decode_rtype_insn(i)
  BY DEF decode_insn, ConstShift, RType, CondMove, LoHi, MultDiv, FpCmp, FpCondMove, FpRegMove,
     ToSingle, ToDouble, FpArithD, FpArithS
<1> DEFINE w == Value(i, pc, v, old)
<1>2. CASE i.k \in CondMove
  <2>1. decode_insn(i) = movci_op(i)
    BY <1>1, <1>2 DEF decode_rtype_insn, ConstShift, RType
  <2>2. GPR(i.rd) \in s.src /\ GPR(i.rs) \in s.src /\ s.dst = <<GPR(i.rd)>>
    BY <2>1 DEF movci_op, Alu, Sig
  <2>3. w \in {<<v[GPR(i.rs)]>>, <<v[GPR(i.rd)]>>}
    BY <1>2 DEF Value, ConstShift, RType, IType, FpCondMove, FpRegMove, FpCmp
  <2> HIDE DEF w
  <2>4. v[GPR(i.rd)] \in Word /\ v[GPR(i.rs)] \in Word
    BY <2>2
  <2>5. Words(s, w)
    BY <2>2, <2>3, <2>4, WordsOf
  <2> QED
    BY <2>5 DEF w
<1>3. CASE i.k \in LoHi
  <2>1. decode_insn(i) = lo_hi_move(i)
    BY <1>1, <1>3 DEF decode_rtype_insn, ConstShift, RType
  <2>2. \E r, q : s.dst = <<r>> /\ q \in s.src /\ w = <<v[q]>>
    <3>1. CASE i.k \in {"mflo", "mfhi"}
      BY <2>1, <3>1 DEF lo_hi_move, Alu, Sig, Value, ConstShift, RType, IType, FpCondMove,
         FpRegMove, FpCmp
    <3>2. CASE i.k \in {"mtlo", "mthi"}
      <4>1. w = <<v[GPR(i.rs)]>>
        BY <3>2 DEF Value, ConstShift, RType, IType, FpCondMove, FpRegMove, FpCmp
      <4>2. s.dst \in {<<LO>>, <<HI>>} /\ GPR(i.rs) \in s.src
        BY <2>1, <3>2 DEF lo_hi_move, Alu, Sig
      <4> QED
        BY <4>1, <4>2
    <3> QED
      BY <1>3, <3>1, <3>2
  <2> HIDE DEF w
  <2>3. Words(s, w)
    BY <2>2, WordsOf
  <2> QED
    BY <2>3 DEF w
<1>4. CASE i.k \in MultDiv
  <2>1. decode_insn(i) = mult_div_op(i)
    BY <1>1, <1>4 DEF decode_rtype_insn, ConstShift, RType
  <2>2. GPR(i.rt) \in s.src /\ GPR(i.rs) \in s.src /\ s.dst = <<LO, HI>>
    BY <1>4, <2>1 DEF mult_div_op, Sig
  <2>3. w = MultDivValue(i, v, old)
    BY <1>4 DEF Value, ConstShift, RType, IType, FpCondMove, FpRegMove, FpCmp
  <2>4. v[GPR(i.rs)] \in Word /\ v[GPR(i.rt)] \in Word /\ old[1] \in Word /\ old[2] \in Word
    BY <2>2 DEF Words
  <2>5. w[1] \in Word /\ w[2] \in Word
    BY <1>4, <2>3, <2>4, MultDivTyped
  <2> HIDE DEF w
  <2>6. Words(s, w)
    BY <2>2, <2>5, WordsOf
  <2> QED
    BY <2>6 DEF w
<1>5. CASE i.k \in {"teq", "break", "sync", "jr"}
  <2>1. s.dst = <<>>
    BY <1>1, <1>5 DEF decode_rtype_insn, ConstShift, RType, teq_op, break_op, sync_op, jump_op,
       Alu, Sig
  <2> QED
    BY <2>1, WordsOf
<1>6. CASE i.k = "jalr"
  <2>1. s.dst = <<GPR(31)>>
    BY <1>1, <1>6 DEF decode_rtype_insn, ConstShift, RType, jump_op, Sig
  <2>2. w = <<Unsigned(pc + 8)>>
    BY <1>6 DEF Value, ConstShift, RType, IType, FpCondMove, FpRegMove, FpCmp
  <2>3. Unsigned(pc + 8) \in Word
    BY UnsignedWord
  <2> HIDE DEF w
  <2>4. Words(s, w)
    BY <2>1, <2>2, <2>3, WordsOf
  <2> QED
    BY <2>4 DEF w
<1> QED
  BY <1>2, <1>3, <1>4, <1>5, <1>6

(* The immediate instructions, branches and stores.                        *)
LEMMA ImmediateWords ==
    ASSUME WordOps, NEW i, FieldsFit(i), NEW pc, NEW v, NEW old, NEW s, s = decode_insn(i),
           \A r \in s.src : v[r] \in Word,
           i.k \in Branches \cup IType \cup StoreOps \cup {"lui", "swc1", "sdc1"}
    PROVE  Words(s, Value(i, pc, v, old))
<1> USE DEF Branches, Likely, NonLikely, IType, StoreOps
<1>1. decode_insn(i) = decode_itype_insn(i)
  BY DEF decode_insn, ConstShift, RType, CondMove, LoHi, MultDiv, FpCmp, FpCondMove, FpRegMove,
     ToSingle, ToDouble, FpArithD, FpArithS
<1> DEFINE w == Value(i, pc, v, old)
<1>2. CASE i.k \in Branches \cup StoreOps \cup {"swc1", "sdc1"}
  <2>1. s.dst = <<>>
    BY <1>1, <1>2 DEF decode_itype_insn, branch_op, store_op, fp_store_op, LoadOps, Sig
  <2> QED
    BY <2>1, WordsOf
<1>3. CASE i.k \in IType
  <2>1. s.dst \in {<<>>, <<GPR(i.rt)>>} /\ GPR(i.rs) \in s.src
    BY <1>1, <1>3 DEF decode_itype_insn, itype_alu_op, LoadOps, Alu, Sig
  <2>2. w = <<ITypeValue(i, v)>>
    BY <1>3 DEF Value, ConstShift, RType, CondMove, MultDiv, FpCondMove, FpRegMove, FpCmp
  <2>3. ITypeValue(i, v) \in Word
    BY <1>3, <2>1, ITypeTyped DEF FieldsFit
  <2> HIDE DEF w
  <2>4. Words(s, w)
    BY <2>1, <2>2, <2>3, WordsOf
  <2> QED
    BY <2>4 DEF w
<1>4. CASE i.k = "lui"
  <2>1. s.dst \in {<<>>, <<GPR(i.rt)>>}
    BY <1>1, <1>4 DEF decode_itype_insn, itype_lui_op, LoadOps, Alu, Sig
  <2>2. w = <<Unsigned(i.imm * Radix ^ 2)>>
    BY <1>4 DEF Value, ConstShift, RType, CondMove, MultDiv, FpCondMove, FpRegMove, FpCmp
  <2>3. Unsigned(i.imm * Radix ^ 2) \in Word
    <3>1. Radix ^ 2 \in Int /\ i.imm \in Int
      BY RadixPower DEF FieldsFit
    <3>2. i.imm * Radix ^ 2 \in Int
      BY <3>1
    <3> QED
      BY <3>2, UnsignedWord
  <2> HIDE DEF w
  <2>4. Words(s, w)
    BY <2>1, <2>2, <2>3, WordsOf
  <2> QED
    BY <2>4 DEF w
<1> QED
  BY <1>2, <1>3, <1>4

(* The instructions of SPECIAL2 and SPECIAL3, mtc0 and the direct jumps.   *)
LEMMA Special23Words ==
    ASSUME WordOps, NEW i, FieldsFit(i), NEW pc \in Int, NEW v, NEW old, NEW s, s = decode_insn(i),
           \A r \in s.src : v[r] \in Word, Words(s, old),
           i.k \in {"madd", "msub", "mul", "clz", "ext", "ins", "seb", "seh", "mtc0", "j", "jal"}
    PROVE  Words(s, Value(i, pc, v, old))
<1> USE DEF ConstShift, RType, CondMove, LoHi, MultDiv, IType, FpCondMove, FpRegMove, FpCmp,
            FpArithD, FpArithS, ToSingle, ToDouble
<1> DEFINE w == Value(i, pc, v, old)
<1>1. CASE i.k \in {"madd", "msub"}
  <2>1. decode_insn(i) = mult_div_op(i)
    BY <1>1 DEF decode_insn, decode_special2_insn
  <2>2. {GPR(i.rt), GPR(i.rs), LO, HI} \subseteq s.src /\ s.dst = <<LO, HI>>
    BY <1>1, <2>1 DEF mult_div_op, Sig
  <2>3. w = MultDivValue(i, v, old)
    BY <1>1 DEF Value
  <2>4. /\ v[GPR(i.rs)] \in Word /\ v[GPR(i.rt)] \in Word /\ v[LO] \in Word /\ v[HI] \in Word
        /\ old[1] \in Word /\ old[2] \in Word
    BY <2>2 DEF Words
  <2>5. w[1] \in Word /\ w[2] \in Word
    BY <1>1, <2>3, <2>4, MultDivTyped
  <2> HIDE DEF w
  <2>6. Words(s, w)
    BY <2>2, <2>5, WordsOf
  <2> QED
    BY <2>6 DEF w
<1>2. CASE i.k = "mul"
  <2>1. decode_insn(i) = mul_op(i)
    BY <1>2 DEF decode_insn, decode_special2_insn
  <2>2. GPR(i.rt) \in s.src /\ GPR(i.rs) \in s.src /\ s.dst = <<GPR(i.rd)>>
    BY <2>1 DEF mul_op, Sig
  <2>3. w = <<Unsigned(Signed(v[GPR(i.rs)]) * Signed(v[GPR(i.rt)]))>>
    BY <1>2 DEF Value
  <2>4. Unsigned(Signed(v[GPR(i.rs)]) * Signed(v[GPR(i.rt)])) \in Word
    <3>1. Signed(v[GPR(i.rs)]) \in Int /\ Signed(v[GPR(i.rt)]) \in Int
      BY <2>2, SignedInt
    <3>2. Signed(v[GPR(i.rs)]) * Signed(v[GPR(i.rt)]) \in Int
      BY <3>1
    <3> QED
      BY <3>2, UnsignedWord
  <2> HIDE DEF w
  <2>5. Words(s, w)
    BY <2>2, <2>3, <2>4, WordsOf
  <2> QED
    BY <2>5 DEF w
<1>3. CASE i.k = "clz"
  <2>1. decode_insn(i) = clz_op(i)
    BY <1>3 DEF decode_insn, decode_special2_insn
  <2>2. s.dst = <<GPR(i.rd)>>
    BY <2>1 DEF clz_op, Alu, Sig
  <2>3. w = <<Clz(v[GPR(i.rs)])>>
    BY <1>3 DEF Value
  <2>4. Clz(v[GPR(i.rs)]) \in Word
    BY ClzTyped
  <2> HIDE DEF w
  <2>5. Words(s, w)
    BY <2>2, <2>3, <2>4, WordsOf
  <2> QED
    BY <2>5 DEF w
<1>4. CASE i.k \in {"ext", "ins"}
  <2>1. decode_insn(i) = IF i.k = "ext" THEN ext_op(i) ELSE ins_op(i)
    BY <1>4 DEF decode_insn, decode_special3_insn
  <2>2. /\ s.dst = <<GPR(i.rt)>> /\ GPR(i.rs) \in s.src
        /\ i.k = "ins" => GPR(i.rt) \in s.src
    BY <2>1 DEF ext_op, ins_op, Alu, Sig
  <2>3. w = <<BitFieldValue(i, v)>>
    BY <1>4 DEF Value
  <2>4. BitFieldValue(i, v) \in Word
    <3>1. /\ v[GPR(i.rs)] \in Word
          /\ i.k = "ins" => v[GPR(i.rt)] \in Word
          /\ i.sa \in 0 .. WordBits - 1 /\ i.rd \in 0 .. WordBits - 1
          /\ i.k = "ins" => i.sa <= i.rd
      BY <1>4, <2>2 DEF FieldsFit
    <3> QED
      BY <1>4, <3>1, BitFieldTyped
  <2> HIDE DEF w
  <2>5. Words(s, w)
    BY <2>2, <2>3, <2>4, WordsOf
  <2> QED
    BY <2>5 DEF w
<1>5. CASE i.k \in {"seb", "seh"}
  <2>1. decode_insn(i) = se_op(i)
    BY <1>5 DEF decode_insn, decode_special3_insn
  <2>2. s.dst = <<GPR(i.rd)>> /\ GPR(i.rt) \in s.src
    BY <2>1 DEF se_op, Sig
  <2>3. PICK t : t = v[GPR(i.rt)]
    OBVIOUS
  <2>4. w = IF i.k = "seb" THEN <<SignExtend(t % Radix, 1)>> ELSE <<SignExtend(t % Radix ^ 2, 2)>>
    BY <1>5, <2>3 DEF Value
  <2>5. SignExtend(t % Radix, 1) \in Word /\ SignExtend(t % Radix ^ 2, 2) \in Word
    <3>1. t \in Int
      BY <2>2, <2>3, WordFacts
    <3>2. Radix ^ 1 = Radix
      BY RadixOne
    <3>3. t % Radix ^ 1 \in 0 .. Radix ^ 1 - 1 /\ t % Radix ^ 2 \in 0 .. Radix ^ 2 - 1
      BY <3>1, LowBytesTyped
    <3> QED
      BY <3>2, <3>3, SignExtendTyped
  <2> HIDE DEF w
  <2>6. Words(s, w)
    BY <2>2, <2>4, <2>5, WordsOf
  <2> QED
    BY <2>6 DEF w
<1>6. CASE i.k = "mtc0"
  <2>1. s.dst = <<CPR0(i.rd)>> /\ GPR(i.rt) \in s.src
    BY <1>6 DEF decode_insn, mtc0, Alu, Sig
  <2>2. w = <<v[GPR(i.rt)]>> /\ v[GPR(i.rt)] \in Word
    BY <1>6, <2>1 DEF Value
  <2> HIDE DEF w
  <2>3. Words(s, w)
    BY <2>1, <2>2, WordsOf
  <2> QED
    BY <2>3 DEF w
<1>7. CASE i.k = "j"
  <2>1. s.dst = <<>>
    BY <1>7 DEF decode_insn, jump_op, Sig
  <2> QED
    BY <2>1, WordsOf
<1>8. CASE i.k = "jal"
  <2>1. s.dst = <<GPR(31)>>
    BY <1>8 DEF decode_insn, jump_op, Sig
  <2>2. w = <<Unsigned(pc + 8)>>
    BY <1>8 DEF Value
  <2>3. Unsigned(pc + 8) \in Word
    BY UnsignedWord
  <2> HIDE DEF w
  <2>4. Words(s, w)
    BY <2>1, <2>2, <2>3, WordsOf
  <2> QED
    BY <2>4 DEF w
<1> QED
  BY <1>1, <1>2, <1>3, <1>4, <1>5, <1>6, <1>7, <1>8

(* The floating-point instructions that the host does not compute.         *)
LEMMA MoveWords ==
    ASSUME NEW i, FieldsFit(i), NEW pc, NEW v, NEW old, NEW s, s = decode_insn(i),
           \A r \in s.src : v[r] \in Word,
           i.k \in {"mfc1", "mtc1", "mov.d", "mov.s"} \cup FpCmp \cup FpCondMove \cup FpRegMove
    PROVE  Words(s, Value(i, pc, v, old))
<1> USE DEF ConstShift, RType, CondMove, LoHi, MultDiv, IType, FpCondMove, FpRegMove, FpCmp,
            FpArithD, FpArithS, ToSingle, ToDouble
<1> DEFINE w == Value(i, pc, v, old)
<1>0. decode_insn(i) = decode_coproc1_insn(i)
  BY DEF decode_insn, FpArithD, FpArithS
<1>1. CASE i.k = "mfc1"
  <2>1. s.dst = <<GPR(i.rt)>> /\ CPR1(i.rd) \in s.src
    BY <1>0, <1>1 DEF decode_coproc1_insn, mfc1, Alu, Sig
  <2>2. w = <<v[CPR1(i.rd)]>> /\ v[CPR1(i.rd)] \in Word
    BY <1>1, <2>1 DEF Value
  <2> HIDE DEF w
  <2>3. Words(s, w)
    BY <2>1, <2>2, WordsOf
  <2> QED
    BY <2>3 DEF w
<1>2. CASE i.k = "mtc1"
  <2>1. s.dst = <<CPR1(i.rd)>> /\ GPR(i.rt) \in s.src
    BY <1>0, <1>2 DEF decode_coproc1_insn, mtc1, Alu, Sig
  <2>2. w = <<v[GPR(i.rt)]>> /\ v[GPR(i.rt)] \in Word
    BY <1>2, <2>1 DEF Value
  <2> HIDE DEF w
  <2>3. Words(s, w)
    BY <2>1, <2>2, WordsOf
  <2> QED
    BY <2>3 DEF w
<1>3. CASE i.k \in {"mov.d", "mov.s"}
  <2>1. decode_insn(i) = fp_arith_op(i)
    BY <1>0, <1>3 DEF decode_coproc1_insn, ToSingle, ToDouble
  <2>2. s.dst = Fp(i.k, i.sa) /\ FpSet(i.k, i.rd) \subseteq s.src
    BY <2>1 DEF fp_arith_op, Sig
  <2>3. w = FpSource(i, v, i.rd)
    <3>1. w = FpValue(i, v)
      BY <1>3 DEF Value
    <3>2. FpValue(i, v) = FpSource(i, v, i.rd)
      BY <1>3 DEF FpValue, FpBinary
    <3> QED
      BY <3>1, <3>2
  <2>4. \A j \in DOMAIN Fp(i.k, i.sa) : FpSource(i, v, i.rd)[j] \in Word
    BY <2>2, FpSourceTyped
  <2> QED
    BY <2>2, <2>3, <2>4 DEF Words
<1>4. CASE i.k \in FpCmp
  <2>1. decode_insn(i) = fp_cmp(i)
    BY <1>0, <1>4 DEF decode_coproc1_insn
  <2>2. s.dst = <<CR25>> /\ CR25 \in s.src
    BY <2>1 DEF fp_cmp, Sig
  <2>3. w = <<FpCmpValue(i, v)>>
    BY <1>4 DEF Value
  <2>4. FpCmpValue(i, v) \in Word
    <3>1. i.sa \in 0 .. WordBits - 1 /\ v[CR25] \in Word
      BY <1>4, <2>2 DEF FieldsFit
    <3> QED
      BY <3>1, ConditionTyped DEF FpCmpValue
  <2> HIDE DEF w
  <2>5. Words(s, w)
    BY <2>2, <2>3, <2>4, WordsOf
  <2> QED
    BY <2>5 DEF w
<1>5. CASE i.k \in FpCondMove \cup FpRegMove
  <2>1. decode_insn(i) = IF i.k \in FpCondMove THEN fmovc_op(i) ELSE fmov_op(i)
    BY <1>0, <1>5 DEF decode_coproc1_insn
  <2>2. /\ s.dst = Fp(i.k, i.sa)
        /\ FpSet(i.k, i.rd) \subseteq s.src /\ FpSet(i.k, i.sa) \subseteq s.src
    BY <2>1 DEF fmovc_op, fmov_op, Sig
  <2>3. w = FpMoveValue(i, v)
    BY <1>5 DEF Value
  <2>4. w \in {FpSource(i, v, i.rd), FpSource(i, v, i.sa)}
    BY <2>3 DEF FpMoveValue
  <2>5. /\ \A j \in DOMAIN Fp(i.k, i.sa) : FpSource(i, v, i.rd)[j] \in Word
        /\ \A j \in DOMAIN Fp(i.k, i.sa) : FpSource(i, v, i.sa)[j] \in Word
    BY <2>2, FpSourceTyped
  <2> QED
    BY <2>2, <2>4, <2>5 DEF Words
<1> QED
  BY <1>1, <1>2, <1>3, <1>4, <1>5

(* What execute() computes from words are words, for every instruction of  *)
(* the text that is no load and no host call.                              *)
LEMMA ValueTyped ==
    ASSUME WordOps, FpWords, NEW a, NEW s, s = decode_insn(InsnAt(a)), s.at = "execute",
           NEW v \in [s.src -> Word], NEW old, Words(s, old)
    PROVE  Words(s, Value(InsnAt(a), a, v, old))
<1>1. PICK i : i = InsnAt(a)
  OBVIOUS
<1>2. i.k \in Mnemonics /\ FieldsFit(i) /\ s = decode_insn(i)
  BY <1>1, Decodes, TextFits
<1>3. \A r \in s.src : v[r] \in Word
  OBVIOUS
<1>4. i.k # "sll" => a \in Int
  BY <1>1, RegsAssumption DEF InsnAt, Nop, Insn
<1>5. s.cls # "load" /\ i.k # "monitor"
  BY <1>2, DecodeDst
<1>6. i.k \notin LoadOps \cup {"lwc1", "ldc1"}
  BY <1>2, <1>5, Decode
<1>7. CASE i.k \in FpHost
  <2>1. i.k \notin ConstShift
    BY <1>7 DEF FpHost, ConstShift, FpArithD, FpArithS, ToSingle, ToDouble
  <2>2. a \in DOMAIN Program /\ i = Program[a]
    BY <1>1, <2>1 DEF InsnAt, Nop, Insn, ConstShift
  <2>3. \A j \in DOMAIN s.dst : FpValue(i, v)[j] \in Word
    BY <1>2, <1>7, <2>2 DEF FpWords
  <2>4. Value(i, a, v, old) = FpValue(i, v)
    BY <1>7 DEF Value, FpHost, FpArithD, FpArithS, ToSingle, ToDouble, ConstShift, RType, CondMove,
       LoHi, MultDiv, IType, FpCondMove, FpRegMove, FpCmp
  <2> QED
    BY <1>1, <2>3, <2>4 DEF Words
<1>8. CASE i.k \in ConstShift \cup RType
  BY <1>1, <1>2, <1>3, <1>8, RTypeWords
<1>9. CASE i.k \in CondMove \cup LoHi \cup MultDiv \cup {"teq", "jr", "jalr", "break", "sync"}
  <2>1. a \in Int
    BY <1>4, <1>9 DEF CondMove, LoHi, MultDiv
  <2> QED
    BY <1>1, <1>2, <1>3, <1>9, <2>1, SpecialWords
<1>10. CASE i.k \in Branches \cup IType \cup StoreOps \cup {"lui", "swc1", "sdc1"}
  BY <1>1, <1>2, <1>3, <1>10, ImmediateWords
<1>11. CASE i.k \in {"madd", "msub", "mul", "clz", "ext", "ins", "seb", "seh", "mtc0", "j", "jal"}
  <2>1. a \in Int
    BY <1>4, <1>11
  <2> QED
    BY <1>1, <1>2, <1>3, <1>11, <2>1, Special23Words
<1>12. CASE i.k \in {"mfc1", "mtc1", "mov.d", "mov.s"} \cup FpCmp \cup FpCondMove \cup FpRegMove
  BY <1>1, <1>2, <1>3, <1>12, MoveWords
<1> QED
  BY <1>2, <1>5, <1>6, <1>7, <1>8, <1>9, <1>10, <1>11, <1>12
  DEF Mnemonics, FpHost, Jumps

(* A memory of words.                                                      *)
MemWords(m) == \A a \in DOMAIN m : m[a] \in Word

(* The stores whose address is not a multiple of what they write.  The     *)
(* code does not check it.                                                 *)
MisalignedStore(i, ea) ==
    \/ i.k = "sh" /\ ea % 2 # 0
    \/ i.k \in {"sw", "swc1"} /\ ea % 4 # 0
    \/ i.k = "sdc1" /\ ea % 8 # 0

(* Reading and writing a word.                                             *)
LEMMA MemoryTyped ==
    ASSUME NEW m, MemWords(m), NEW a, NEW w \in Word
    PROVE  ReadWord(m, a) \in Word /\ MemWords(WriteWord(m, a, w))
BY WordFacts DEF MemWords, ReadWord, WriteWord

(* What the partial loads and stores are made of.                          *)
LEMMA BytesTyped ==
    ASSUME WordOps, NEW ma \in 0 .. 3, NEW r \in Word
    PROVE  /\ Byte(r, ma) \in 0 .. Radix - 1
           /\ ma # 3 => Half(r, ma) \in 0 .. Radix ^ 2 - 1
           /\ HighMask(ma) \in Word
           /\ r \div Radix ^ (3 - ma) \in Word
           /\ LowBytes(r, ma) \in Word /\ LowBytes(r, 4 - ma) \in Word
<1>1. r \in Int /\ r >= 0
  BY WordFacts
<1>2. /\ Radix ^ (3 - ma) \in Nat \ {0} /\ Radix ^ (4 - ma) \in Nat \ {0}
      /\ Radix ^ (4 - ma) <= WordSize /\ Radix ^ 2 \in Nat \ {0}
      /\ ma # 3 => Radix ^ (2 - ma) \in Nat \ {0}
  <2>1. 3 - ma \in 0 .. 4 /\ 4 - ma \in 0 .. 4 /\ (ma # 3 => 2 - ma \in 0 .. 4)
    OBVIOUS
  <2> QED
    BY <2>1, RadixPower
<1>3. Byte(r, ma) \in 0 .. Radix - 1
  <2>1. r \div Radix ^ (3 - ma) \in Int
    BY <1>1, <1>2
  <2> QED
    BY <2>1, WordFacts DEF Byte
<1>4. ma # 3 => Half(r, ma) \in 0 .. Radix ^ 2 - 1
  <2>1. ma # 3 => r \div Radix ^ (2 - ma) \in Int
    BY <1>1, <1>2
  <2> QED
    BY <1>2, <2>1 DEF Half
<1>5. HighMask(ma) \in Word
  BY <1>2, WordFacts DEF HighMask
<1>6. r \div Radix ^ (3 - ma) \in Word
  BY <1>2, ShiftWord
<1>7. LowBytes(r, ma) \in Word /\ LowBytes(r, 4 - ma) \in Word
  <2>1. ma \in 0 .. 4 /\ 4 - ma \in 0 .. 4
    OBVIOUS
  <2> QED
    BY <1>1, <2>1, LowBytesTyped DEF LowBytes
<1> QED
  BY <1>3, <1>4, <1>5, <1>6, <1>7

(* load_op::complete() loads words, from an address it accepts.            *)
LEMMA LoadValueTyped ==
    ASSUME WordOps, NEW k \in LoadOps, NEW ma \in 0 .. 3, NEW r \in Word, NEW x \in Word,
           k \in {"lh", "lhu"} => ma # 3
    PROVE  LoadValue(k, ma, r, x) \in Word
<1>1. CASE k \in {"lb", "lbu"}
  <2>1. Byte(r, ma) \in 0 .. Radix ^ 1 - 1 /\ Byte(r, ma) \in Word
    <3>1. Byte(r, ma) \in 0 .. Radix ^ 1 - 1 /\ Radix ^ 1 <= WordSize /\ Radix ^ 1 \in Nat
      BY BytesTyped, RadixOne, RadixPower
    <3> QED
      BY <3>1, WordFacts
  <2> QED
    BY <1>1, <2>1, SignExtendTyped DEF LoadValue
<1>2. CASE k \in {"lh", "lhu"}
  <2>1. Half(r, ma) \in 0 .. Radix ^ 2 - 1 /\ Half(r, ma) \in Word
    <3>1. Half(r, ma) \in 0 .. Radix ^ 2 - 1 /\ Radix ^ 2 <= WordSize /\ Radix ^ 2 \in Nat
      BY <1>2, BytesTyped, RadixPower
    <3> QED
      BY <3>1, WordFacts
  <2> QED
    BY <1>2, <2>1, SignExtendTyped DEF LoadValue
<1>3. CASE k = "lw"
  BY <1>3 DEF LoadValue
<1>4. CASE k = "lwl"
  <2>1. Unsigned(LowBytes(r, 4 - ma) * Radix ^ ma) \in Word
    <3>1. LowBytes(r, 4 - ma) \in Int /\ Radix ^ ma \in Int
      <4>1. ma \in 0 .. 4
        OBVIOUS
      <4>2. LowBytes(r, 4 - ma) \in Word
        BY BytesTyped
      <4>3. Radix ^ ma \in Nat
        BY <4>1, RadixPower
      <4> QED
        BY <4>2, <4>3, WordFacts
    <3>2. LowBytes(r, 4 - ma) * Radix ^ ma \in Int
      BY <3>1
    <3> QED
      BY <3>2, UnsignedWord
  <2>2. LowBytes(x, ma) \in Word
    BY BytesTyped
  <2>3. LoadValue(k, ma, r, x) = Bor(Unsigned(LowBytes(r, 4 - ma) * Radix ^ ma), LowBytes(x, ma))
    BY <1>4 DEF LoadValue, MergeLeft
  <2> QED
    BY <2>1, <2>2, <2>3 DEF WordOps
<1>5. CASE k = "lwr"
  <2>1. HighMask(3 - ma) \in Word /\ r \div Radix ^ (3 - ma) \in Word
    <3>1. 3 - ma \in 0 .. 3
      OBVIOUS
    <3> QED
      BY <3>1, BytesTyped
  <2>2. LoadValue(k, ma, r, x) = Bor(Band(x, HighMask(3 - ma)), r \div Radix ^ (3 - ma))
    BY <1>5 DEF LoadValue, MergeRight
  <2> QED
    BY <2>1, <2>2 DEF WordOps
<1> QED
  BY <1>1, <1>2, <1>3, <1>4, <1>5 DEF LoadOps

(* Radix ^ 0 is one.                                                       *)
LEMMA RadixZero == Radix ^ 0 = 1 /\ Radix ^ 2 * Radix ^ 2 = WordSize
<1>1. Radix ^ 0 \in Nat /\ Radix ^ (0 + 1) = Radix * Radix ^ 0 /\ Radix ^ 2 * Radix ^ (4 - 2) = WordSize
  BY PowersAssumption
<1>2. PICK a : a = Radix ^ 0
  OBVIOUS
<1>3. a \in Nat /\ Radix = Radix * a /\ Radix \in Nat /\ Radix # 0
  BY <1>1, <1>2, RadixOne, WordFacts
<1>4. \A b, c \in Nat : b # 0 /\ b = b * c => c = 1
  OBVIOUS
<1>5. a = 1
  BY <1>3, <1>4
<1> QED
  BY <1>1, <1>2, <1>5

(* store_op::retire() stores words, when they are aligned.                 *)
LEMMA StoreValueTyped ==
    ASSUME WordOps, NEW k \in StoreOps, NEW ma \in 0 .. 3, NEW r \in Word, NEW d \in Word,
           k = "sh" => ma \in {0, 2}
    PROVE  StoreValue(k, ma, r, d) \in Word
<1>0. r \in 0 .. WordSize - 1 /\ WordSize \in Nat /\ d \in Int
  BY WordFacts
<1>1. CASE k = "sb"
  <2>1. PICK P, M : P = Radix ^ (3 - ma) /\ M = Radix ^ ma
    OBVIOUS
  <2>2. P \in Nat \ {0} /\ M \in Nat \ {0}
    <3>1. 3 - ma \in 0 .. 4 /\ ma \in 0 .. 4
      OBVIOUS
    <3> QED
      BY <2>1, <3>1, RadixPower
  <2>3. P * Radix * M = WordSize
    <3>1. 3 - ma \in 0 .. 3 /\ (3 - ma) + 1 = 4 - ma /\ ma \in 0 .. 4
      OBVIOUS
    <3>2. Radix ^ (4 - ma) = Radix * P /\ M * Radix ^ (4 - ma) = WordSize
      BY <2>1, <3>1, PowersAssumption
    <3>3. \A a, b, c \in Nat : b * (c * a) = a * c * b
      OBVIOUS
    <3> QED
      BY <2>2, <3>2, <3>3, WordFacts
  <2>4. d % Radix \in 0 .. Radix - 1
    BY <1>0, WordFacts
  <2>5. StoreValue(k, ma, r, d) = r - ((r \div P) % Radix) * P + (d % Radix) * P
    BY <1>1, <2>1 DEF StoreValue, Byte
  <2>6. r - ((r \div P) % Radix) * P + (d % Radix) * P \in 0 .. WordSize - 1
    BY <1>0, <2>2, <2>3, <2>4, DigitReplaced, WordFacts
  <2> QED
    BY <2>5, <2>6 DEF Word
<1>2. CASE k = "sh"
  <2>1. PICK P, R, M : P = Radix ^ (2 - ma) /\ R = Radix ^ 2 /\ M = Radix ^ ma
    OBVIOUS
  <2>2. P \in Nat \ {0} /\ M \in Nat \ {0} /\ R \in Nat \ {0}
    <3>1. 2 - ma \in 0 .. 4 /\ ma \in 0 .. 4 /\ 2 \in 0 .. 4
      BY <1>2
    <3> QED
      BY <2>1, <3>1, RadixPower
  <2>3. P * R * M = WordSize
    <3>1. CASE ma = 0
      <4>1. P = R /\ M = 1 /\ R * R = WordSize
        BY <2>1, <3>1, RadixZero
      <4> QED
        BY <2>2, <4>1
    <3>2. CASE ma = 2
      <4>1. P = 1 /\ M = R /\ R * R = WordSize
        BY <2>1, <3>2, RadixZero
      <4> QED
        BY <2>2, <4>1
    <3> QED
      BY <1>2, <3>1, <3>2
  <2>4. d % R \in 0 .. R - 1
    BY <1>0, <2>2
  <2>5. StoreValue(k, ma, r, d) = r - ((r \div P) % R) * P + (d % R) * P
    BY <1>2, <2>1 DEF StoreValue, Half
  <2>6. r - ((r \div P) % R) * P + (d % R) * P \in 0 .. WordSize - 1
    BY <1>0, <2>2, <2>3, <2>4, DigitReplaced
  <2> QED
    BY <2>5, <2>6 DEF Word
<1>3. CASE k = "sw"
  BY <1>3 DEF StoreValue
<1>4. CASE k = "swl"
  <2>1. Unsigned(Signed(d) \div Radix ^ ma) \in Word
    <3>1. Signed(d) \in Int /\ Radix ^ ma \in Nat \ {0}
      BY SignedInt, RadixPower
    <3>2. Signed(d) \div Radix ^ ma \in Int
      BY <3>1
    <3> QED
      BY <3>2, UnsignedWord
  <2>2. HighMask(ma) \in Word
    BY BytesTyped
  <2>3. StoreValue(k, ma, r, d) = Bor(Unsigned(Signed(d) \div Radix ^ ma), Band(r, HighMask(ma)))
    BY <1>4 DEF StoreValue
  <2> QED
    BY <2>1, <2>2, <2>3 DEF WordOps
<1>5. CASE k = "swr"
  <2>1. Unsigned(d * Radix ^ (3 - ma)) \in Word
    <3>1. 3 - ma \in 0 .. 4
      OBVIOUS
    <3>2. Radix ^ (3 - ma) \in Int
      BY <3>1, RadixPower
    <3>3. d * Radix ^ (3 - ma) \in Int
      BY <1>0, <3>2
    <3> QED
      BY <3>3, UnsignedWord
  <2>2. LowBytes(r, 3 - ma) \in Word
    <3>1. 3 - ma \in 0 .. 3
      OBVIOUS
    <3> QED
      BY <3>1, BytesTyped
  <2>3. StoreValue(k, ma, r, d) = Bor(Unsigned(d * Radix ^ (3 - ma)), LowBytes(r, 3 - ma))
    BY <1>5 DEF StoreValue
  <2> QED
    BY <2>1, <2>2, <2>3 DEF WordOps
<1> QED
  BY <1>1, <1>2, <1>3, <1>4, <1>5 DEF StoreOps

(* The aligned word of an address is a word.                               *)
LEMMA AlignedTyped ==
    ASSUME NEW m, MemWords(m), NEW ea \in Word
    PROVE  /\ ea % 4 \in 0 .. 3
           /\ \A a : ReadWord(m, a) \in Word
<1>1. ea \in Int
  BY WordFacts
<1>2. ea % 4 \in 0 .. 3
  BY <1>1
<1>3. 0 \in Word
  BY WordFacts
<1>4. \A a : ReadWord(m, a) \in Word
  BY <1>3 DEF ReadWord, MemWords
<1> QED
  BY <1>2, <1>4

(* The loads: what they read, and how many destinations they have.         *)
LEMMA LoadShape ==
    ASSUME NEW i, i.k \in LoadOps \cup {"lwc1", "ldc1"}, NEW s, s = decode_insn(i)
    PROVE  /\ GPR(i.rs) \in s.src
           /\ i.k \in {"lwl", "lwr"} => GPR(i.rt) \in s.src
           /\ i.k \in LoadOps \cup {"lwc1"} => \E r : s.dst = <<r>>
           /\ i.k = "ldc1" => \E r, q : s.dst = <<r, q>>
<1> USE DEF LoadOps
<1>1. decode_insn(i) = decode_itype_insn(i)
  BY DEF decode_insn, ConstShift, RType, CondMove, LoHi, MultDiv, FpCmp, FpCondMove, FpRegMove,
     ToSingle, ToDouble, FpArithD, FpArithS
<1>2. CASE i.k \in LoadOps
  <2>1. s = load_op(i)
    BY <1>1, <1>2 DEF decode_itype_insn, Branches, Likely, NonLikely, IType, StoreOps
  <2> QED
    BY <1>2, <2>1 DEF load_op, Sig
<1>3. CASE i.k \in {"lwc1", "ldc1"}
  <2>1. s = fp_load_op(i)
    BY <1>1, <1>3 DEF decode_itype_insn, Branches, Likely, NonLikely, IType, StoreOps
  <2>2. GPR(i.rs) \in s.src /\ s.dst = Fp(i.k, i.rt)
    BY <2>1 DEF fp_load_op, Sig
  <2>3. i.k = "lwc1" => s.dst = <<CPR1(i.rt)>>
    BY <2>2 DEF Fp, IsDouble, FpArithD
  <2>4. i.k = "ldc1" => s.dst = <<CPR1(i.rt), CPR1(i.rt + 1)>>
    BY <2>2 DEF Fp, IsDouble
  <2> QED
    BY <1>3, <2>2, <2>3, <2>4
<1> QED
  BY <1>2, <1>3

(* complete() of the load classes loads words.                             *)
LEMMA LoadTyped ==
    ASSUME WordOps, NEW a, NEW i, i = InsnAt(a), NEW s, s = decode_insn(i), s.cls = "load",
           NEW ea \in Word, ~ Misaligned(i, ea), NEW m, MemWords(m), NEW v \in [s.src -> Word]
    PROVE  Words(s, LoadData(i, ea, m, v))
<1>1. i.k \in LoadOps \cup {"lwc1", "ldc1"}
  BY Decodes, Decode
<1>2. PICK ma, r : ma = ea % 4 /\ r = ReadWord(m, ea - ma)
  OBVIOUS
<1>3. ma \in 0 .. 3 /\ r \in Word
  BY <1>2, AlignedTyped
<1>4. CASE i.k \in LoadOps
  <2>1. PICK x : x = IF i.k \in {"lwl", "lwr"} THEN v[GPR(i.rt)] ELSE 0
    OBVIOUS
  <2>2. x \in Word
    <3>1. i.k \in {"lwl", "lwr"} => GPR(i.rt) \in s.src
      BY <1>1, LoadShape
    <3> QED
      BY <2>1, <3>1, WordFacts
  <2>3. i.k \in {"lh", "lhu"} => ma # 3
    <3>1. i.k \in {"lh", "lhu"} => ea % 2 = 0
      BY DEF Misaligned
    <3>2. ea \in Int
      BY WordFacts
    <3> QED
      BY <1>2, <3>1, <3>2
  <2>4. LoadData(i, ea, m, v) = <<LoadValue(i.k, ma, r, x)>>
    BY <1>2, <1>4, <2>1 DEF LoadData, LoadOps
  <2>5. LoadValue(i.k, ma, r, x) \in Word
    BY <1>3, <1>4, <2>2, <2>3, LoadValueTyped
  <2>6. PICK q : s.dst = <<q>>
    BY <1>4, LoadShape
  <2> QED
    BY <2>4, <2>5, <2>6 DEF Words
<1>5. CASE i.k = "lwc1"
  <2>1. LoadData(i, ea, m, v) = <<r>>
    BY <1>2, <1>5 DEF LoadData, LoadOps
  <2>2. PICK q : s.dst = <<q>>
    BY <1>5, LoadShape
  <2> QED
    BY <1>3, <2>1, <2>2 DEF Words
<1>6. CASE i.k = "ldc1"
  <2>1. PICK z : z = ReadWord(m, ea + 4)
    OBVIOUS
  <2>2. z \in Word
    BY <2>1, AlignedTyped
  <2>3. LoadData(i, ea, m, v) = <<z, r>>
    BY <1>2, <1>6, <2>1 DEF LoadData, LoadOps
  <2>4. PICK q, p : s.dst = <<q, p>>
    BY <1>6, LoadShape
  <2> QED
    BY <1>3, <2>2, <2>3, <2>4 DEF Words
<1> QED
  BY <1>1, <1>4, <1>5, <1>6

(* The stores: what they read.                                             *)
LEMMA StoreShape ==
    ASSUME NEW i, i.k \in StoreOps \cup {"swc1", "sdc1"}, NEW s, s = decode_insn(i)
    PROVE  /\ GPR(i.rs) \in s.src /\ s.dst = <<>>
           /\ i.k \in StoreOps => GPR(i.rt) \in s.src
           /\ i.k \in {"swc1", "sdc1"} => CPR1(i.rt) \in s.src
           /\ i.k = "sdc1" => CPR1(i.rt + 1) \in s.src
<1> USE DEF StoreOps
<1>1. decode_insn(i) = decode_itype_insn(i)
  BY DEF decode_insn, ConstShift, RType, CondMove, LoHi, MultDiv, FpCmp, FpCondMove, FpRegMove,
     ToSingle, ToDouble, FpArithD, FpArithS
<1>2. CASE i.k \in StoreOps
  <2>1. s = store_op(i)
    BY <1>1, <1>2 DEF decode_itype_insn, Branches, Likely, NonLikely, IType, LoadOps
  <2> QED
    BY <1>2, <2>1 DEF store_op, Sig
<1>3. CASE i.k \in {"swc1", "sdc1"}
  <2>1. s = fp_store_op(i)
    BY <1>1, <1>3 DEF decode_itype_insn, Branches, Likely, NonLikely, IType, LoadOps
  <2>2. GPR(i.rs) \in s.src /\ s.dst = <<>> /\ \A j \in DOMAIN Fp(i.k, i.rt) : Fp(i.k, i.rt)[j] \in s.src
    BY <2>1 DEF fp_store_op, Sig, FpSet, RangeSet
  <2>3. i.k = "swc1" => Fp(i.k, i.rt) = <<CPR1(i.rt)>>
    BY DEF Fp, IsDouble, FpArithD
  <2>4. i.k = "sdc1" => Fp(i.k, i.rt) = <<CPR1(i.rt), CPR1(i.rt + 1)>>
    BY DEF Fp, IsDouble
  <2> QED
    BY <1>3, <2>2, <2>3, <2>4
<1> QED
  BY <1>2, <1>3

(* retire() of the store classes leaves words in memory.                   *)
LEMMA StoreTyped ==
    ASSUME WordOps, NEW a, NEW i, i = InsnAt(a), NEW s, s = decode_insn(i), s.cls = "store",
           NEW ea \in Word, ~ MisalignedStore(i, ea), NEW m, MemWords(m), NEW v \in [s.src -> Word]
    PROVE  MemWords(StoreData(i, ea, m, v))
<1>1. i.k \in StoreOps \cup {"swc1", "sdc1"}
  BY Decodes, Decode
<1>2. PICK ma, b, r : ma = ea % 4 /\ b = ea - ma /\ r = ReadWord(m, b)
  OBVIOUS
<1>3. ma \in 0 .. 3 /\ r \in Word
  BY <1>2, AlignedTyped
<1>4. CASE i.k \in StoreOps
  <2>1. PICK d : d = v[GPR(i.rt)]
    OBVIOUS
  <2>2. d \in Word
    <3>1. GPR(i.rt) \in s.src
      BY <1>1, <1>4, StoreShape
    <3> QED
      BY <2>1, <3>1
  <2>3. i.k = "sh" => ma \in {0, 2}
    <3>1. i.k = "sh" => ea % 2 = 0
      BY DEF MisalignedStore
    <3>2. ea \in Int
      BY WordFacts
    <3> QED
      BY <1>2, <3>1, <3>2
  <2>4. StoreData(i, ea, m, v) = WriteWord(m, b, StoreValue(i.k, ma, r, d))
    BY <1>2, <1>4, <2>1 DEF StoreData, StoreOps
  <2>5. StoreValue(i.k, ma, r, d) \in Word
    BY <1>3, <1>4, <2>2, <2>3, StoreValueTyped
  <2> QED
    BY <2>4, <2>5, MemoryTyped
<1>5. CASE i.k = "swc1"
  <2>1. StoreData(i, ea, m, v) = WriteWord(m, b, v[CPR1(i.rt)])
    BY <1>2, <1>5 DEF StoreData, StoreOps
  <2>2. CPR1(i.rt) \in s.src
    BY <1>5, StoreShape
  <2>3. v[CPR1(i.rt)] \in Word
    BY <2>2
  <2> QED
    BY <2>1, <2>3, MemoryTyped
<1>6. CASE i.k = "sdc1"
  <2>1. StoreData(i, ea, m, v) = WriteWord(WriteWord(m, b, v[CPR1(i.rt + 1)]), b + 4, v[CPR1(i.rt)])
    BY <1>2, <1>6 DEF StoreData, StoreOps
  <2>2. CPR1(i.rt) \in s.src /\ CPR1(i.rt + 1) \in s.src
    BY <1>6, StoreShape
  <2>3. v[CPR1(i.rt)] \in Word /\ v[CPR1(i.rt + 1)] \in Word
    BY <2>2
  <2>4. MemWords(WriteWord(m, b, v[CPR1(i.rt + 1)]))
    BY <2>3, MemoryTyped
  <2> QED
    BY <2>1, <2>3, <2>4, MemoryTyped
<1> QED
  BY <1>1, <1>4, <1>5, <1>6

(* retire() of a host call leaves words in memory.                         *)
LEMMA MonitorTyped ==
    ASSUME NEW i, NEW v, NEW m, MemWords(m)
    PROVE  MemWords(MonitorMem(i, m, v))
<1>1. 0 \in Word
  BY WordFacts
<1>2. \A b, w : w \in Word => MemWords(WriteWord(m, b, w))
  BY MemoryTyped
<1>3. MemWords(WriteWord(WriteWord(m, v[GPR(4)], 0), v[GPR(4)] + 4, 0))
  BY <1>1, <1>2, MemoryTyped
<1> QED
  BY <1>3 DEF MonitorMem

(* Effective addresses are words.                                          *)
LEMMA AddressTyped ==
    ASSUME NEW a, NEW i, i = InsnAt(a), NEW s, s = decode_insn(i), s.cls \in {"load", "store"},
           NEW v \in [s.src -> Word]
    PROVE  EffectiveAddress(i, v) \in Word
<1>1. GPR(i.rs) \in s.src
  BY Decodes, Decode, LoadShape, StoreShape
<1>2. v[GPR(i.rs)] \in Int /\ i.imm \in Int
  BY <1>1, TextFits, WordFacts DEF FieldsFit
<1>3. v[GPR(i.rs)] + i.imm \in Int
  BY <1>2
<1> QED
  BY <1>3, UnsignedWord DEF EffectiveAddress

-----------------------------------------------------------------------------
(* What the steps do to values                                             *)

(* The fields an operation of the rob keeps until it is executed,          *)
(* completed or marked for a replay.                                       *)
Outcome == Fields \ {"age", "aux", "cc"}

(* The source values x would read now.                                     *)
Sources(x) == [r \in SigOf(x).src |-> prf[op[x].src[r]]]

(* The steps that are not about values keep them.                          *)
LEMMA QuietData ==
    ASSUME WindowInv, QuietStep
    PROVE  /\ \A y \in Elems(rob) : Keeps(y, Outcome)
           /\ UNCHANGED <<rob, prf, mem, valid, path, last_retire_pc, branch_target_map>>
           /\ UNCHANGED <<icnt, rat_retire, rat>>
<1> USE DEF queueVars, windowVars, renameVars, fetchVars, archVars
<1>0. Elems(rob) \subseteq Live
  BY LoadsLive
<1>1. CASE FetchSlot \/ FetchInsn
  <2>1. PICK pc, npc, taken : FetchMore /\ PushFetch(pc, npc, taken)
    BY <1>1 DEF FetchSlot, FetchInsn
  <2>2. PICK x, o : x = FreeId /\ o = NewOp(pc, npc, taken)
    OBVIOUS
  <2>3. op' = [op EXCEPT ![x] = o] /\ x \notin Live
    BY <2>1, <2>2, FreeIdFresh DEF PushFetch, WindowInv, FetchMore
  <2>4. \A y \in Live : op'[y] = op[y]
    BY <2>3, OneOp
  <2>5. UNCHANGED <<rob, prf, mem, valid, path, last_retire_pc, branch_target_map>>
        /\ UNCHANGED <<icnt, rat_retire, rat>>
    BY <2>1 DEF PushFetch
  <2> QED
    BY <1>0, <2>4, <2>5 DEF Keeps
<1>2. CASE DecodeOne
  <2>1. PICK x, a : op' = [op EXCEPT ![x].age = 0, ![x].slot = a] /\ x = Head(fetch_queue)
    BY <1>2 DEF DecodeOne
  <2>2. op' = [op EXCEPT ![x] = [op[x] EXCEPT !.age = 0, !.slot = a]]
    BY <2>1
  <2>3. x \in Elems(fetch_queue)
    BY <1>2, <2>1, TailElems DEF WindowInv, Shape, DecodeOne, DecodeMore
  <2>4. x \notin Elems(rob)
    BY <2>3 DEF WindowInv, OnePlace
  <2>5. \A y \in Live : y # x => op'[y] = op[y]
    BY <2>2, OneOp
  <2>6. UNCHANGED <<rob, prf, mem, valid, path, last_retire_pc, branch_target_map>>
        /\ UNCHANGED <<icnt, rat_retire, rat>>
    BY <1>2 DEF DecodeOne
  <2> QED
    BY <1>0, <2>4, <2>5, <2>6 DEF Keeps
<1>3. CASE CacheTick
  <2>1. ASSUME NEW y \in Live PROVE Keeps(y, Outcome)
    <3>1. y \in Ids /\ DOMAIN op[y] = Fields
      BY LiveFields
    <3>2. op'[y] = (IF y \in inflight /\ op[y].aux = 0
                    THEN [op[y] EXCEPT !.cc = 1, !.aux = -1] ELSE op[y])
      BY <1>3, <3>1 DEF CacheTick, TickDelay
    <3> QED
      BY <3>1, <3>2 DEF Keeps, Outcome, Fields
  <2>2. UNCHANGED <<rob, prf, mem, valid, path, last_retire_pc, branch_target_map>>
        /\ UNCHANGED <<icnt, rat_retire, rat>>
    BY <1>3 DEF CacheTick
  <2> QED
    BY <1>0, <2>1, <2>2
<1>4. CASE NextCycle
  <2> DEFINE dec(n) == IF n = -1 THEN -1 ELSE n - 1
  <2>1. ASSUME NEW y \in Live PROVE Keeps(y, Outcome)
    <3>1. y \in Ids /\ DOMAIN op[y] = Fields
      BY LiveFields
    <3>2. op'[y] = [op[y] EXCEPT !.age = IF @ < 2 THEN @ + 1 ELSE 2, !.cc = dec(@), !.aux = dec(@)]
      BY <1>4, <3>1 DEF NextCycle
    <3> QED
      BY <3>1, <3>2 DEF Keeps, Outcome, Fields
  <2>2. UNCHANGED <<rob, prf, mem, valid, path, last_retire_pc, branch_target_map>>
        /\ UNCHANGED <<icnt, rat_retire, rat>>
    BY <1>4 DEF NextCycle
  <2> QED
    BY <1>0, <2>1, <2>2
<1>5. CASE ThreadYield \/ QuietRetire \/ Terminated \/ UNCHANGED vars
  <2>1. op' = op /\ UNCHANGED <<queueVars, archVars, renameVars>>
    <3>1. CASE ThreadYield
      BY <3>1 DEF ThreadYield
    <3>2. CASE QuietRetire
      BY <3>2 DEF QuietRetire, RetireIdle, RetireException, RetireWaitSlot, ExceptionBegin,
         ExceptionWaitSlot, DelaySlotException, RetireEnd, RetireMoves
    <3>3. CASE Terminated \/ UNCHANGED vars
      BY <3>3 DEF Terminated, vars
    <3> QED
      BY <1>5, <3>1, <3>2, <3>3
  <2> QED
    BY <2>1 DEF Keeps
<1> QED
  BY <1>1, <1>2, <1>3, <1>4, <1>5 DEF QuietStep, QuietFront

(* allocate() renames the youngest operation and touches no value.         *)
LEMMA AllocateData ==
    ASSUME WindowInv, AllocateOne, NEW x, x = Head(decode_queue)
    PROVE  /\ \A y \in Elems(rob) : op'[y] = op[y]
           /\ x \notin Elems(rob) /\ Elems(rob)' = Elems(rob) \cup {x} /\ rob' = Append(rob, x)
           /\ Keeps(x, Outcome \ {"src", "new", "prev"})
           /\ UNCHANGED <<prf, mem, path, last_retire_pc, branch_target_map>>
           /\ UNCHANGED <<icnt, rpc, ret, rat_retire>>
<1>1. PICK a, b, c : op' = [op EXCEPT ![x].src = a, ![x].prev = b, ![x].new = c]
  BY DEF AllocateOne
<1>2. op' = [op EXCEPT ![x] = [op[x] EXCEPT !.src = a, !.prev = b, !.new = c]]
  BY <1>1
<1>3. x \in Live /\ x \in Ids /\ x \notin Elems(rob)
      /\ rob' = Append(rob, x)
  BY TailElems, QueuesLive DEF WindowInv, Shape, OnePlace, AllocateOne, AllocateMore
<1>4. DOMAIN op[x] = Fields
  BY <1>3, LiveFields
<1> DEFINE o == [op[x] EXCEPT !.src = a, !.prev = b, !.new = c]
<1>5. \A f \in Outcome \ {"src", "new", "prev"} : o[f] = op[x][f]
  BY <1>4 DEF Outcome, Fields
<1> HIDE DEF o
<1>6. /\ \A y \in Live : y # x => op'[y] = op[y]
      /\ op'[x] = o
  BY <1>2, <1>3, OneOp DEF o
<1>7. Elems(rob)' = Elems(rob) \cup {x}
  <2>1. Elems(rob') = Elems(rob) \cup {x}
    BY <1>3, AppendElems DEF WindowInv, Shape
  <2> QED
    BY <2>1 DEF Elems
<1>8. UNCHANGED <<prf, mem, path, last_retire_pc, branch_target_map>>
      /\ UNCHANGED <<icnt, rpc, ret, rat_retire>>
  BY DEF AllocateOne, archVars
<1> QED
  BY <1>3, <1>5, <1>6, <1>7, <1>8, LoadsLive DEF Keeps

(* Only execute() of the op class issues x and writes its destinations.    *)
ExecuteSays(x, v, w) ==
    /\ x \in Elems(rob) /\ ~ op[x].issued /\ ~ op[x].done /\ Ready(x)
    /\ \E lat : op'[x] = Executed(x, v, lat)
    /\ op' = [op EXCEPT ![x] = op'[x]]
    /\ prf' = IF SigOf(x).at = "execute" /\ op[x].new # <<>> THEN WritePrf(x, w) ELSE prf
    /\ \A y \in Elems(rob) : y # x => op'[y] = op[y]

(* execute() does that, from the values of its sources.                    *)
LEMMA ExecuteData ==
    ASSUME WindowInv, ExecuteOne
    PROVE  /\ \E x, v, w :
                /\ v = Sources(x)
                /\ w = Value(InsnOf(x), op[x].pc, v, [n \in DOMAIN op[x].new |-> prf[op[x].new[n]]])
                /\ ExecuteSays(x, v, w)
           /\ UNCHANGED <<rob, mem, valid, path, last_retire_pc, branch_target_map>>
           /\ UNCHANGED <<icnt, rpc, ret, rat, rat_retire>>
<1> DEFINE cc == SchedOrder[Min(Schedulable)]
           xx == rs[cc][Min(ReadyAt(cc))]
<1>1. Schedulable # {}
  BY DEF ExecuteOne
<1>2. cc \in Classes /\ xx \in Elems(rs[cc]) /\ ~ nuke
  BY <1>1, ScheduledOp
<1>3. Ready(xx)
  <2>1. Min(Schedulable) \in Schedulable
    <3>1. Schedulable \in SUBSET Nat
      BY DEF Schedulable, SchedOrder
    <3> QED
      BY <1>1, <3>1, MinIn
  <2>2. ReadyAt(cc) # {}
    BY <2>1 DEF Schedulable
  <2> HIDE DEF cc
  <2>3. Min(ReadyAt(cc)) \in ReadyAt(cc)
    <3>1. ReadyAt(cc) \in SUBSET Nat
      BY <1>2 DEF ReadyAt, WindowInv, Shape
    <3> QED
      BY <2>2, <3>1, MinIn
  <2> QED
    BY <2>3 DEF ReadyAt
<1>a. \E lat : op' = [op EXCEPT ![xx] = Executed(xx, Sources(xx), lat)]
  BY DEF ExecuteOne, Sources
<1>b. prf' = IF SigOf(xx).at = "execute" /\ op[xx].new # <<>>
             THEN WritePrf(xx, Value(InsnOf(xx), op[xx].pc, Sources(xx),
                                     [n \in DOMAIN op[xx].new |-> prf[op[xx].new[n]]]))
             ELSE prf
  BY DEF ExecuteOne, Sources
<1>c. PICK x : x = xx
  OBVIOUS
<1>4. PICK v, w, lat :
        /\ v = Sources(x)
        /\ w = Value(InsnOf(x), op[x].pc, v, [n \in DOMAIN op[x].new |-> prf[op[x].new[n]]])
        /\ op' = [op EXCEPT ![x] = Executed(x, v, lat)]
        /\ prf' = IF SigOf(x).at = "execute" /\ op[x].new # <<>> THEN WritePrf(x, w) ELSE prf
  <2> HIDE DEF xx
  <2> QED
    BY <1>a, <1>b, <1>c
<1>5. x \in Elems(rs[cc]) /\ Ready(x)
  BY <1>2, <1>3, <1>c
<1> HIDE DEF xx
<1>6. x \in Elems(rob) /\ ~ op[x].issued
  BY <1>2, <1>5 DEF WindowInv, Waiting
<1>7. x \in Live /\ ~ op[x].done
  BY <1>6, QueuesLive DEF WindowInv, Unissued
<1>8. PICK o : o = Executed(x, v, lat)
  OBVIOUS
<1>9. /\ \A y \in Live : y # x => op'[y] = op[y]
      /\ op'[x] = o
  BY <1>4, <1>7, <1>8, OneOp
<1>10. op' = [op EXCEPT ![x] = op'[x]]
  BY <1>4, <1>8, <1>9
<1>11. ExecuteSays(x, v, w)
  BY <1>4, <1>5, <1>6, <1>7, <1>8, <1>9, <1>10, LoadsLive DEF ExecuteSays
<1>12. UNCHANGED <<rob, mem, valid, path, last_retire_pc, branch_target_map>>
       /\ UNCHANGED <<icnt, rpc, ret, rat, rat_retire>>
  BY DEF ExecuteOne, queueVars, archVars
<1> QED
  BY <1>4, <1>11, <1>12

(* Only complete() makes x done, and writes what a load x read.            *)
CompleteSays(x, w) ==
    /\ x \in Elems(rob) /\ op[x].issued /\ ~ op[x].done /\ op'[x].done
    /\ Keeps(x, Outcome \ {"done"})
    /\ prf' = IF SigOf(x).at = "complete" /\ ~ op[x].lexc THEN WritePrf(x, w) ELSE prf
    /\ \A y \in Elems(rob) : y # x => op'[y] = op[y]

(* complete() does that, from memory.                                      *)
LEMMA CompleteData ==
    ASSUME WindowInv, CompleteOne
    PROVE  /\ \E x, w : /\ w = LoadData(InsnOf(x), op[x].ea, mem, op[x].v)
                        /\ CompleteSays(x, w)
           /\ UNCHANGED <<rob, mem, path, last_retire_pc, branch_target_map>>
           /\ UNCHANGED <<icnt, rpc, ret, rat, rat_retire>>
<1> DEFINE n == Min(Completing)
<1>1. n \in Completing
  <2>1. Completing \in SUBSET Nat
    BY DEF Completing, WindowInv, Shape
  <2>2. Completing # {}
    BY DEF CompleteOne
  <2> QED
    BY <2>1, <2>2, MinIn
<1>2. PICK x : x = rob[n]
  OBVIOUS
<1>2a. PICK w : w = LoadData(InsnOf(x), op[x].ea, mem, op[x].v)
  OBVIOUS
<1>3. /\ op' = [op EXCEPT ![x].done = TRUE]
      /\ prf' = IF SigOf(x).at = "complete" /\ ~ op[x].lexc THEN WritePrf(x, w) ELSE prf
  BY <1>2, <1>2a DEF CompleteOne
<1> HIDE DEF n
<1>4. x \in Elems(rob) /\ ~ op[x].done /\ op[x].cc = 0
  BY <1>1, <1>2 DEF Completing, Elems
<1>5. x \in Live /\ DOMAIN op[x] = Fields
  BY <1>4, QueuesLive, LiveFields DEF WindowInv
<1>6. op[x].issued
  BY <1>4, <1>5 DEF WindowInv, Unissued
<1>7. op' = [op EXCEPT ![x] = [op[x] EXCEPT !.done = TRUE]]
  BY <1>3
<1> DEFINE o == [op[x] EXCEPT !.done = TRUE]
<1>8. o.done /\ \A f \in Outcome \ {"done"} : o[f] = op[x][f]
  BY <1>5 DEF Outcome, Fields
<1> HIDE DEF o
<1>9. /\ \A y \in Live : y # x => op'[y] = op[y]
      /\ op'[x] = o
  BY <1>5, <1>7, OneOp DEF o
<1>10. CompleteSays(x, w)
  BY <1>3, <1>4, <1>6, <1>8, <1>9, LoadsLive DEF Keeps, CompleteSays
<1>11. UNCHANGED <<rob, mem, path, last_retire_pc, branch_target_map>>
       /\ UNCHANGED <<icnt, rpc, ret, rat, rat_retire>>
  BY DEF CompleteOne, queueVars, archVars
<1> QED
  BY <1>2a, <1>10, <1>11

(* retire() deletes the oldest operation and may mark others.              *)
LEMMA RetireData ==
    ASSUME WindowInv, MarkInv, RetireStep, NEW x, x = Head(rob)
    PROVE  /\ x \in Elems(rob) /\ op[x].done /\ op[x].issued /\ ~ op[x].lexc
           /\ rob # <<>> /\ rob' = Tail(rob) /\ Elems(rob)' = Elems(rob) \ {x}
           /\ \A y \in Elems(rob)' :
                 /\ Keeps(y, Outcome \ {"lexc"})
                 /\ op[y].lexc => op'[y].lexc
                 /\ op'[y].lexc => op[y].lexc \/ y \in load_tbl
<1>1. rob # <<>> /\ op[x].done /\ ~ op[x].lexc /\ RetireOp(x) /\ x \in Live /\ x \in Elems(rob)
      /\ ~ nuke
  BY RetireHead
<1>2. op[x].issued
  BY <1>1 DEF WindowInv, Unissued
<1>3. rob' = Tail(rob)
  BY <1>1 DEF RetireOp
<1>4. Elems(rob)' = Elems(rob) \ {x}
  <2>1. Elems(Tail(rob)) = Elems(rob) \ {x}
    BY <1>1, TailElems DEF WindowInv, Shape, OnePlace
  <2> QED
    BY <1>3, <2>1 DEF Elems
<1>5. PICK replay \in BOOLEAN :
        op' = [y \in Ids |-> IF y = x THEN Null
                             ELSE IF replay /\ y \in load_tbl
                             THEN [op[y] EXCEPT !.lexc = TRUE] ELSE op[y]]
  <2>1. PICK replay \in BOOLEAN : replay = (Violated(x) # {})
    OBVIOUS
  <2>2. op' = [y \in Ids |-> IF y = x THEN Null
                             ELSE IF Violated(x) # {} /\ y \in load_tbl
                             THEN [op[y] EXCEPT !.lexc = TRUE] ELSE op[y]]
    BY <1>1 DEF RetireOp
  <2> QED
    BY <2>1, <2>2
<1>6. ASSUME NEW y \in Elems(rob), y # x
      PROVE  /\ Keeps(y, Outcome \ {"lexc"})
             /\ op[y].lexc => op'[y].lexc
             /\ op'[y].lexc => op[y].lexc \/ y \in load_tbl
  <2>1. y \in Ids /\ DOMAIN op[y] = Fields
    BY LiveFields, LoadsLive
  <2>2. op'[y] = IF replay /\ y \in load_tbl THEN [op[y] EXCEPT !.lexc = TRUE] ELSE op[y]
    BY <1>5, <1>6, <2>1
  <2>3. CASE replay /\ y \in load_tbl
    <3>1. op'[y] = [op[y] EXCEPT !.lexc = TRUE]
      BY <2>2, <2>3
    <3>2. op'[y].lexc = TRUE /\ \A f \in Outcome \ {"lexc"} : op'[y][f] = op[y][f]
      BY <2>1, <3>1 DEF Outcome, Fields
    <3> QED
      BY <2>3, <3>2 DEF Keeps
  <2>4. CASE ~ (replay /\ y \in load_tbl)
    BY <2>2, <2>4 DEF Keeps
  <2> QED
    BY <2>3, <2>4
<1> QED
  BY <1>1, <1>2, <1>3, <1>4, <1>6

(* The recovery empties the rob and keeps the retired state.               *)
LEMMA RecoveryData ==
    ASSUME WindowInv, Nuke \/ RecoverySleep
    PROVE  /\ rob' = <<>> /\ Elems(rob)' = {}
           /\ UNCHANGED <<prf, mem, path, last_retire_pc, branch_target_map>>
           /\ UNCHANGED <<icnt, rat_retire>>
           /\ rpc' \in {"sleep", "end"}
<1>1. rob' = <<>>
  BY DEF Nuke, RecoverySleep, WindowInv, Recovery
<1>2. Elems(rob)' = {}
  BY <1>1 DEF Elems
<1>3. UNCHANGED <<prf, mem, path, last_retire_pc, branch_target_map>>
      /\ UNCHANGED <<icnt, rat_retire>> /\ rpc' \in {"sleep", "end"}
  BY DEF Nuke, RecoverySleep, ClearWindow, renameVars, archVars
<1> QED
  BY <1>1, <1>2, <1>3

-----------------------------------------------------------------------------
(* Registers and memory hold words                                         *)

(* What a load or store has read and computed once it was executed; a load *)
(* whose address is misaligned is marked.                                  *)
OutcomeTyped(x) ==
    op[x].issued /\ SigOf(x).cls \in {"load", "store"} =>
        /\ op[x].v \in [SigOf(x).src -> Word] /\ op[x].ea \in Word
        /\ SigOf(x).cls = "load" /\ ~ op[x].lexc => ~ Misaligned(InsnOf(x), op[x].ea)

(* The physical registers and memory hold words.                           *)
DataInv ==
    /\ prf \in [Pregs -> Word] /\ MemWords(mem)
    /\ \A x \in Elems(rob) : OutcomeTyped(x)

(* A store that retire() may retire is aligned: the code does not check it *)
(* and what it then writes is not modelled (a hypothesis on the program).  *)
StoresAligned ==
    /\ rob # <<>>
    /\ rpc \in {"slot", "exc", "excslot", "excuu"} \/ (rpc = "loop" /\ ~ ret.stop)
    /\ op[Head(rob)].done /\ SigOf(Head(rob)).cls = "store"
    => ~ MisalignedStore(InsnOf(Head(rob)), op[Head(rob)].ea)

(* An operation of the rob reads and writes physical registers, one for    *)
(* each of its registers.                                                  *)
LEMMA Operands ==
    ASSUME Shape, Chained
    PROVE  \A x \in Elems(rob) : /\ op[x].src \in [SigOf(x).src -> Pregs]
                                 /\ op[x].new \in [DOMAIN SigOf(x).dst -> Pregs]
<1>1. PICK T : IsChain(T)
  BY DEF Chained
<1> SUFFICES ASSUME NEW j \in 1 .. Len(rob)
             PROVE  /\ op[rob[j]].src \in [SigOf(rob[j]).src -> Pregs]
                    /\ op[rob[j]].new \in [DOMAIN SigOf(rob[j]).dst -> Pregs]
  BY RobElems
<1>2. T[j] \in [Regs -> Pregs] /\ Renamed(rob[j], T[j], T[j + 1])
  BY <1>1, RobElems DEF IsChain
<1>3. SigOf(rob[j]).src \subseteq Regs
  BY SigOfShaped DEF SigShape
<1>4. op[rob[j]].src = [r \in SigOf(rob[j]).src |-> T[j][r]]
      /\ op[rob[j]].new \in [DOMAIN SigOf(rob[j]).dst -> Pregs]
  BY <1>2 DEF Renamed, RenamedAt
<1> QED
  BY <1>2, <1>3, <1>4

(* Words are written as words.                                             *)
LEMMA WriteTyped ==
    ASSUME prf \in [Pregs -> Word], NEW x, NEW s, s = SigOf(x),
           DOMAIN op[x].new = DOMAIN s.dst, NEW w, Words(s, w)
    PROVE  WritePrf(x, w) \in [Pregs -> Word]
<1>1. ASSUME NEW p \in Pregs PROVE WritePrf(x, w)[p] \in Word
  <2>1. CASE \E j \in DOMAIN op[x].new : op[x].new[j] = p
    <3>1. PICK k \in DOMAIN op[x].new : k = CHOOSE j \in DOMAIN op[x].new : op[x].new[j] = p
      BY <2>1
    <3>2. w[k] \in Word
      BY <3>1 DEF Words
    <3> QED
      BY <1>1, <2>1, <3>1, <3>2 DEF WritePrf
  <2>2. CASE ~ \E j \in DOMAIN op[x].new : op[x].new[j] = p
    BY <1>1, <2>2 DEF WritePrf
  <2> QED
    BY <2>1, <2>2
<1>2. WritePrf(x, w) = [p \in Pregs |-> WritePrf(x, w)[p]]
  BY DEF WritePrf
<1> QED
  BY <1>1, <1>2

(* The sources of an operation are words.                                  *)
LEMMA SourcesTyped ==
    ASSUME Shape, Chained, prf \in [Pregs -> Word], NEW x \in Elems(rob)
    PROVE  Sources(x) \in [SigOf(x).src -> Word]
BY Operands DEF Sources

(* An operation keeps the types of what it computed.                       *)
LEMMA OutcomeKept ==
    ASSUME NEW y, OutcomeTyped(y), op[y].lexc => op'[y].lexc,
           Keeps(y, Outcome) \/ Keeps(y, Outcome \ {"lexc"}) \/ Keeps(y, Outcome \ {"done"})
    PROVE  OutcomeTyped(y)'
<1>1. /\ op'[y].pc = op[y].pc /\ op'[y].issued = op[y].issued
      /\ op'[y].v = op[y].v /\ op'[y].ea = op[y].ea
  BY DEF Keeps, Outcome, Fields
<1>2. SigOf(y)' = SigOf(y) /\ InsnOf(y)' = InsnOf(y)
  BY <1>1 DEF SigOf, InsnOf
<1> QED
  BY <1>1, <1>2 DEF OutcomeTyped

(* What execute() of the load and store classes leaves.                    *)
LEMMA ExecutedMemory ==
    ASSUME NEW x, NEW v, NEW lat, DOMAIN op[x] = Fields, SigOf(x).cls \in {"load", "store"},
           NEW e, e = Executed(x, v, lat)
    PROVE  /\ e.v = v /\ e.ea = EffectiveAddress(InsnOf(x), v) /\ e.pc = op[x].pc
           /\ SigOf(x).cls = "load" /\ ~ e.lexc => ~ Misaligned(InsnOf(x), e.ea)
<1> DEFINE i == InsnOf(x)
           o == [op[x] EXCEPT !.issued = TRUE, !.cc = SigOf(x).lat]
           m == [o EXCEPT !.ea = EffectiveAddress(i, v), !.v = v,
                          !.aux = IF UseL1d THEN lat ELSE -1, !.cc = IF UseL1d THEN -1 ELSE lat]
           load == [m EXCEPT !.lexc = @ \/ Misaligned(i, m.ea)]
<1>1. i.k \notin Jumps \cup Branches \cup {"monitor"}
  <2>1. i.k \in Mnemonics
    BY Decodes DEF InsnOf
  <2>2. i.k \in LoadOps \cup {"lwc1", "ldc1"} \cup StoreOps \cup {"swc1", "sdc1"}
    BY <2>1, Decode DEF SigOf
  <2> QED
    BY <2>2 DEF LoadOps, StoreOps, Jumps, Branches, Likely, NonLikely
<1>2. e = IF SigOf(x).cls = "load" THEN load ELSE m
  BY <1>1 DEF Executed
<1> HIDE DEF i
<1>3. /\ m.v = v /\ m.ea = EffectiveAddress(i, v) /\ m.pc = op[x].pc /\ DOMAIN m = Fields
  BY DEF Fields
<1> HIDE DEF m, o
<1>4. /\ load.v = v /\ load.ea = EffectiveAddress(i, v) /\ load.pc = op[x].pc
      /\ load.lexc = (m.lexc \/ Misaligned(i, m.ea))
  BY <1>3 DEF Fields
<1> QED
  BY <1>2, <1>3, <1>4 DEF i

(* The steps that are not about values.                                    *)
LEMMA QuietTyped ==
    ASSUME WindowInv, DataInv, QuietStep
    PROVE  DataInv'
<1>1. /\ \A y \in Elems(rob) : Keeps(y, Outcome) /\ OutcomeTyped(y) /\ op'[y].lexc = op[y].lexc
      /\ Elems(rob)' = Elems(rob) /\ UNCHANGED <<prf, mem>>
  BY QuietData DEF DataInv, Elems, Keeps, Outcome, Fields
<1>2. \A y \in Elems(rob) : OutcomeTyped(y)'
  BY <1>1, OutcomeKept
<1> QED
  BY <1>1, <1>2 DEF DataInv, MemWords

(* allocate(): the new operation has not been executed.                    *)
LEMMA AllocateTyped ==
    ASSUME WindowInv, DataInv, AllocateOne
    PROVE  DataInv'
<1>1. PICK x : x = Head(decode_queue)
  OBVIOUS
<1>2. /\ \A y \in Elems(rob) : op'[y] = op[y]
      /\ Elems(rob)' = Elems(rob) \cup {x} /\ Keeps(x, Outcome \ {"src", "new", "prev"})
      /\ UNCHANGED <<prf, mem>>
  BY <1>1, AllocateData
<1>3. ~ op[x].issued
  BY <1>1, AllocateOps
<1>4. ~ op'[x].issued
  BY <1>2, <1>3 DEF Keeps, Outcome, Fields
<1>5. \A y \in Elems(rob) : OutcomeTyped(y)'
  <2>1. \A y \in Elems(rob) : OutcomeTyped(y) /\ Keeps(y, Outcome) /\ op'[y].lexc = op[y].lexc
    BY <1>2 DEF DataInv, Keeps
  <2> QED
    BY <2>1, OutcomeKept
<1>6. OutcomeTyped(x)'
  BY <1>4 DEF OutcomeTyped
<1> QED
  BY <1>2, <1>5, <1>6 DEF DataInv, MemWords

(* execute() computes words from words.                                    *)
LEMMA ExecuteTyped ==
    ASSUME WordOps, FpWords, WindowInv, Chained, DataInv, ExecuteOne
    PROVE  DataInv'
<1>1. PICK x, v, w :
        /\ v = Sources(x)
        /\ w = Value(InsnOf(x), op[x].pc, v, [n \in DOMAIN op[x].new |-> prf[op[x].new[n]]])
        /\ ExecuteSays(x, v, w)
  BY ExecuteData
<1>2. UNCHANGED <<rob, mem>>
  BY ExecuteData
<1>3. PICK lat : op'[x] = Executed(x, v, lat)
  BY <1>1 DEF ExecuteSays
<1>4. /\ x \in Elems(rob) /\ \A y \in Elems(rob) : y # x => op'[y] = op[y]
      /\ prf' = IF SigOf(x).at = "execute" /\ op[x].new # <<>> THEN WritePrf(x, w) ELSE prf
  BY <1>1 DEF ExecuteSays
<1>5. Shape /\ prf \in [Pregs -> Word] /\ DOMAIN op[x] = Fields
  BY <1>4, LoadsLive, LiveFields DEF WindowInv, DataInv
<1>6. v \in [SigOf(x).src -> Word] /\ op[x].new \in [DOMAIN SigOf(x).dst -> Pregs]
  BY <1>1, <1>4, <1>5, SourcesTyped, Operands
<1>7. prf' \in [Pregs -> Word]
  <2>1. CASE SigOf(x).at = "execute"
    <3>1. PICK s, old, a : s = SigOf(x) /\ old = [n \in DOMAIN op[x].new |-> prf[op[x].new[n]]]
                           /\ a = op[x].pc
      OBVIOUS
    <3>2. Words(s, old)
      BY <1>5, <1>6, <3>1 DEF Words
    <3>3. s = decode_insn(InsnAt(a)) /\ w = Value(InsnAt(a), a, v, old)
      BY <1>1, <3>1 DEF SigOf, InsnOf
    <3>4. Words(s, w)
      BY <1>6, <2>1, <3>1, <3>2, <3>3, ValueTyped
    <3>5. WritePrf(x, w) \in [Pregs -> Word]
      BY <1>5, <1>6, <3>1, <3>4, WriteTyped
    <3> QED
      BY <1>4, <1>5, <3>5
  <2> QED
    BY <1>4, <1>5, <2>1
<1>8. OutcomeTyped(x)'
  <2>1. CASE SigOf(x).cls \in {"load", "store"}
    <3>1. PICK e : e = op'[x]
      OBVIOUS
    <3>2. /\ e.v = v /\ e.ea = EffectiveAddress(InsnOf(x), v) /\ e.pc = op[x].pc
          /\ SigOf(x).cls = "load" /\ ~ e.lexc => ~ Misaligned(InsnOf(x), e.ea)
      BY <1>3, <1>5, <2>1, <3>1, ExecutedMemory
    <3>3. e.ea \in Word
      BY <1>6, <2>1, <3>2, AddressTyped DEF SigOf, InsnOf
    <3>4. SigOf(x)' = SigOf(x) /\ InsnOf(x)' = InsnOf(x)
      BY <3>1, <3>2 DEF SigOf, InsnOf
    <3> QED
      BY <1>6, <3>1, <3>2, <3>3, <3>4 DEF OutcomeTyped
  <2>2. CASE SigOf(x).cls \notin {"load", "store"}
    <3>1. Keeps(x, Names)
      <4>1. ExecutedFrom(op'[x], op[x], SigOf(x).cls)
        BY <1>3, <1>5, ExecutedMarks
      <4> QED
        BY <4>1 DEF ExecutedFrom, Keeps
    <3>2. SigOf(x)' = SigOf(x)
      BY <3>1, SigKept
    <3> QED
      BY <2>2, <3>2 DEF OutcomeTyped
  <2> QED
    BY <2>1, <2>2
<1>9. \A y \in Elems(rob) : y # x => OutcomeTyped(y)'
  <2>1. \A y \in Elems(rob) : y # x => OutcomeTyped(y) /\ Keeps(y, Outcome) /\ op'[y].lexc = op[y].lexc
    BY <1>4 DEF DataInv, Keeps
  <2> QED
    BY <2>1, OutcomeKept
<1> QED
  BY <1>2, <1>7, <1>8, <1>9 DEF DataInv, MemWords, Elems

(* complete() loads words from memory.                                     *)
LEMMA CompleteTyped ==
    ASSUME WordOps, WindowInv, Chained, DataInv, CompleteOne
    PROVE  DataInv'
<1>1. PICK x, w : w = LoadData(InsnOf(x), op[x].ea, mem, op[x].v) /\ CompleteSays(x, w)
  BY CompleteData
<1>2. UNCHANGED <<rob, mem>>
  BY CompleteData
<1>3. /\ x \in Elems(rob) /\ op[x].issued /\ Keeps(x, Outcome \ {"done"})
      /\ prf' = IF SigOf(x).at = "complete" /\ ~ op[x].lexc THEN WritePrf(x, w) ELSE prf
      /\ \A y \in Elems(rob) : y # x => op'[y] = op[y]
  BY <1>1 DEF CompleteSays
<1>4. Shape /\ prf \in [Pregs -> Word] /\ MemWords(mem) /\ OutcomeTyped(x)
  BY <1>3 DEF WindowInv, DataInv
<1>5. prf' \in [Pregs -> Word]
  <2>1. CASE SigOf(x).at = "complete" /\ ~ op[x].lexc
    <3>1. PICK s, i, a, ea, v : /\ s = SigOf(x) /\ i = InsnOf(x) /\ a = op[x].pc
                                /\ ea = op[x].ea /\ v = op[x].v
      OBVIOUS
    <3>2. i = InsnAt(a) /\ s = decode_insn(i)
      BY <3>1 DEF SigOf, InsnOf
    <3>3. s.cls = "load"
      BY <2>1, <3>1, SigOfShaped DEF SigShape
    <3>4. v \in [s.src -> Word] /\ ea \in Word /\ ~ Misaligned(i, ea)
      BY <1>3, <1>4, <2>1, <3>1, <3>3 DEF OutcomeTyped
    <3>5. Words(s, w)
      BY <1>1, <1>4, <3>1, <3>2, <3>3, <3>4, LoadTyped
    <3>6. DOMAIN op[x].new = DOMAIN s.dst
      BY <1>3, <1>4, <3>1, Operands
    <3>7. WritePrf(x, w) \in [Pregs -> Word]
      BY <1>4, <3>1, <3>5, <3>6, WriteTyped
    <3> QED
      BY <1>3, <2>1, <3>7
  <2> QED
    BY <1>3, <1>4, <2>1
<1>6. \A y \in Elems(rob) : OutcomeTyped(y)'
  <2>1. \A y \in Elems(rob) : /\ OutcomeTyped(y) /\ Keeps(y, Outcome \ {"done"})
                              /\ op'[y].lexc = op[y].lexc
    BY <1>3 DEF DataInv, Keeps, Outcome, Fields
  <2> QED
    BY <2>1, OutcomeKept
<1> QED
  BY <1>2, <1>5, <1>6 DEF DataInv, MemWords, Elems

(* retire(): a store writes words into memory, and so does a host call.    *)
LEMMA RetireTyped ==
    ASSUME WordOps, WindowInv, MarkInv, Chained, DataInv, StoresAligned, RetireStep
    PROVE  DataInv'
<1>1. PICK x : x = Head(rob)
  OBVIOUS
<1>2. /\ x \in Elems(rob) /\ op[x].done /\ op[x].issued /\ rob # <<>>
      /\ Elems(rob)' = Elems(rob) \ {x}
      /\ \A y \in Elems(rob)' : Keeps(y, Outcome \ {"lexc"}) /\ (op[y].lexc => op'[y].lexc)
  BY <1>1, RetireData
<1>3. RetireOp(x)
  BY <1>1, RetireHead
<1>4. PICK i, s, ea, v : i = InsnOf(x) /\ s = SigOf(x) /\ ea = op[x].ea /\ v = op[x].v
  OBVIOUS
<1>5. Shape /\ prf \in [Pregs -> Word] /\ MemWords(mem) /\ OutcomeTyped(x)
  BY <1>2 DEF WindowInv, DataInv
<1>6. prf' \in [Pregs -> Word]
  <2>1. CASE i.k = "monitor"
    <3>1. PICK h \in HostResults \cup {0} : prf' = WritePrf(x, <<h>>)
      BY <1>3, <1>4, <2>1 DEF RetireOp
    <3>2. h \in Word
      BY FieldsAssumption, WordFacts
    <3>3. s.dst = <<GPR(2)>>
      <4>1. s = decode_insn(i)
        BY <1>4 DEF SigOf, InsnOf
      <4>2. decode_insn(i) = decode_rtype_insn(i)
        BY <2>1 DEF decode_insn, ConstShift, RType, CondMove, LoHi, MultDiv, FpCmp, FpCondMove,
           FpRegMove, ToSingle, ToDouble, FpArithD, FpArithS
      <4>3. decode_rtype_insn(i) = monitor_op(i)
        BY <2>1 DEF decode_rtype_insn, ConstShift, RType, CondMove, LoHi, MultDiv
      <4> QED
        BY <4>1, <4>2, <4>3 DEF monitor_op, Sig
    <3>4. Words(s, <<h>>)
      BY <3>2, <3>3 DEF Words
    <3>5. DOMAIN op[x].new = DOMAIN s.dst
      BY <1>2, <1>4, <1>5, Operands
    <3> QED
      BY <1>4, <1>5, <3>1, <3>4, <3>5, WriteTyped
  <2>2. CASE i.k # "monitor"
    <3>1. prf' = prf
      BY <1>3, <1>4, <2>2 DEF RetireOp
    <3> QED
      BY <1>5, <3>1
  <2> QED
    BY <2>1, <2>2
<1>7. MemWords(mem')
  <2>1. mem' = CASE s.cls = "store"  -> StoreData(i, ea, mem, v)
                 [] i.k = "monitor"  -> MonitorMem(i, mem, v)
                 [] OTHER            -> mem
    BY <1>3, <1>4 DEF RetireOp
  <2>2. CASE s.cls = "store"
    <3>1. s = decode_insn(i) /\ i = InsnAt(op[x].pc)
      BY <1>4 DEF SigOf, InsnOf
    <3>2. v \in [s.src -> Word] /\ ea \in Word
      BY <1>2, <1>4, <1>5, <2>2 DEF OutcomeTyped
    <3>3. ~ MisalignedStore(i, ea)
      <4>1. rpc \in {"slot", "exc", "excslot", "excuu"} \/ (rpc = "loop" /\ ~ ret.stop)
        BY DEF RetireStep, RetireOne, ExceptionNoSlot, ExceptionBranch, ExceptionSlot, RetireMore
      <4> QED
        BY <1>1, <1>2, <1>4, <2>2, <4>1 DEF StoresAligned
    <3>4. MemWords(StoreData(i, ea, mem, v))
      BY <1>5, <2>2, <3>1, <3>2, <3>3, StoreTyped
    <3>5. i.k # "monitor"
      <4>1. i.k \in StoreOps \cup {"swc1", "sdc1"}
        BY <2>2, <3>1, Decodes, Decode
      <4> QED
        BY <4>1 DEF StoreOps
    <3>6. mem' = StoreData(i, ea, mem, v)
      BY <2>1, <2>2, <3>5
    <3> QED
      BY <3>4, <3>6
  <2>3. CASE s.cls # "store" /\ i.k = "monitor"
    <3>1. mem' = MonitorMem(i, mem, v)
      BY <2>1, <2>3
    <3> QED
      BY <1>5, <3>1, MonitorTyped
  <2>4. CASE s.cls # "store" /\ i.k # "monitor"
    BY <1>5, <2>1, <2>4
  <2> QED
    BY <2>2, <2>3, <2>4
<1>8. \A y \in Elems(rob)' : OutcomeTyped(y)'
  <2>1. \A y \in Elems(rob)' : /\ OutcomeTyped(y) /\ Keeps(y, Outcome \ {"lexc"})
                               /\ op[y].lexc => op'[y].lexc
    BY <1>2 DEF DataInv
  <2> QED
    BY <2>1, OutcomeKept
<1> QED
  BY <1>6, <1>7, <1>8 DEF DataInv, MemWords

(* The recovery.                                                           *)
LEMMA RecoveryTyped ==
    ASSUME WindowInv, DataInv, Nuke \/ RecoverySleep
    PROVE  DataInv'
BY RecoveryData DEF DataInv, MemWords

(* The initial registers hold words.                                       *)
LEMMA InitTyped == Init => DataInv
<1> SUFFICES ASSUME Init PROVE DataInv
  OBVIOUS
<1>1. \A p \in Owned : (CHOOSE r \in Regs : InitRat[r] = p) \in Regs
  BY InitRatTable DEF Owned, RangeSet
<1>2. InitRegs \in [Regs -> Word] /\ 0 \in Word
  BY FieldsAssumption, WordFacts
<1>3. prf \in [Pregs -> Word]
  BY <1>1, <1>2 DEF Init
<1>4. MemWords(mem)
  BY FieldsAssumption DEF Init, MemWords
<1>5. Elems(rob) = {}
  BY DEF Init, Elems
<1> QED
  BY <1>3, <1>4, <1>5 DEF DataInv

(* Where retire() is, and what it has counted: it looks at maxicnt before  *)
(* it retires one operation, or a branch and its delay slot.               *)
CountInv ==
    /\ rpc \in {"loop", "slot", "exc", "excslot", "excuu", "nuke", "sleep", "end", "done"}
    /\ icnt \in 0 .. MaxIcnt + 1
    /\ rpc \in {"slot", "exc", "excslot"} => icnt < MaxIcnt
    /\ rpc = "excuu" => icnt <= MaxIcnt

(* Every step keeps it.                                                    *)
LEMMA NextCount ==
    ASSUME CountInv, [Next]_vars
    PROVE  CountInv'
<1> USE SizesAssumption DEF CountInv, queueVars, windowVars, renameVars, fetchVars, archVars
<1>1. CASE RetireOne \/ ExceptionNoSlot \/ ExceptionBranch \/ ExceptionSlot
  <2>1. icnt' = icnt + 1
    BY <1>1 DEF RetireOne, ExceptionNoSlot, ExceptionBranch, ExceptionSlot, RetireOp
  <2>2. CASE RetireOne
    BY <2>1, <2>2 DEF RetireOne, RetireMore
  <2>3. CASE ExceptionNoSlot
    BY <2>1, <2>3 DEF ExceptionNoSlot
  <2>4. CASE ExceptionBranch
    BY <2>1, <2>4 DEF ExceptionBranch
  <2>5. CASE ExceptionSlot
    BY <2>1, <2>5 DEF ExceptionSlot
  <2> QED
    BY <1>1, <2>2, <2>3, <2>4, <2>5
<1>2. CASE RetireIdle \/ RetireException \/ RetireWaitSlot \/ ExceptionBegin
           \/ ExceptionWaitSlot \/ DelaySlotException \/ RetireEnd
  BY <1>2 DEF RetireIdle, RetireException, RetireWaitSlot, ExceptionBegin, ExceptionWaitSlot,
     DelaySlotException, RetireEnd, RetireMoves, RetireMore
<1>3. CASE Nuke \/ RecoverySleep
  BY <1>3 DEF Nuke, RecoverySleep, ClearWindow
<1>4. CASE \/ CompleteOne \/ ExecuteOne \/ AllocateOne \/ DecodeOne
           \/ CacheTick \/ NextCycle \/ ThreadYield
  BY <1>4 DEF CompleteOne, ExecuteOne, AllocateOne, DecodeOne, CacheTick, NextCycle, ThreadYield
<1>5. CASE FetchSlot \/ FetchInsn
  BY <1>5 DEF FetchSlot, FetchInsn, PushFetch
<1>6. CASE Terminated \/ UNCHANGED vars
  BY <1>6 DEF Terminated, vars
<1> QED
  BY <1>1, <1>2, <1>3, <1>4, <1>5, <1>6 DEF Next, retire

(* The valid bits are of physical registers.                               *)
LEMMA NextValid ==
    ASSUME WindowInv, MarkInv, RenameInv, valid \subseteq Pregs, [Next]_vars
    PROVE  valid' \subseteq Pregs
<1>0. Shape /\ Chained
  BY DEF WindowInv, RenameInv
<1>1. \A x \in Elems(rob) : RangeOf(op[x].new) \subseteq Pregs
  <2>1. \A x \in Elems(rob) : op[x].new \in [DOMAIN SigOf(x).dst -> Pregs]
    BY <1>0, Operands
  <2> QED
    BY <2>1 DEF RangeOf
<1>2. RangeSet(rat_retire) \subseteq Pregs
  <2>1. PICK T : IsChain(T)
    BY <1>0 DEF Chained
  <2>2. rat_retire \in [Regs -> Pregs]
    BY <1>0, <2>1, RobElems DEF IsChain
  <2> QED
    BY <2>2 DEF RangeSet
<1>3. CASE QuietStep
  BY <1>3, QuietData
<1>4. CASE RetireStep
  <2>1. PICK x : x = Head(rob)
    OBVIOUS
  <2>2. x \in Elems(rob) /\ RetireOp(x)
    BY <1>4, <2>1, RetireHead
  <2>3. RetireFacts(x, SigOf(x).dst, op[x].new, RangeOf(op[x].prev))
    BY <2>2, RetireSays
  <2> QED
    BY <1>1, <2>2, <2>3 DEF RetireFacts
<1>5. CASE AllocateOne
  <2>1. PICK x : x = Head(decode_queue)
    OBVIOUS
  <2>2. AllocateFacts(x, SigOf(x).dst, op'[x].new)
    BY <1>5, <2>1, AllocateSays
  <2> QED
    BY <2>2 DEF AllocateFacts
<1>6. CASE ExecuteOne
  BY <1>6, ExecuteData
<1>7. CASE CompleteOne
  <2>1. PICK x \in Elems(rob) :
          valid' = IF SigOf(x).at = "retire" \/ op[x].lexc THEN valid
                   ELSE valid \cup RangeOf(op[x].new)
    BY <1>7, CompleteNames
  <2> QED
    BY <1>1, <2>1
<1>8. CASE Nuke \/ RecoverySleep
  BY <1>2, <1>8 DEF Nuke, RecoverySleep, renameVars
<1> QED
  BY <1>3, <1>4, <1>5, <1>6, <1>7, <1>8, StepKinds

(* What TypeOK says, together with what keeps it.                          *)
TypeInv ==
    /\ WindowInv /\ MarkInv /\ RenameInv
    /\ DataInv /\ CountInv /\ valid \subseteq Pregs

(* It says it.                                                             *)
LEMMA TypeInvTypeOK == TypeInv => TypeOK
<1> SUFFICES ASSUME TypeInv PROVE TypeOK
  OBVIOUS
<1>1. Shape /\ OnePlace /\ Chained /\ OneOwner /\ InUse
  BY DEF TypeInv, WindowInv, RenameInv
<1>2. /\ turn \in DOMAIN Threads
      /\ Len(fetch_queue) <= FetchqSize /\ Len(decode_queue) <= DecodeqSize /\ Len(rob) <= RobSize
  BY <1>1 DEF Shape, Threads
<1>3. \A q \in Seq(Ids) : Elems(q) \subseteq Live => q \in Seq(Live)
  <2> SUFFICES ASSUME NEW q \in Seq(Ids), Elems(q) \subseteq Live PROVE q \in Seq(Live)
    OBVIOUS
  <2>1. \A j \in 1 .. Len(q) : q[j] \in Live
    BY DEF Elems
  <2> QED
    BY <2>1
<1>4. fetch_queue \in Seq(Live) /\ decode_queue \in Seq(Live) /\ rob \in Seq(Live)
  BY <1>1, <1>3, QueuesLive DEF Shape
<1>5. rat \in [Regs -> Pregs] /\ rat_retire \in [Regs -> Pregs]
  <2>1. PICK T : IsChain(T)
    BY <1>1 DEF Chained
  <2>2. 1 \in 1 .. Len(rob) + 1 /\ Len(rob) + 1 \in 1 .. Len(rob) + 1
    BY <1>1, RobElems
  <2> QED
    BY <2>1, <2>2 DEF IsChain
<1>6. freevec \subseteq Pregs
  <2>1. \A x \in Elems(rob) : op[x].new \in [DOMAIN SigOf(x).dst -> Pregs]
    BY <1>1, Operands
  <2> QED
    BY <1>1, <1>5, <2>1 DEF InUse, TakenAll, Taken, RangeOf
<1> QED
  BY <1>2, <1>4, <1>5, <1>6 DEF TypeOK, TypeInv, DataInv, CountInv

(* Every step keeps it, when a store that retires is aligned.              *)
LEMMA NextTyped ==
    ASSUME WordOps, FpWords, TypeInv, StoresAligned, [Next]_vars
    PROVE  TypeInv'
<1>1. WindowInv /\ MarkInv /\ RenameInv /\ DataInv /\ CountInv /\ valid \subseteq Pregs /\ Chained
  BY DEF TypeInv, RenameInv
<1>2. (WindowInv /\ MarkInv /\ RenameInv)'
  BY <1>1, NextWindow, NextMarks, NextRename
<1>3. DataInv'
  BY <1>1, StepKinds, QuietTyped, RetireTyped, AllocateTyped, ExecuteTyped, CompleteTyped,
     RecoveryTyped
<1>4. CountInv'
  BY <1>1, NextCount
<1>5. valid' \subseteq Pregs
  BY <1>1, NextValid
<1> QED
  BY <1>2, <1>3, <1>4, <1>5 DEF TypeInv

(* It holds initially.                                                     *)
LEMMA InitTypes == Init => TypeInv
<1> SUFFICES ASSUME Init PROVE TypeInv
  OBVIOUS
<1>1. WindowInv /\ MarkInv /\ RenameInv /\ DataInv
  BY InitWindow, InitRename, InitTyped
<1>2. CountInv
  BY SizesAssumption DEF Init, CountInv
<1>3. valid \subseteq Pregs
  BY InitRatTable DEF Init, Owned, RangeSet
<1> QED
  BY <1>1, <1>2, <1>3 DEF TypeInv

(* Everything keeps its type: the queues hold live operations and respect  *)
(* their sizes, the rename tables name physical registers, and whatever is *)
(* executed on a right or a wrong path, a physical register never holds    *)
(* anything but a word, nor does memory; retire() stops at maxicnt, one    *)
(* delay slot later at most (TypeOK; execute(), complete() and retire() of *)
(* every op class in mips_op.cc).  The hypotheses: `&', `|' and `^' of     *)
(* words are words, the host's floating point computes words, and the      *)
(* program never retires a store whose address is misaligned.              *)
THEOREM TypesHold ==
    WordOps /\ FpWords => (Spec /\ []StoresAligned => []TypeOK)
<1> SUFFICES ASSUME WordOps /\ FpWords PROVE Spec /\ []StoresAligned => []TypeOK
  OBVIOUS
<1>1. Init => TypeInv
  BY InitTypes
<1>2. TypeInv /\ StoresAligned /\ [Next]_vars => TypeInv'
  BY NextTyped
<1>3. TypeInv => TypeOK
  BY TypeInvTypeOK
<1> QED
  BY <1>1, <1>2, <1>3, PTL DEF Spec

===============================================================================
