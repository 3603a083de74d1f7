--------------------------- MODULE SimQueue_proofs ---------------------------
(***************************************************************************)
(* Proofs about SimQueue, for every set of lengths and of operations, and  *)
(* whatever `&' is, as long as it masks as GranuleAssumption says.  The    *)
(* remainders of the model are first replaced by case distinctions, in     *)
(* which a slot is linear in the indices.                                  *)
(***************************************************************************)
EXTENDS SimQueue, SequenceTheorems, TLAPS

-----------------------------------------------------------------------------
(* Remainders without division                                             *)

G == Granule(len)

(* The slot of an index, and the distance between two indices.             *)
At(i) == IF i < G THEN i ELSE IF i < 2 * G THEN i - G ELSE i - 2 * G
Dist(r, w) == IF r <= w THEN w - r ELSE w + 2 * G - r
After(i) == IF i + 1 = 2 * G THEN 0 ELSE i + 1

(* Remainders of numbers below three times the divisor.                    *)
LEMMA SmallMod ==
    ASSUME NEW n \in Nat \ {0}, NEW a \in Nat
    PROVE  /\ a < n => a % n = a
           /\ n <= a /\ a < 2 * n => a % n = a - n
           /\ 2 * n <= a /\ a < 3 * n => a % n = a - 2 * n
<1>1. a % n \in 0 .. n - 1 /\ a = n * (a \div n) + (a % n) /\ a \div n \in Int
  OBVIOUS
<1>2. CASE a < n
  BY <1>1, <1>2
<1>3. CASE n <= a /\ a < 2 * n
  BY <1>1, <1>3
<1>4. CASE 2 * n <= a /\ a < 3 * n
  BY <1>1, <1>4
<1> QED
  BY <1>2, <1>3, <1>4

(* The indices, which only SimQueue's masks move, are in the ring.         *)
IdxOK ==
    /\ len \in Sizes
    /\ read_idx \in 0 .. Ring - 1
    /\ write_idx \in 0 .. Ring - 1

(* A length and its granule are positive, and the granule is the smaller.  *)
LEMMA GranuleBounds ==
    ASSUME len \in Sizes
    PROVE  len \in Nat \ {0} /\ G \in 1 .. len /\ G \in Nat \ {0}
BY SizesAssumption, GranuleAssumption DEF G

(* What the masks of at(), push() and pop() compute (sim_queue.hh:16).     *)
LEMMA Masks ==
    ASSUME len \in Sizes, NEW i \in 0 .. 2 * G - 1
    PROVE  /\ Slot(i) = At(i)
           /\ Succ(i) = After(i)
           /\ At(i) \in 0 .. G - 1
           /\ After(i) \in 0 .. 2 * G - 1
<1>1. len \in Nat \ {0} /\ G \in 1 .. len /\ G \in Nat \ {0}
  BY GranuleBounds
<1>2. Slot(i) = i % G
  BY GranuleAssumption DEF Slot, G
<1>3. i % G = At(i)
  <2>1. i \in Nat /\ i < 2 * G
    BY <1>1
  <2>2. /\ i < G => i % G = i
        /\ G <= i /\ i < 2 * G => i % G = i - G
    BY <1>1, <2>1, SmallMod, Zenon
  <2> QED
    BY <1>1, <2>1, <2>2 DEF At
<1>4. i + 1 \in 1 .. 2 * G
  BY <1>1
<1>5. Succ(i) = (i + 1) % (2 * G)
  BY <1>4, GranuleAssumption DEF Succ, G
<1>6. (i + 1) % (2 * G) = After(i)
  <2>1. 2 * G \in Nat \ {0} /\ i + 1 \in Nat
    BY <1>1
  <2>2. /\ i + 1 < 2 * G => (i + 1) % (2 * G) = i + 1
        /\ 2 * G <= i + 1 /\ i + 1 < 2 * (2 * G) => (i + 1) % (2 * G) = i + 1 - 2 * G
    BY <2>1, SmallMod
  <2> QED
    BY <1>1, <2>2 DEF After
<1> QED
  BY <1>1, <1>2, <1>3, <1>5, <1>6 DEF At, After

(* Count is the distance between the indices.                              *)
LEMMA CountIsDist ==
    ASSUME IdxOK
    PROVE  Count = Dist(read_idx, write_idx) /\ Count \in 0 .. 2 * G - 1
<1>1. len \in Nat \ {0} /\ G \in 1 .. len /\ Ring = 2 * G
  BY GranuleBounds DEF IdxOK, Ring, G
<1>2. DEFINE n == 2 * G
             a == write_idx + 2 * G - read_idx
<1>3. n \in Nat \ {0} /\ a \in Nat /\ a < 2 * n
  BY <1>1 DEF IdxOK
<1> HIDE DEF n, a
<1>4. /\ a < n => a % n = a
      /\ n <= a /\ a < 2 * n => a % n = a - n
  BY <1>3, SmallMod
<1>5. Count = a % n
  BY <1>1 DEF Count, a, n
<1> QED
  BY <1>1, <1>3, <1>4, <1>5 DEF a, n, Dist, IdxOK

(* The slot of the j-th oldest.                                            *)
LEMMA SlotOfRank ==
    ASSUME IdxOK, NEW j \in 1 .. G
    PROVE  /\ (read_idx + j - 1) % G = At(read_idx + j - 1)
           /\ At(read_idx + j - 1) \in 0 .. G - 1
<1>1. len \in Nat \ {0} /\ G \in Nat \ {0} /\ read_idx \in 0 .. 2 * G - 1
  BY GranuleBounds DEF IdxOK, Ring, G
<1>2. read_idx + j - 1 \in Nat /\ read_idx + j - 1 < 3 * G
  BY <1>1
<1>3. DEFINE a == read_idx + j - 1
<1> HIDE DEF a
<1>4. a \in Nat /\ a < 3 * G
  BY <1>2 DEF a
<1>5. /\ a < G => a % G = a
      /\ G <= a /\ a < 2 * G => a % G = a - G
      /\ 2 * G <= a /\ a < 3 * G => a % G = a - 2 * G
  BY <1>1, <1>4, SmallMod, Zenon
<1>6. a % G = At(a) /\ At(a) \in 0 .. G - 1
  BY <1>1, <1>4, <1>5 DEF At
<1> QED
  BY <1>6 DEF a

-----------------------------------------------------------------------------
(* The invariant                                                           *)

(* How many slots after the oldest one slot s comes.                       *)
Rank(r, s) == IF At(r) <= s THEN s - At(r) ELSE s + G - At(r)

(* SlotsExact, one slot at a time.                                         *)
SlotsByRank ==
    \A s \in 0 .. len - 1 :
        data[s] # nullptr <=> s < G /\ Rank(read_idx, s) < Dist(read_idx, write_idx)

(* Never more operations than usable slots: what push() relies on, and     *)
(* what makes SlotsExact inductive.                                        *)
AtMostGranule == Dist(read_idx, write_idx) <= G

IInv == TypeOK /\ AtMostGranule /\ SlotsByRank /\ RobIdxHeld

(* The type invariant bounds the indices.                                  *)
LEMMA TypeGivesIdx == TypeOK => IdxOK
BY DEF TypeOK, IdxOK

(* The two forms of SlotsExact agree while at most G operations are held.  *)
LEMMA SlotsForms ==
    ASSUME IdxOK, AtMostGranule
    PROVE  SlotsByRank <=> SlotsExact
<1>1. len \in Nat \ {0} /\ G \in 1 .. len /\ G \in Nat \ {0} /\ read_idx \in 0 .. 2 * G - 1
  BY GranuleBounds DEF IdxOK, Ring, G
<1>2. Count = Dist(read_idx, write_idx) /\ Count \in 0 .. G
  BY CountIsDist, <1>1 DEF AtMostGranule
<1> DEFINE InRing == {(read_idx + j - 1) % Granule(len) : j \in 1 .. Count}
<1>3. ASSUME NEW s \in 0 .. len - 1
      PROVE  s \in InRing <=> s < G /\ Rank(read_idx, s) < Count
  <2>1. ASSUME NEW j \in 1 .. Count, s = (read_idx + j - 1) % Granule(len)
        PROVE  s < G /\ Rank(read_idx, s) < Count
    <3>1. j \in 1 .. G /\ j \in 1 .. Count
      BY <1>1, <1>2
    <3>2. s = At(read_idx + j - 1)
      BY <2>1, <3>1, SlotOfRank DEF G
    <3> QED
      BY <1>1, <1>2, <3>1, <3>2 DEF At, Rank
  <2>2. ASSUME s < G, Rank(read_idx, s) < Count
        PROVE  s \in InRing
    <3> DEFINE j == Rank(read_idx, s) + 1
    <3>1. j \in 1 .. Count /\ j \in 1 .. G
      BY <1>1, <1>2, <2>2 DEF Rank, At
    <3>2. s = At(read_idx + j - 1)
      BY <1>1, <2>2 DEF Rank, At
    <3>3. s = (read_idx + j - 1) % Granule(len)
      BY <3>1, <3>2, SlotOfRank DEF G
    <3> QED
      BY <3>1, <3>3
  <2> QED
    BY <2>1, <2>2
<1>4. InRing \subseteq 0 .. len - 1
  <2> SUFFICES ASSUME NEW j \in 1 .. Count
               PROVE  (read_idx + j - 1) % Granule(len) \in 0 .. len - 1
    OBVIOUS
  <2>1. j \in 1 .. G
    BY <1>1, <1>2
  <2> QED
    BY <1>1, <2>1, SlotOfRank DEF G
<1> HIDE DEF InRing
<1>5. SlotsExact <=> {i \in 0 .. len - 1 : data[i] # nullptr} = InRing
  BY DEF SlotsExact, InRing
<1>6. SlotsByRank <=> \A s \in 0 .. len - 1 : data[s] # nullptr <=> s \in InRing
  BY <1>2, <1>3 DEF SlotsByRank
<1> QED
  BY <1>4, <1>5, <1>6

(* The ring starts empty.                                                  *)
LEMMA InitIInv == Init => IInv
<1> SUFFICES ASSUME Init PROVE IInv
  OBVIOUS
<1>1. len \in Nat \ {0} /\ G \in 1 .. len /\ G \in Nat \ {0} /\ Ring = 2 * G
  BY GranuleBounds DEF Init, Ring, G
<1>2. TypeOK
  BY <1>1 DEF Init, TypeOK, Unused
<1>3. AtMostGranule /\ SlotsByRank
  BY <1>1 DEF Init, AtMostGranule, SlotsByRank, Dist, Rank, At
<1>4. RobIdxHeld
  BY <1>1 DEF Init, RobIdxHeld, Unused
<1> QED
  BY <1>2, <1>3, <1>4 DEF IInv

(* What a push() that is not refused finds: a usable slot that is empty.   *)
LEMMA PushSlot ==
    IInv /\ ~ full =>
           /\ At(write_idx) \in 0 .. G - 1
           /\ Dist(read_idx, write_idx) < G
           /\ data[At(write_idx)] = nullptr
<1> SUFFICES ASSUME IInv, ~ full
             PROVE  /\ At(write_idx) \in 0 .. G - 1
                    /\ Dist(read_idx, write_idx) < G
                    /\ data[At(write_idx)] = nullptr
  OBVIOUS
<1>1. /\ len \in Nat \ {0} /\ G \in 1 .. len /\ G \in Nat \ {0}
      /\ read_idx \in 0 .. 2 * G - 1 /\ write_idx \in 0 .. 2 * G - 1
  BY GranuleBounds DEF IInv, TypeOK, Ring, G
<1>2. Slot(read_idx) = At(read_idx) /\ Slot(write_idx) = At(write_idx)
  BY <1>1, Masks DEF IInv, TypeOK
<1>3. At(write_idx) \in 0 .. G - 1
  BY <1>1 DEF At
<1>4. Dist(read_idx, write_idx) < G
  BY <1>1, <1>2 DEF full, At, Dist, IInv, AtMostGranule
<1>5. Rank(read_idx, At(write_idx)) = Dist(read_idx, write_idx)
  BY <1>1, <1>4 DEF Rank, At, Dist
<1>6. Dist(read_idx, write_idx) \in Int /\ At(write_idx) \in 0 .. len - 1
  BY <1>1, <1>3 DEF Dist
<1> QED
  BY <1>3, <1>4, <1>5, <1>6 DEF IInv, SlotsByRank

(* push() keeps the invariant.                                             *)
LEMMA PushIInv ==
    ASSUME IInv, NEW v \in Values, push(v)
    PROVE  IInv'
<1>1. /\ len \in Nat \ {0} /\ G \in 1 .. len /\ G \in Nat \ {0} /\ Ring = 2 * G
      /\ read_idx \in 0 .. 2 * G - 1 /\ write_idx \in 0 .. 2 * G - 1
      /\ len' = len /\ G' = G /\ Ring' = 2 * G
  BY GranuleBounds DEF IInv, TypeOK, Ring, G, push
<1>2. Slot(write_idx) = At(write_idx) /\ Succ(write_idx) = After(write_idx)
  BY <1>1, Masks DEF IInv, TypeOK
<1>3. /\ At(write_idx) \in 0 .. G - 1
      /\ Dist(read_idx, write_idx) < G
      /\ data[At(write_idx)] = nullptr
  <2>1. ~ full
    BY DEF push
  <2> QED
    BY <2>1, PushSlot
<1>4. /\ read_idx' = read_idx
      /\ write_idx' = After(write_idx)
      /\ data' = [data EXCEPT ![At(write_idx)] = v]
      /\ rob_idx' = [rob_idx EXCEPT ![v] = At(write_idx)]
      /\ rob_idx[v] = Unused
  BY <1>2 DEF push
<1>5. TypeOK'
  BY <1>1, <1>3, <1>4 DEF IInv, TypeOK, After
<1>6. Dist(read_idx, write_idx)' = Dist(read_idx, write_idx) + 1
  BY <1>1, <1>3, <1>4 DEF Dist, After
<1>7. AtMostGranule'
  BY <1>1, <1>3, <1>6 DEF AtMostGranule, Dist
<1>8. SlotsByRank'
  <2> SUFFICES ASSUME NEW s \in 0 .. len - 1
               PROVE  data'[s] # nullptr
                        <=> s < G /\ Rank(read_idx, s) < Dist(read_idx, write_idx) + 1
    BY <1>1, <1>4, <1>6 DEF SlotsByRank, Rank, At
  <2>1. data[s] # nullptr <=> s < G /\ Rank(read_idx, s) < Dist(read_idx, write_idx)
    BY DEF IInv, SlotsByRank
  <2>2. CASE s = At(write_idx)
    <3>1. Rank(read_idx, s) = Dist(read_idx, write_idx) /\ s < G
      BY <1>1, <1>3, <2>2 DEF Rank, At, Dist
    <3>2. data'[s] = v /\ v # nullptr
      BY <1>4, <2>2, NullAssumption DEF IInv, TypeOK
    <3> QED
      BY <1>1, <3>1, <3>2 DEF Dist
  <2>3. CASE s # At(write_idx)
    <3>1. s < G => Rank(read_idx, s) # Dist(read_idx, write_idx)
      BY <1>1, <1>3, <2>3 DEF Rank, At, Dist
    <3>2. data'[s] = data[s]
      BY <1>4, <2>3 DEF IInv, TypeOK
    <3>3. Rank(read_idx, s) \in Int /\ Dist(read_idx, write_idx) \in Int
      BY <1>1 DEF Rank, Dist, At
    <3> QED
      BY <2>1, <3>1, <3>2, <3>3
  <2> QED
    BY <2>2, <2>3
<1>9. RobIdxHeld'
  BY <1>1, <1>3, <1>4, NullAssumption DEF IInv, RobIdxHeld, TypeOK, Unused
<1> QED
  BY <1>5, <1>7, <1>8, <1>9 DEF IInv

(* pop() keeps the invariant.                                              *)
LEMMA PopIInv ==
    ASSUME IInv, pop
    PROVE  IInv'
<1>1. /\ len \in Nat \ {0} /\ G \in 1 .. len /\ G \in Nat \ {0} /\ Ring = 2 * G
      /\ read_idx \in 0 .. 2 * G - 1 /\ write_idx \in 0 .. 2 * G - 1
      /\ read_idx # write_idx
      /\ len' = len /\ G' = G /\ Ring' = 2 * G
  BY GranuleBounds DEF IInv, TypeOK, Ring, G, pop, empty
<1>2. Slot(read_idx) = At(read_idx) /\ Succ(read_idx) = After(read_idx)
  BY <1>1, Masks DEF IInv, TypeOK
<1>3. /\ At(read_idx) \in 0 .. G - 1
      /\ Dist(read_idx, write_idx) \in 1 .. G
      /\ Rank(read_idx, At(read_idx)) = 0
  BY <1>1 DEF At, Dist, Rank, IInv, AtMostGranule
<1>4. data[At(read_idx)] \in Values
  BY <1>1, <1>3 DEF IInv, SlotsByRank, TypeOK
<1>5. /\ write_idx' = write_idx
      /\ read_idx' = After(read_idx)
      /\ data' = [data EXCEPT ![At(read_idx)] = nullptr]
      /\ rob_idx' = [rob_idx EXCEPT ![data[At(read_idx)]] = Unused]
  BY <1>2 DEF pop, peek
<1>6. TypeOK'
  BY <1>1, <1>3, <1>4, <1>5 DEF IInv, TypeOK, After, Unused
<1>7. Dist(read_idx, write_idx)' = Dist(read_idx, write_idx) - 1
  BY <1>1, <1>3, <1>5 DEF Dist, After
<1>8. AtMostGranule'
  BY <1>1, <1>3, <1>7 DEF AtMostGranule
<1>9. SlotsByRank'
  <2> SUFFICES ASSUME NEW s \in 0 .. len - 1
               PROVE  data'[s] # nullptr
                        <=> s < G /\ Rank(After(read_idx), s) < Dist(read_idx, write_idx) - 1
    BY <1>1, <1>5, <1>7 DEF SlotsByRank, Rank, At
  <2>1. data[s] # nullptr <=> s < G /\ Rank(read_idx, s) < Dist(read_idx, write_idx)
    BY DEF IInv, SlotsByRank
  <2>2. CASE s = At(read_idx)
    <3>1. Rank(After(read_idx), s) = G - 1
      BY <1>1, <2>2 DEF Rank, At, After
    <3>2. data'[s] = nullptr
      BY <1>5, <2>2 DEF IInv, TypeOK
    <3> QED
      BY <1>1, <1>3, <3>1, <3>2
  <2>3. CASE s # At(read_idx)
    <3>1. s < G => Rank(After(read_idx), s) = Rank(read_idx, s) - 1
      BY <1>1, <2>3 DEF Rank, At, After
    <3>2. data'[s] = data[s]
      BY <1>5, <2>3 DEF IInv, TypeOK
    <3>3. Rank(read_idx, s) \in Int /\ Dist(read_idx, write_idx) \in Int
      BY <1>1 DEF Rank, Dist, At
    <3> QED
      BY <2>1, <3>1, <3>2, <3>3
  <2> QED
    BY <2>2, <2>3
<1>10. RobIdxHeld'
  <2>1. ASSUME NEW v \in Values, rob_idx'[v] # Unused
        PROVE  data'[rob_idx'[v]] = v
    <3>1. v # data[At(read_idx)] /\ rob_idx'[v] = rob_idx[v]
      BY <1>4, <1>5, <2>1 DEF IInv, TypeOK
    <3>2. data[rob_idx[v]] = v /\ rob_idx[v] \in 0 .. len - 1
      BY <2>1, <3>1 DEF IInv, RobIdxHeld, TypeOK
    <3> QED
      BY <1>5, <3>1, <3>2 DEF IInv, TypeOK
  <2>2. ASSUME NEW i \in 0 .. len - 1, data'[i] # nullptr
        PROVE  rob_idx'[data'[i]] = i
    <3>1. i # At(read_idx) /\ data'[i] = data[i]
      BY <1>5, <2>2 DEF IInv, TypeOK
    <3>2. rob_idx[data[i]] = i /\ data[i] \in Values
      BY <2>2, <3>1 DEF IInv, RobIdxHeld, TypeOK
    <3>3. rob_idx[data[At(read_idx)]] = At(read_idx)
      BY <1>1, <1>3, <1>4, NullAssumption DEF IInv, RobIdxHeld
    <3> QED
      BY <1>5, <3>1, <3>2, <3>3 DEF IInv, TypeOK
  <2> QED
    BY <1>1, <2>1, <2>2 DEF RobIdxHeld
<1> QED
  BY <1>6, <1>8, <1>9, <1>10 DEF IInv

(* The recovery keeps the invariant: no operation still claims a slot.     *)
LEMMA ClearIInv ==
    ASSUME IInv, clear
    PROVE  IInv'
<1>1. /\ len \in Nat \ {0} /\ G \in 1 .. len /\ G \in Nat \ {0} /\ Ring = 2 * G
      /\ len' = len /\ G' = G /\ Ring' = 2 * G
  BY GranuleBounds DEF IInv, TypeOK, Ring, G, clear
<1>2. TypeOK'
  BY <1>1 DEF IInv, TypeOK, clear, Unused
<1>3. AtMostGranule' /\ SlotsByRank'
  BY <1>1 DEF clear, AtMostGranule, SlotsByRank, Dist, Rank, At
<1>4. ASSUME NEW v \in Values
      PROVE  rob_idx'[v] = Unused
  <2>1. rob_idx[v] # Unused => rob_idx[v] \in 0 .. len - 1 /\ data[rob_idx[v]] = v
    BY DEF IInv, TypeOK, RobIdxHeld
  <2> QED
    BY <2>1 DEF clear
<1>5. RobIdxHeld'
  BY <1>1, <1>4 DEF RobIdxHeld, clear
<1> QED
  BY <1>2, <1>3, <1>5 DEF IInv

(* A step in which no queue moves keeps the invariant.                     *)
LEMMA StutterIInv == IInv /\ UNCHANGED vars => IInv'
BY DEF IInv, TypeOK, AtMostGranule, SlotsByRank, RobIdxHeld, vars, Ring, Dist, Rank, At, G

(* The invariant is inductive.                                             *)
LEMMA NextIInv == IInv /\ [Next]_vars => IInv'
BY PushIInv, PopIInv, ClearIInv, StutterIInv DEF Next

(* The invariant holds in every state.                                     *)
LEMMA Invariance == Spec => []IInv
BY InitIInv, NextIInv, PTL DEF Spec

-----------------------------------------------------------------------------
(* The properties of the runs                                              *)

(* The indices and the slots stay in range: at(), push() and pop() never   *)
(* leave the vector (sim_queue.hh:16).                                     *)
THEOREM TypeCorrect == Spec => []TypeOK
BY Invariance, PTL DEF IInv

(* The slots that are not null are those between the indices, so that the  *)
(* recovery deletes the operations of the ring and no others.              *)
THEOREM SlotsAreExact == Spec => []SlotsExact
<1>1. IInv => SlotsExact
  BY TypeGivesIdx, SlotsForms DEF IInv
<1> QED
  BY <1>1, Invariance, PTL

(* An operation stays in the slot that push() gave it and is in no other.  *)
THEOREM RobIdxIsHeld == Spec => []RobIdxHeld
BY Invariance, PTL DEF IInv

(* full() and empty() tell exactly when Granule(len) operations, and none, *)
(* are held.                                                               *)
THEOREM FullIsExact == Spec => []FullAtGranule
<1>1. ASSUME IInv PROVE FullAtGranule
  <2>1. /\ len \in Nat \ {0} /\ G \in 1 .. len /\ G \in Nat \ {0}
        /\ read_idx \in 0 .. 2 * G - 1 /\ write_idx \in 0 .. 2 * G - 1
    BY <1>1, GranuleBounds DEF IInv, TypeOK, Ring, G
  <2>2. Slot(read_idx) = At(read_idx) /\ Slot(write_idx) = At(write_idx)
    BY <1>1, <2>1, Masks DEF IInv, TypeOK
  <2>3. Count = Dist(read_idx, write_idx)
    BY <1>1, TypeGivesIdx, CountIsDist DEF IInv
  <2>4. full <=> Count = G
    BY <2>1, <2>2, <2>3 DEF full, At, Dist
  <2>5. empty <=> Count = 0
    BY <2>1, <2>3 DEF empty, Dist
  <2> QED
    BY <2>4, <2>5 DEF FullAtGranule, G
<1> QED
  BY <1>1, Invariance, PTL

(* peek_next_pop() is the second oldest, or null when there is none, or    *)
(* the oldest when one slot serves.                                        *)
THEOREM PeekNextIsSecond == Spec => []PeekNext
<1>1. ASSUME IInv PROVE PeekNext
  <2>1. /\ len \in Nat \ {0} /\ G \in 1 .. len /\ G \in Nat \ {0}
        /\ read_idx \in 0 .. 2 * G - 1 /\ write_idx \in 0 .. 2 * G - 1
    BY <1>1, GranuleBounds DEF IInv, TypeOK, Ring, G
  <2>2. /\ Slot(read_idx) = At(read_idx)
        /\ Succ(read_idx) = After(read_idx)
        /\ Slot(After(read_idx)) = At(After(read_idx))
        /\ At(After(read_idx)) \in 0 .. G - 1
    BY <1>1, <2>1, Masks DEF IInv, TypeOK
  <2>3. Count = Dist(read_idx, write_idx) /\ Count \in Nat
    BY <1>1, TypeGivesIdx, CountIsDist DEF IInv
  <2>4. CASE G = 1
    BY <2>1, <2>2, <2>4 DEF PeekNext, peek, peek_next_pop, At, After, G
  <2>5. CASE G # 1 /\ Count > 1
    <3>1. 2 \in 1 .. G /\ 2 \in 1 .. Count
      BY <2>1, <2>3, <2>5
    <3>2. (read_idx + 2 - 1) % G = At(read_idx + 2 - 1)
      BY <1>1, <3>1, TypeGivesIdx, SlotOfRank DEF IInv
    <3>3. At(read_idx + 2 - 1) = At(After(read_idx))
      BY <2>1 DEF At, After
    <3>4. Elements[2] = data[(read_idx + 2 - 1) % G]
      BY <3>1 DEF Elements, G
    <3> QED
      BY <2>2, <2>5, <3>2, <3>3, <3>4 DEF PeekNext, peek_next_pop, G
  <2>6. CASE G # 1 /\ ~ (Count > 1)
    <3>1. Rank(read_idx, At(After(read_idx))) = 1
      BY <2>1, <2>6 DEF At, After, Rank
    <3>2. data[At(After(read_idx))] = nullptr
      BY <1>1, <2>1, <2>2, <2>3, <2>6, <3>1 DEF IInv, SlotsByRank
    <3> QED
      BY <2>2, <2>6, <3>2 DEF PeekNext, peek_next_pop, G
  <2> QED
    BY <2>4, <2>5, <2>6
<1> QED
  BY <1>1, Invariance, PTL

-----------------------------------------------------------------------------
(* The ring is a bounded first-in first-out sequence                       *)

(* Elements, with the slots written without remainders.                    *)
LEMMA ElementsByRank ==
    ASSUME IInv
    PROVE  /\ Elements \in Seq(Values \cup {nullptr})
           /\ Len(Elements) = Dist(read_idx, write_idx)
           /\ Dist(read_idx, write_idx) \in 0 .. G
           /\ Elements = [j \in 1 .. Dist(read_idx, write_idx) |-> data[At(read_idx + j - 1)]]
           /\ \A j \in 1 .. Dist(read_idx, write_idx) :
                  At(read_idx + j - 1) \in 0 .. G - 1
<1> DEFINE d == Dist(read_idx, write_idx)
<1>1. IdxOK /\ G \in 1 .. len /\ G \in Nat \ {0} /\ len \in Nat
  BY TypeGivesIdx, GranuleBounds DEF IInv, TypeOK
<1>2. Count = d /\ d \in 0 .. G
  BY <1>1, CountIsDist DEF IInv, AtMostGranule
<1> HIDE DEF d
<1>3. ASSUME NEW j \in 1 .. d
      PROVE  /\ (read_idx + j - 1) % Granule(len) = At(read_idx + j - 1)
             /\ At(read_idx + j - 1) \in 0 .. G - 1
             /\ data[At(read_idx + j - 1)] \in Values \cup {nullptr}
  <2>1. j \in 1 .. G
    BY <1>1, <1>2
  <2>2. /\ (read_idx + j - 1) % G = At(read_idx + j - 1)
        /\ At(read_idx + j - 1) \in 0 .. G - 1
    BY <1>1, <2>1, SlotOfRank
  <2> QED
    BY <1>1, <2>2 DEF G, IInv, TypeOK
<1>4. Elements = [j \in 1 .. d |-> data[At(read_idx + j - 1)]]
  BY <1>2, <1>3 DEF Elements
<1>5. Elements \in Seq(Values \cup {nullptr}) /\ Len(Elements) = d
  BY <1>2, <1>3, <1>4
<1> QED
  BY <1>2, <1>3, <1>4, <1>5 DEF d

(* push() appends.                                                         *)
LEMMA PushAppends ==
    ASSUME IInv, NEW v \in Values, push(v)
    PROVE  Bounded!Push(v)
<1> DEFINE d == Dist(read_idx, write_idx)
<1>1. /\ len \in Nat \ {0} /\ G \in 1 .. len /\ G \in Nat \ {0}
      /\ read_idx \in 0 .. 2 * G - 1 /\ write_idx \in 0 .. 2 * G - 1
      /\ len' = len /\ G' = G
  BY GranuleBounds DEF IInv, TypeOK, Ring, G, push
<1>2. Slot(write_idx) = At(write_idx) /\ Succ(write_idx) = After(write_idx)
  BY <1>1, Masks DEF IInv, TypeOK
<1>3. At(write_idx) \in 0 .. G - 1 /\ d < G /\ d \in Nat
  <2>1. ~ full
    BY DEF push
  <2> QED
    BY <1>1, <2>1, PushSlot DEF Dist
<1>4. /\ read_idx' = read_idx
      /\ write_idx' = After(write_idx)
      /\ data' = [data EXCEPT ![At(write_idx)] = v]
  BY <1>2 DEF push
<1>5. Dist(read_idx, write_idx)' = d + 1
  BY <1>1, <1>3, <1>4 DEF Dist, After
<1>6. /\ Elements \in Seq(Values \cup {nullptr})
      /\ Len(Elements) = d
      /\ Elements = [j \in 1 .. d |-> data[At(read_idx + j - 1)]]
      /\ \A j \in 1 .. d : At(read_idx + j - 1) \in 0 .. G - 1
  BY ElementsByRank
<1>7. Elements' = [j \in 1 .. d + 1 |-> data'[At(read_idx + j - 1)]]
  <2>1. (Elements = [j \in 1 .. Dist(read_idx, write_idx) |-> data[At(read_idx + j - 1)]])'
    BY PushIInv, ElementsByRank, PTL
  <2>2. Elements' = [j \in 1 .. Dist(read_idx, write_idx)' |-> data'[At(read_idx + j - 1)]]
    BY <1>1, <1>4, <2>1 DEF At
  <2> QED
    BY <1>5, <2>2
<1> HIDE DEF d
<1>8. ASSUME NEW j \in 1 .. d
      PROVE  data'[At(read_idx + j - 1)] = data[At(read_idx + j - 1)]
  <2>1. At(read_idx + j - 1) # At(write_idx)
    BY <1>1, <1>3 DEF At, Dist, d
  <2> QED
    BY <1>1, <1>4, <1>6, <2>1 DEF IInv, TypeOK
<1>9. data'[At(read_idx + (d + 1) - 1)] = v
  <2>1. At(read_idx + (d + 1) - 1) = At(write_idx)
    BY <1>1, <1>3 DEF At, Dist, d
  <2> QED
    BY <1>1, <1>3, <1>4, <2>1 DEF IInv, TypeOK
<1>10. Elements' = Append(Elements, v)
  BY <1>3, <1>6, <1>7, <1>8, <1>9
<1> QED
  BY <1>1, <1>3, <1>6, <1>10 DEF Bounded!Push, G

(* pop() takes the oldest.                                                 *)
LEMMA PopTakes ==
    ASSUME IInv, pop
    PROVE  Bounded!Pop
<1> DEFINE d == Dist(read_idx, write_idx)
<1>1. /\ len \in Nat \ {0} /\ G \in 1 .. len /\ G \in Nat \ {0}
      /\ read_idx \in 0 .. 2 * G - 1 /\ write_idx \in 0 .. 2 * G - 1
      /\ read_idx # write_idx
      /\ len' = len /\ G' = G
  BY GranuleBounds DEF IInv, TypeOK, Ring, G, pop, empty
<1>2. Slot(read_idx) = At(read_idx) /\ Succ(read_idx) = After(read_idx)
  BY <1>1, Masks DEF IInv, TypeOK
<1>3. d \in 1 .. G
  BY <1>1 DEF Dist, IInv, AtMostGranule
<1>4. /\ write_idx' = write_idx
      /\ read_idx' = After(read_idx)
      /\ data' = [data EXCEPT ![At(read_idx)] = nullptr]
  BY <1>2 DEF pop
<1>5. Dist(read_idx, write_idx)' = d - 1
  BY <1>1, <1>3, <1>4 DEF Dist, After
<1>6. /\ Elements \in Seq(Values \cup {nullptr})
      /\ Len(Elements) = d
      /\ Elements = [j \in 1 .. d |-> data[At(read_idx + j - 1)]]
      /\ \A j \in 1 .. d : At(read_idx + j - 1) \in 0 .. G - 1
  BY ElementsByRank
<1>7. Elements' = [j \in 1 .. d - 1 |-> data'[At(After(read_idx) + j - 1)]]
  <2>1. (Elements = [j \in 1 .. Dist(read_idx, write_idx) |-> data[At(read_idx + j - 1)]])'
    BY PopIInv, ElementsByRank, PTL
  <2>2. Elements' = [j \in 1 .. Dist(read_idx, write_idx)' |-> data'[At(After(read_idx) + j - 1)]]
    BY <1>1, <1>4, <2>1 DEF At
  <2> QED
    BY <1>5, <2>2
<1> HIDE DEF d
<1>8. ASSUME NEW j \in 1 .. d - 1
      PROVE  data'[At(After(read_idx) + j - 1)] = data[At(read_idx + (j + 1) - 1)]
  <2>1. /\ At(After(read_idx) + j - 1) = At(read_idx + (j + 1) - 1)
        /\ At(read_idx + (j + 1) - 1) # At(read_idx)
    BY <1>1, <1>3 DEF At, After
  <2>2. j + 1 \in 1 .. d
    BY <1>3
  <2>3. At(read_idx + (j + 1) - 1) \in 0 .. G - 1
    BY <1>6, <2>2
  <2> QED
    BY <1>1, <1>4, <2>1, <2>3 DEF IInv, TypeOK
<1>9. Elements' = Tail(Elements)
  BY <1>3, <1>6, <1>7, <1>8
<1>10. Elements # <<>>
  <2>1. Len(Elements) # 0
    BY <1>3, <1>6
  <2>2. Len(<< >>) = 0
    OBVIOUS
  <2> QED
    BY <2>1, <2>2, Zenon
<1> QED
  BY <1>1, <1>9, <1>10 DEF Bounded!Pop, G

(* clear() empties.                                                        *)
LEMMA ClearEmpties ==
    ASSUME IInv, clear
    PROVE  Bounded!Clear
<1>1. IInv'
  BY ClearIInv
<1>2. (Len(Elements) = Dist(read_idx, write_idx) /\ Elements \in Seq(Values \cup {nullptr}))'
  BY <1>1, ElementsByRank, PTL
<1>3. Dist(read_idx, write_idx)' = 0
  BY DEF clear, Dist
<1>4. Elements' = <<>>
  BY <1>2, <1>3
<1> QED
  BY <1>4 DEF Bounded!Clear, clear

(* Every behaviour of the ring, seen through Elements, is one of the       *)
(* bounded queue that the pipeline expects (sim_queue.hh:20).              *)
THEOREM Refinement == Spec => ImplementsFifo
<1>1. Init => Bounded!Init
  <2> SUFFICES ASSUME Init PROVE Bounded!Init
    OBVIOUS
  <2>1. IInv /\ Dist(read_idx, write_idx) = 0
    BY InitIInv DEF Dist, Init
  <2>2. Elements = <<>>
    BY <2>1, ElementsByRank
  <2> QED
    BY <2>1, <2>2, GranuleBounds DEF Bounded!Init, Init, G
<1>2. IInv /\ [Next]_vars => [Bounded!Next]_(Bounded!vars)
  <2>1. ASSUME UNCHANGED vars PROVE UNCHANGED Bounded!vars
    BY <2>1 DEF vars, Bounded!vars, Elements, Count, Ring
  <2> QED
    BY <2>1, PushAppends, PopTakes, ClearEmpties DEF Next, Bounded!Next
<1> QED
  BY <1>1, <1>2, Invariance, PTL DEF Spec, ImplementsFifo, Bounded!Spec
==============================================================================
