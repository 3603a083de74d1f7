------------------------------ MODULE DataLemmas ------------------------------
(***************************************************************************)
(* Facts about numbers and sequences that the proofs of several components *)
(* need.  None of them is about the program.                               *)
(***************************************************************************)
EXTENDS Integers, Sequences, FiniteSets, FiniteSetTheorems, SequenceTheorems, WellFoundedInduction, TLAPS

(* A non-empty set of numbers has a least one: induction over numbers, in  *)
(* the form of a least counterexample.                                     *)
LEMMA Least ==
    ASSUME NEW T \in SUBSET Nat, T # {}
    PROVE  \E x \in T : \A y \in T : x <= y
<1> DEFINE R == OpToRel(<, Nat)
<1>1. IsWellFoundedOn(R, Nat)
  BY NatLessThanWellFounded
<1>2. \A x, y \in Nat : <<y, x>> \in R <=> y < x
  BY DEF OpToRel
<1> HIDE DEF R
<1>3. \E x \in T : \A y \in T : ~ (<<y, x>> \in R)
  BY <1>1, WFMin, Zenon
<1>4. PICK x \in T : \A y \in T : ~ (<<y, x>> \in R)
  BY <1>3
<1>5. \A y \in T : ~ (y < x)
  BY <1>2, <1>4, Zenon
<1> HIDE DEF R
<1>6. \A y \in T : x <= y
  <2> SUFFICES ASSUME NEW y \in T PROVE x <= y
    OBVIOUS
  <2>1. x \in Nat /\ y \in Nat /\ ~ (y < x)
    BY <1>5
  <2> QED
    BY <2>1
<1> QED
  BY <1>6

-----------------------------------------------------------------------------
(* Sequences without repetitions                                           *)

Elems(s) == {s[j] : j \in DOMAIN s}
NoRepeat(s) == \A i, j \in DOMAIN s : s[i] = s[j] => i = j

(* Appending adds one element, and repeats nothing when it is new.         *)
LEMMA AppendElems ==
    ASSUME NEW S, NEW s \in Seq(S), NEW x \in S
    PROVE  /\ Append(s, x) \in Seq(S)
           /\ Elems(Append(s, x)) = Elems(s) \cup {x}
           /\ NoRepeat(s) /\ x \notin Elems(s) => NoRepeat(Append(s, x))
           /\ s # <<>> => Head(Append(s, x)) = Head(s) /\ Append(s, x) # <<>>
<1> DEFINE t == Append(s, x)
<1>1. /\ t \in Seq(S) /\ Len(t) = Len(s) + 1 /\ DOMAIN s = 1 .. Len(s)
      /\ DOMAIN t = 1 .. Len(s) + 1 /\ Len(s) \in Nat
      /\ \A j \in 1 .. Len(s) : t[j] = s[j]
      /\ t[Len(s) + 1] = x
  OBVIOUS
<1> HIDE DEF t
<1>2. Elems(t) = Elems(s) \cup {x}
  BY <1>1 DEF Elems
<1>3. NoRepeat(s) /\ x \notin Elems(s) => NoRepeat(t)
  BY <1>1 DEF NoRepeat, Elems
<1>4. s # <<>> => Head(t) = Head(s) /\ t # <<>>
  BY <1>1
<1> QED
  BY <1>1, <1>2, <1>3, <1>4 DEF t

(* The tail of a sequence without repetitions loses its head.              *)
LEMMA TailElems ==
    ASSUME NEW S, NEW s \in Seq(S), s # <<>>
    PROVE  /\ Tail(s) \in Seq(S)
           /\ Head(s) \in Elems(s)
           /\ Elems(s) = Elems(Tail(s)) \cup {Head(s)}
           /\ NoRepeat(s) => NoRepeat(Tail(s)) /\ Head(s) \notin Elems(Tail(s))
<1> DEFINE t == Tail(s)
<1>1. /\ t \in Seq(S) /\ Len(s) \in Nat \ {0} /\ DOMAIN s = 1 .. Len(s)
      /\ DOMAIN t = 1 .. Len(s) - 1
      /\ \A j \in 1 .. Len(s) - 1 : t[j] = s[j + 1]
      /\ Head(s) = s[1]
  OBVIOUS
<1> HIDE DEF t
<1>2. Elems(s) = Elems(t) \cup {Head(s)}
  <2>1. ASSUME NEW j \in DOMAIN s PROVE s[j] \in Elems(t) \cup {Head(s)}
    <3>1. CASE j = 1
      BY <1>1, <3>1
    <3>2. CASE j # 1
      <4>1. j - 1 \in DOMAIN t /\ t[j - 1] = s[j]
        BY <1>1, <3>2
      <4> QED
        BY <4>1 DEF Elems
    <3> QED
      BY <3>1, <3>2
  <2>2. ASSUME NEW j \in DOMAIN t PROVE t[j] \in Elems(s)
    BY <1>1 DEF Elems
  <2>3. Head(s) \in Elems(s)
    BY <1>1 DEF Elems
  <2>4. Elems(s) \subseteq Elems(t) \cup {Head(s)} /\ Elems(t) \subseteq Elems(s)
    BY <2>1, <2>2 DEF Elems
  <2> QED
    BY <2>3, <2>4
<1>3. NoRepeat(s) => NoRepeat(t) /\ Head(s) \notin Elems(t)
  <2> SUFFICES ASSUME NoRepeat(s) PROVE NoRepeat(t) /\ Head(s) \notin Elems(t)
    OBVIOUS
  <2>1. \A i, j \in 1 .. Len(s) : s[i] = s[j] => i = j
    BY <1>1 DEF NoRepeat
  <2>2. ASSUME NEW i \in DOMAIN t, NEW j \in DOMAIN t, t[i] = t[j] PROVE i = j
    <3>1. i + 1 \in 1 .. Len(s) /\ j + 1 \in 1 .. Len(s) /\ s[i + 1] = s[j + 1]
      BY <1>1, <2>2
    <3> QED
      BY <1>1, <2>1, <3>1
  <2>3. ASSUME NEW j \in DOMAIN t PROVE t[j] # Head(s)
    <3>1. j + 1 \in 1 .. Len(s) /\ 1 \in 1 .. Len(s) /\ t[j] = s[j + 1] /\ j + 1 # 1
      BY <1>1
    <3> QED
      BY <1>1, <2>1, <3>1
  <2> QED
    BY <2>2, <2>3 DEF NoRepeat, Elems
<1> QED
  BY <1>1, <1>2, <1>3 DEF t

(* The head of the tail is the second element.                             *)
LEMMA TailHead ==
    ASSUME NEW S, NEW s \in Seq(S), Len(s) >= 2
    PROVE  Tail(s) # <<>> /\ Head(Tail(s)) = s[2]
<1> DEFINE t == Tail(s)
<1>1. t \in Seq(S) /\ Len(t) = Len(s) - 1 /\ \A j \in 1 .. Len(s) - 1 : t[j] = s[j + 1]
  OBVIOUS
<1> HIDE DEF t
<1>2. 1 \in 1 .. Len(s) - 1 /\ Len(t) >= 1
  BY <1>1
<1>3. t[1] = s[2]
  BY <1>1, <1>2
<1>4. Head(t) = t[1] /\ t # <<>>
  BY <1>1, <1>2
<1> QED
  BY <1>3, <1>4 DEF t

(* A sequence without its j-th element: the later ones move up.            *)
LEMMA RemoveIndex ==
    ASSUME NEW S, NEW s \in Seq(S), NEW j \in DOMAIN s
    PROVE  LET t == SubSeq(s, 1, j - 1) \o SubSeq(s, j + 1, Len(s))
           IN  /\ t \in Seq(S)
               /\ Len(t) = Len(s) - 1
               /\ DOMAIN t = 1 .. Len(s) - 1
               /\ \A n \in DOMAIN t : t[n] = IF n < j THEN s[n] ELSE s[n + 1]
<1> DEFINE a == SubSeq(s, 1, j - 1)
           b == SubSeq(s, j + 1, Len(s))
           t == a \o b
<1>1. Len(s) \in Nat /\ DOMAIN s = 1 .. Len(s) /\ j \in 1 .. Len(s)
  OBVIOUS
<1>2. /\ a \in Seq(S) /\ Len(a) = j - 1
      /\ \A n \in 1 .. j - 1 : a[n] = s[n]
  BY <1>1
<1>3. /\ b \in Seq(S) /\ Len(b) = Len(s) - j
      /\ \A n \in 1 .. Len(s) - j : b[n] = s[j + n]
  BY <1>1
<1> HIDE DEF a, b
<1>4. /\ t \in Seq(S) /\ Len(t) = Len(a) + Len(b)
      /\ \A n \in 1 .. Len(a) + Len(b) : t[n] = IF n <= Len(a) THEN a[n] ELSE b[n - Len(a)]
  BY <1>2, <1>3, ConcatProperties
<1> HIDE DEF t
<1>5. Len(t) = Len(s) - 1 /\ DOMAIN t = 1 .. Len(s) - 1
  <2>1. Len(t) = Len(s) - 1
    BY <1>1, <1>2, <1>3, <1>4
  <2> QED
    BY <1>4, <2>1
<1>6. ASSUME NEW n \in DOMAIN t
      PROVE  t[n] = IF n < j THEN s[n] ELSE s[n + 1]
  <2>1. n \in 1 .. Len(s) - 1 /\ n \in 1 .. Len(a) + Len(b)
    BY <1>1, <1>2, <1>3, <1>5
  <2>2. CASE n < j
    <3>1. n \in 1 .. j - 1 /\ n <= Len(a)
      BY <1>1, <1>2, <2>1, <2>2
    <3>2. t[n] = a[n] /\ a[n] = s[n]
      BY <1>2, <1>4, <2>1, <3>1
    <3> QED
      BY <2>2, <3>2
  <2>3. CASE ~ (n < j)
    <3>1. ~ (n <= Len(a)) /\ n - Len(a) = n - j + 1 /\ n - j + 1 \in 1 .. Len(s) - j
      BY <1>1, <1>2, <2>1, <2>3
    <3>2. t[n] = b[n - j + 1]
      BY <1>4, <2>1, <3>1
    <3>3. b[n - j + 1] = s[j + (n - j + 1)] /\ j + (n - j + 1) = n + 1
      BY <1>1, <1>3, <2>1, <3>1
    <3> QED
      BY <2>3, <3>2, <3>3
  <2> QED
    BY <2>2, <2>3
<1> QED
  BY <1>4, <1>5, <1>6 DEF t, a, b

(* Taking the j-th element out.                                            *)
LEMMA RemoveElems ==
    ASSUME NEW S, NEW s \in Seq(S), NEW j \in DOMAIN s
    PROVE  LET t == SubSeq(s, 1, j - 1) \o SubSeq(s, j + 1, Len(s))
           IN  /\ t \in Seq(S)
               /\ Elems(t) \subseteq Elems(s)
               /\ Elems(s) \subseteq Elems(t) \cup {s[j]}
               /\ NoRepeat(s) => NoRepeat(t) /\ s[j] \notin Elems(t)
<1> DEFINE t == SubSeq(s, 1, j - 1) \o SubSeq(s, j + 1, Len(s))
           pos(n) == IF n < j THEN n ELSE n + 1
<1>1. Len(s) \in Nat /\ DOMAIN s = 1 .. Len(s) /\ j \in 1 .. Len(s)
  OBVIOUS
<1>2. /\ t \in Seq(S) /\ DOMAIN t = 1 .. Len(s) - 1
      /\ \A n \in DOMAIN t : t[n] = s[pos(n)]
  BY RemoveIndex
<1> HIDE DEF t
<1>3. ASSUME NEW n \in DOMAIN t
      PROVE  t[n] = s[pos(n)] /\ pos(n) \in 1 .. Len(s) /\ pos(n) # j
  BY <1>1, <1>2
<1>4. \A m, n \in DOMAIN t : pos(m) = pos(n) => m = n
  BY <1>1, <1>2
<1>5. ASSUME NEW i \in DOMAIN s, i # j PROVE s[i] \in Elems(t)
  <2>1. \E n \in DOMAIN t : pos(n) = i
    <3>1. CASE i < j
      BY <1>1, <1>2, <3>1
    <3>2. CASE ~ (i < j)
      <4>1. i - 1 \in DOMAIN t /\ ~ (i - 1 < j) /\ (i - 1) + 1 = i
        BY <1>1, <1>2, <1>5, <3>2
      <4> QED
        BY <4>1
    <3> QED
      BY <3>1, <3>2
  <2> QED
    BY <1>3, <2>1 DEF Elems
<1> HIDE DEF pos
<1>6. Elems(t) \subseteq Elems(s)
  BY <1>1, <1>3 DEF Elems
<1>7. Elems(s) \subseteq Elems(t) \cup {s[j]}
  BY <1>5 DEF Elems
<1>8. NoRepeat(s) => NoRepeat(t) /\ s[j] \notin Elems(t)
  BY <1>1, <1>3, <1>4 DEF NoRepeat, Elems
<1> QED
  BY <1>2, <1>6, <1>7, <1>8 DEF t

(* Putting an element in front.                                            *)
LEMMA ConsElems ==
    ASSUME NEW S, NEW s \in Seq(S), NEW x \in S
    PROVE  LET t == <<x>> \o s
           IN  /\ t \in Seq(S) /\ Len(t) = Len(s) + 1 /\ DOMAIN t = 1 .. Len(s) + 1
               /\ t[1] = x
               /\ \A n \in DOMAIN s : t[n + 1] = s[n]
               /\ Elems(t) = Elems(s) \cup {x}
               /\ NoRepeat(s) /\ x \notin Elems(s) => NoRepeat(t)
<1> DEFINE t == <<x>> \o s
<1>1. Len(s) \in Nat /\ DOMAIN s = 1 .. Len(s)
  OBVIOUS
<1>2. /\ t \in Seq(S) /\ Len(t) = 1 + Len(s)
      /\ \A n \in 1 .. 1 + Len(s) : t[n] = IF n <= 1 THEN <<x>>[n] ELSE s[n - 1]
  <2>1. <<x>> \in Seq(S) /\ Len(<<x>>) = 1
    OBVIOUS
  <2> QED
    BY <2>1, ConcatProperties
<1> HIDE DEF t
<1>3. DOMAIN t = 1 .. Len(s) + 1 /\ Len(t) = Len(s) + 1
  BY <1>1, <1>2
<1>4. t[1] = x
  BY <1>1, <1>2
<1>5. ASSUME NEW n \in DOMAIN s PROVE t[n + 1] = s[n] /\ n + 1 \in DOMAIN t
  <2>1. n + 1 \in 1 .. 1 + Len(s) /\ ~ (n + 1 <= 1) /\ (n + 1) - 1 = n
    BY <1>1
  <2> QED
    BY <1>2, <1>3, <2>1
<1>6. ASSUME NEW n \in DOMAIN t, n # 1 PROVE n - 1 \in DOMAIN s /\ t[n] = s[n - 1]
  BY <1>1, <1>2, <1>3, <1>6
<1>7. Elems(t) = Elems(s) \cup {x}
  <2>1. Elems(t) \subseteq Elems(s) \cup {x}
    BY <1>4, <1>6 DEF Elems
  <2>2. Elems(s) \subseteq Elems(t)
    BY <1>5 DEF Elems
  <2>3. x \in Elems(t)
    BY <1>1, <1>3, <1>4 DEF Elems
  <2> QED
    BY <2>1, <2>2, <2>3
<1>8. ASSUME NoRepeat(s), x \notin Elems(s) PROVE NoRepeat(t)
  <2> SUFFICES ASSUME NEW m \in DOMAIN t, NEW n \in DOMAIN t, t[m] = t[n] PROVE m = n
    BY DEF NoRepeat
  <2>1. \A i \in DOMAIN s : s[i] # x
    BY <1>8 DEF Elems
  <2>2. CASE m = 1 \/ n = 1
    BY <1>4, <1>6, <2>1, <2>2
  <2>3. CASE m # 1 /\ n # 1
    <3>1. m - 1 = n - 1
      BY <1>6, <1>8, <2>3 DEF NoRepeat
    <3> QED
      BY <1>1, <1>3, <3>1
  <2> QED
    BY <2>2, <2>3
<1> QED
  BY <1>2, <1>3, <1>4, <1>5, <1>7, <1>8 DEF t

(* A sequence has no more elements than its length.                        *)
LEMMA ElemsBound ==
    ASSUME NEW S, NEW s \in Seq(S)
    PROVE  IsFiniteSet(Elems(s)) /\ Cardinality(Elems(s)) <= Len(s)
<1>1. /\ IsFiniteSet(1 .. Len(s)) /\ Cardinality(1 .. Len(s)) = Len(s)
      /\ Len(s) \in Nat /\ DOMAIN s = 1 .. Len(s)
  BY FS_Interval
<1>2. s \in Surjection(1 .. Len(s), Elems(s))
  BY <1>1 DEF Surjection, Elems
<1> QED
  BY <1>1, <1>2, FS_Surjection
===============================================================================
