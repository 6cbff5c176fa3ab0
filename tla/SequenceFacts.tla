--------------------------- MODULE SequenceFacts ---------------------------
(***************************************************************************)
(* What the proofs use of numbers and sequences: a nonempty set of natural *)
(* numbers has a least element, one of positions a greatest, and what      *)
(* Append, Tail and \o with SubSeq do to the elements.                     *)
(***************************************************************************)
EXTENDS Integers, Sequences, TLAPS, NaturalsInduction, WellFoundedInduction

\* Every nonempty set of natural numbers has a least element.
LEMMA LeastNat ==
    ASSUME NEW T, T \subseteq Nat, T # {}
    PROVE  \E x \in T : \A y \in T : x <= y
<1>1. PICK x \in T : \A y \in T : <<y, x>> \notin OpToRel(<, Nat)
  BY WFMin, NatLessThanWellFounded, Zenon
<1>2. \A y \in T : ~(y < x)
  BY <1>1, Zenon DEF OpToRel
<1> QED
  BY <1>2

\* Every nonempty set of positions of a sequence has a last one.
LEMMA LastPosition ==
    ASSUME NEW n \in Nat, NEW T, T \subseteq 1..n, T # {}
    PROVE  \E x \in T : \A y \in T : y <= x
<1> DEFINE D == {d \in 0..n : n - d \in T}
<1>1. D \subseteq Nat /\ D # {}
  <2>1. PICK t \in T : TRUE
    OBVIOUS
  <2>2. t \in 1..n
    BY <2>1
  <2>3. n - t \in 0..n /\ n - (n - t) = t
    BY <2>2
  <2>4. n - t \in D
    BY <2>1, <2>3
  <2>5. D \subseteq Nat
    OBVIOUS
  <2> HIDE DEF D
  <2> QED
    BY <2>4, <2>5
<1>2. PICK d \in D : \A e \in D : d <= e
  <2> HIDE DEF D
  <2> QED
    BY <1>1, LeastNat
<1>3. n - d \in T
  BY <1>2
<1>4. \A y \in T : y <= n - d
  <2> SUFFICES ASSUME NEW y \in T PROVE y <= n - d
    OBVIOUS
  <2>1. y \in 1..n
    OBVIOUS
  <2>2. n - y \in 0..n /\ n - (n - y) = y
    BY <2>1
  <2>3. n - y \in D
    BY <2>2
  <2>4. d <= n - y /\ d \in 0..n
    BY <1>2, <2>3
  <2> QED
    BY <2>1, <2>4
<1> QED
  BY <1>3, <1>4

\* The elements of a sequence with one more at its end.
LEMMA AppendElements ==
    ASSUME NEW S, NEW s \in Seq(S), NEW e \in S
    PROVE  /\ Append(s, e) \in Seq(S)
           /\ Len(s) \in Nat /\ Len(Append(s, e)) = Len(s) + 1
           /\ \A i \in 1..Len(s) : s[i] \in S /\ Append(s, e)[i] = s[i]
           /\ Append(s, e)[Len(s) + 1] = e
           /\ \A i \in 1..(Len(s) + 1) : i = Len(s) + 1 \/ i \in 1..Len(s)
  OBVIOUS

\* The elements of a nonempty sequence without its first.
LEMMA TailElements ==
    ASSUME NEW S, NEW s \in Seq(S), s # <<>>
    PROVE  /\ Tail(s) \in Seq(S) /\ Head(s) \in S /\ Head(s) = s[1]
           /\ Len(s) \in Nat \ {0} /\ Len(Tail(s)) = Len(s) - 1
           /\ \A i \in 1..Len(Tail(s)) : Tail(s)[i] = s[i + 1] /\ i + 1 \in 2..Len(s)
           /\ \A i \in 1..Len(s) : s[i] \in S
  OBVIOUS

\* The elements of a sequence followed by the first k of another.
LEMMA ConcatElements ==
    ASSUME NEW S, NEW s \in Seq(S), NEW u \in Seq(S), NEW k \in 0..Len(u)
    PROVE  /\ s \o SubSeq(u, 1, k) \in Seq(S)
           /\ Len(s) \in Nat /\ Len(u) \in Nat /\ k \in Nat /\ k <= Len(u)
           /\ Len(s \o SubSeq(u, 1, k)) = Len(s) + k
           /\ \A i \in 1..Len(s) : (s \o SubSeq(u, 1, k))[i] = s[i]
           /\ \A i \in (Len(s) + 1)..(Len(s) + k) :
                (s \o SubSeq(u, 1, k))[i] = u[i - Len(s)] /\ i - Len(s) \in 1..Len(u)
           /\ \A i \in 1..(Len(s) + k) : i \in 1..Len(s) \/ i \in (Len(s) + 1)..(Len(s) + k)
<1> DEFINE v == SubSeq(u, 1, k)
<1>1. v \in Seq(S) /\ Len(v) = k /\ \A i \in 1..k : v[i] = u[i]
  OBVIOUS
<1> HIDE DEF v
<1>2. /\ s \o v \in Seq(S) /\ Len(s \o v) = Len(s) + k
      /\ \A i \in 1..Len(s) : (s \o v)[i] = s[i]
      /\ \A i \in (Len(s) + 1)..(Len(s) + k) : (s \o v)[i] = v[i - Len(s)]
  BY <1>1
<1>3. Len(s) \in Nat /\ Len(u) \in Nat /\ k \in Nat /\ k <= Len(u)
  OBVIOUS
<1>4. \A i \in (Len(s) + 1)..(Len(s) + k) :
         (s \o v)[i] = u[i - Len(s)] /\ i - Len(s) \in 1..Len(u)
  <2>1. \A i \in (Len(s) + 1)..(Len(s) + k) : i - Len(s) \in 1..k /\ i - Len(s) \in 1..Len(u)
    BY <1>3
  <2> QED
    BY <1>1, <1>2, <2>1
<1>5. \A i \in 1..(Len(s) + k) : i \in 1..Len(s) \/ i \in (Len(s) + 1)..(Len(s) + k)
  BY <1>3
<1> QED
  BY <1>2, <1>3, <1>4, <1>5 DEF v
=============================================================================
