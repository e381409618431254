------------------------------ MODULE Induction ------------------------------
(***************************************************************************)
(* Induction over numbers and over sequences, stated of a set instead of a *)
(* predicate: what holds of the first, and of the next whenever of one,    *)
(* holds of all.                                                           *)
(***************************************************************************)
EXTENDS Integers, SequenceTheorems, WellFoundedInduction, TLAPS

LEMMA LessIsWellFounded ==
    /\ IsWellFoundedOn(OpToRel(<, Nat), Nat)
    /\ \A m, n \in Nat : m < n => <<m, n>> \in OpToRel(<, Nat)
<1>1. IsWellFoundedOn(OpToRel(<, Nat), Nat)
  BY NatLessThanWellFounded, Zenon
<1>2. \A m, n \in Nat : m < n => <<m, n>> \in OpToRel(<, Nat)
  BY DEF OpToRel
<1> QED
  BY <1>1, <1>2

(* A set of numbers with zero and with the successor of each member has    *)
(* them all.  Recursion on lengths (Pick in RelayLog) is argued with it.   *)
THEOREM NumberInduction ==
    ASSUME NEW T, 0 \in T, \A n \in Nat : n \in T => n + 1 \in T
    PROVE  Nat \subseteq T
<1> SUFFICES ASSUME ~(Nat \subseteq T)
             PROVE  FALSE
  OBVIOUS
<1> DEFINE Less == OpToRel(<, Nat)
           B == {n \in Nat : n \notin T}
<1>1. B \subseteq Nat /\ B # {}
  OBVIOUS
<1>2. /\ IsWellFoundedOn(Less, Nat)
      /\ \A m, n \in Nat : m < n => <<m, n>> \in Less
  BY LessIsWellFounded
<1> HIDE DEF Less
<1>3. \E x \in B : \A y \in B : ~ (<<y, x>> \in Less)
  <2> HIDE DEF B
  <2> QED
    BY <1>1, <1>2, WFMin, Zenon
<1>4. PICK m \in B : \A y \in B : ~ (<<y, m>> \in Less)
  BY <1>3
<1>5. m \in Nat /\ m # 0 /\ m - 1 \in Nat /\ m - 1 < m
  OBVIOUS
<1>6. m - 1 \notin B
  <2>1. <<m - 1, m>> \in Less
    BY <1>2, <1>5
  <2> HIDE DEF B
  <2> QED
    BY <1>4, <2>1
<1> QED
  BY <1>5, <1>6

(* The same for sequences, which grow at their end.                        *)
THEOREM SequenceInduction ==
    ASSUME NEW S, NEW T, << >> \in T,
           \A s \in Seq(S), e \in S : s \in T => Append(s, e) \in T
    PROVE  Seq(S) \subseteq T
<1> DEFINE L == {n \in Nat : \A s \in Seq(S) : Len(s) = n => s \in T}
<1>1. 0 \in L
  BY EmptySeq
<1>2. ASSUME NEW n \in Nat, n \in L
      PROVE  n + 1 \in L
  <2>1. ASSUME NEW s \in Seq(S), Len(s) = n + 1
        PROVE  s \in T
    <3>1. s # << >>
      BY <1>2, <2>1, EmptySeq
    <3>2. PICK u \in Seq(S), e \in S : s = Append(u, e)
      BY <3>1, SequenceEmptyOrAppend
    <3>3. Len(u) = n
      BY <1>2, <2>1, <3>2, AppendProperties, LenProperties
    <3> QED
      BY <1>2, <3>2, <3>3
  <2> QED
    BY <2>1
<1>3. Nat \subseteq L
  <2> HIDE DEF L
  <2> QED
    BY <1>1, <1>2, NumberInduction
<1>4. \A s \in Seq(S) : Len(s) \in Nat
  BY LenProperties
<1> QED
  BY <1>3, <1>4
=============================================================================
