--------------------------- MODULE KeyChainProofs ---------------------------
(***************************************************************************)
(* Theorems about SecureChat, for any sets of keys, rooms, connections,    *)
(* messages and symmetric keys, while nobody leaves: no member misses a    *)
(* rotation, no message overtakes the rotation to the key it is sealed     *)
(* with, and the owner counts what the others post.                        *)
(*                                                                         *)
(* The invariant is Orderly, in layers that each rest on those before:     *)
(* Inv (SecureChatProofs), Once and Told (who has been let into a room     *)
(* and is told so once), Chained (which key leads to which) and Counted.   *)
(***************************************************************************)
EXTENDS SecureChatProofs, Induction, FiniteSetTheorems, FunctionTheorems

-----------------------------------------------------------------------------
(* The key somebody holds who reads a sequence of frames.                  *)

Before(s, i) == SubSeq(s, 1, i - 1)
After(s, i) == SubSeq(s, i + 1, Len(s))

LEMMA SuffixSeq ==
    ASSUME NEW S, NEW s \in Seq(S), NEW i \in 1 .. Len(s)
    PROVE  /\ After(s, i) \in Seq(S)
           /\ Len(After(s, i)) = Len(s) - i
           /\ \A j \in 1 .. Len(s) - i : After(s, i)[j] = s[i + j]
<1>1. Len(s) \in Nat /\ i + 1 \in Int /\ Len(s) \in Int
  BY LenProperties
<1>2. \A j \in i + 1 .. Len(s) : s[j] \in S
  BY <1>1, ElementOfSeq
<1>3. /\ SubSeq(s, i + 1, Len(s)) \in Seq(S)
      /\ Len(SubSeq(s, i + 1, Len(s))) = IF i + 1 <= Len(s) THEN Len(s) - (i + 1) + 1 ELSE 0
      /\ \A j \in 1 .. Len(s) - (i + 1) + 1 : SubSeq(s, i + 1, Len(s))[j] = s[i + 1 + j - 1]
  BY <1>1, <1>2, SubSeqProperties
<1>4. \A j \in 1 .. Len(s) - i : j \in 1 .. Len(s) - (i + 1) + 1 /\ i + 1 + j - 1 = i + j
  BY <1>1
<1> QED
  BY <1>1, <1>3, <1>4 DEF After

LEMMA BeforeSeq ==
    ASSUME NEW S, NEW s \in Seq(S), NEW i \in 1 .. Len(s)
    PROVE  /\ Before(s, i) \in Seq(S)
           /\ Len(Before(s, i)) = i - 1
           /\ \A j \in 1 .. i - 1 : Before(s, i)[j] = s[j]
<1>1. i - 1 \in 0 .. Len(s)
  BY LenProperties
<1> QED
  BY <1>1, PrefixSeq DEF Before

(* w is s and then t, position by position.                                 *)
Joined(w, s, t) ==
    /\ Len(s) \in Nat /\ Len(t) \in Nat /\ Len(w) = Len(s) + Len(t)
    /\ DOMAIN s = 1 .. Len(s) /\ DOMAIN t = 1 .. Len(t) /\ DOMAIN w = 1 .. Len(s) + Len(t)
    /\ \A i \in 1 .. Len(s) : /\ w[i] = s[i]
                              /\ Before(w, i) = Before(s, i)
                              /\ After(w, i) = After(s, i) \o t
    /\ \A i \in 1 .. Len(t) : /\ w[Len(s) + i] = t[i]
                              /\ Before(w, Len(s) + i) = s \o Before(t, i)
                              /\ After(w, Len(s) + i) = After(t, i)

LEMMA PartsOfConcat ==
    ASSUME NEW S, NEW s \in Seq(S), NEW t \in Seq(S)
    PROVE  s \o t \in Seq(S) /\ Joined(s \o t, s, t)
<1> DEFINE m == Len(s)
           n == Len(t)
           w == s \o t
<1>1. /\ w \in Seq(S) /\ Len(w) = m + n /\ m \in Nat /\ n \in Nat
      /\ \A i \in 1 .. m + n : w[i] = IF i <= m THEN s[i] ELSE t[i - m]
  BY ConcatProperties, LenProperties
<1>2. DOMAIN s = 1 .. m /\ DOMAIN t = 1 .. n /\ DOMAIN w = 1 .. m + n
  <2> HIDE DEF w
  <2> QED
    BY <1>1, LenProperties
<1> HIDE DEF m, n, w
<1>3. /\ \A i \in 1 .. m : w[i] = s[i]
      /\ \A i \in 1 .. n : w[m + i] = t[i]
  <2>1. \A i \in 1 .. m : i \in 1 .. m + n /\ i <= m
    BY <1>1
  <2>2. \A i \in 1 .. n : m + i \in 1 .. m + n /\ ~(m + i <= m) /\ m + i - m = i
    BY <1>1
  <2> QED
    BY <1>1, <2>1, <2>2
<1>4. ASSUME NEW i \in 1 .. m
      PROVE  Before(w, i) = Before(s, i) /\ After(w, i) = After(s, i) \o t
  <2>1. i \in 1 .. Len(w) /\ i \in 1 .. Len(s) /\ m = Len(s)
    BY <1>1 DEF m
  <2>2. Before(w, i) = Before(s, i)
    <3>1. /\ Before(w, i) \in Seq(S) /\ Len(Before(w, i)) = i - 1
          /\ \A j \in 1 .. i - 1 : Before(w, i)[j] = w[j]
      BY <1>1, <2>1, BeforeSeq
    <3>2. /\ Before(s, i) \in Seq(S) /\ Len(Before(s, i)) = i - 1
          /\ \A j \in 1 .. i - 1 : Before(s, i)[j] = s[j]
      BY <2>1, BeforeSeq
    <3>3. \A j \in 1 .. i - 1 : w[j] = s[j]
      BY <1>1, <1>3
    <3> QED
      BY <3>1, <3>2, <3>3, SeqEqual
  <2>3. After(w, i) = After(s, i) \o t
    <3>1. PICK a : a = After(s, i)
      OBVIOUS
    <3>2. /\ a \in Seq(S) /\ Len(a) = m - i
          /\ \A j \in 1 .. m - i : a[j] = s[i + j]
      BY <2>1, <3>1, SuffixSeq
    <3>3. /\ After(w, i) \in Seq(S) /\ Len(After(w, i)) = m + n - i
          /\ \A j \in 1 .. m + n - i : After(w, i)[j] = w[i + j]
      <4>1. /\ After(w, i) \in Seq(S) /\ Len(After(w, i)) = Len(w) - i
            /\ \A j \in 1 .. Len(w) - i : After(w, i)[j] = w[i + j]
        <5>1. w \in Seq(S) /\ i \in 1 .. Len(w)
          BY <1>1, <2>1
        <5> QED
          BY <5>1, SuffixSeq, Zenon
      <4> QED
        BY <1>1, <4>1
    <3>4. /\ a \o t \in Seq(S) /\ Len(a \o t) = m - i + n
          /\ \A j \in 1 .. m - i + n : (a \o t)[j] = IF j <= m - i THEN a[j] ELSE t[j - (m - i)]
      <4>1. /\ a \o t \in Seq(S) /\ Len(a \o t) = Len(a) + n
            /\ \A j \in 1 .. Len(a) + n : (a \o t)[j] = IF j <= Len(a) THEN a[j] ELSE t[j - Len(a)]
        BY <3>2, ConcatProperties DEF m, n
      <4> QED
        BY <3>2, <4>1
    <3>5. ASSUME NEW j \in 1 .. m + n - i
          PROVE  After(w, i)[j] = (a \o t)[j]
      <4>1. i + j \in 1 .. m + n /\ j \in 1 .. m - i + n
        BY <1>1
      <4>2. After(w, i)[j] = IF i + j <= m THEN s[i + j] ELSE t[i + j - m]
        BY <1>1, <3>3, <4>1
      <4>3. CASE i + j <= m
        <5>1. j <= m - i /\ j \in 1 .. m - i
          BY <1>1, <4>3
        <5> QED
          BY <3>2, <3>4, <4>1, <4>2, <4>3, <5>1
      <4>4. CASE ~(i + j <= m)
        <5>1. ~(j <= m - i) /\ i + j - m = j - (m - i)
          BY <1>1, <4>4
        <5> QED
          BY <3>4, <4>1, <4>2, <4>4, <5>1
      <4> QED
        BY <4>3, <4>4
    <3>6. m + n - i = m - i + n
      BY <1>1
    <3>7. After(w, i) = a \o t
      BY <3>3, <3>4, <3>5, <3>6, SeqEqual
    <3> QED
      BY <3>1, <3>7
  <2> QED
    BY <2>2, <2>3
<1>5. ASSUME NEW i \in 1 .. n
      PROVE  Before(w, m + i) = s \o Before(t, i) /\ After(w, m + i) = After(t, i)
  <2>1. m + i \in 1 .. Len(w) /\ i \in 1 .. Len(t) /\ n = Len(t)
    BY <1>1 DEF n
  <2>2. Before(w, m + i) = s \o Before(t, i)
    <3>1. PICK b : b = Before(t, i)
      OBVIOUS
    <3>2. /\ b \in Seq(S) /\ Len(b) = i - 1
          /\ \A j \in 1 .. i - 1 : b[j] = t[j]
      BY <2>1, <3>1, BeforeSeq
    <3>3. /\ Before(w, m + i) \in Seq(S) /\ Len(Before(w, m + i)) = m + i - 1
          /\ \A j \in 1 .. m + i - 1 : Before(w, m + i)[j] = w[j]
      BY <1>1, <2>1, BeforeSeq
    <3>4. /\ s \o b \in Seq(S) /\ Len(s \o b) = m + (i - 1)
          /\ \A j \in 1 .. m + (i - 1) : (s \o b)[j] = IF j <= m THEN s[j] ELSE b[j - m]
      <4>1. /\ s \o b \in Seq(S) /\ Len(s \o b) = m + Len(b)
            /\ \A j \in 1 .. m + Len(b) : (s \o b)[j] = IF j <= m THEN s[j] ELSE b[j - m]
        BY <3>2, ConcatProperties DEF m, n
      <4> QED
        BY <3>2, <4>1
    <3>5. ASSUME NEW j \in 1 .. m + i - 1
          PROVE  Before(w, m + i)[j] = (s \o b)[j]
      <4>1. j \in 1 .. m + n /\ j \in 1 .. m + (i - 1)
        BY <1>1
      <4>2. Before(w, m + i)[j] = IF j <= m THEN s[j] ELSE t[j - m]
        BY <1>1, <3>3, <4>1
      <4>3. ~(j <= m) => b[j - m] = t[j - m]
        BY <1>1, <3>2
      <4> QED
        BY <3>4, <4>1, <4>2, <4>3
    <3>6. m + i - 1 = m + (i - 1)
      BY <1>1
    <3>7. Before(w, m + i) = s \o b
      BY <3>3, <3>4, <3>5, <3>6, SeqEqual
    <3> QED
      BY <3>1, <3>7
  <2>3. After(w, m + i) = After(t, i)
    <3>1. /\ After(t, i) \in Seq(S) /\ Len(After(t, i)) = n - i
          /\ \A j \in 1 .. n - i : After(t, i)[j] = t[i + j]
      BY <2>1, SuffixSeq
    <3>2. /\ After(w, m + i) \in Seq(S) /\ Len(After(w, m + i)) = m + n - (m + i)
          /\ \A j \in 1 .. m + n - (m + i) : After(w, m + i)[j] = w[m + i + j]
      <4>1. PICK k : k = m + i
        OBVIOUS
      <4>2. /\ After(w, k) \in Seq(S) /\ Len(After(w, k)) = Len(w) - k
            /\ \A j \in 1 .. Len(w) - k : After(w, k)[j] = w[k + j]
        BY <1>1, <2>1, <4>1, SuffixSeq
      <4> QED
        BY <1>1, <4>1, <4>2
    <3>3. m + n - (m + i) = n - i
      BY <1>1
    <3>4. \A j \in 1 .. n - i : m + i + j = m + (i + j) /\ i + j \in 1 .. n
      BY <1>1
    <3>5. \A j \in 1 .. n - i : After(w, m + i)[j] = After(t, i)[j]
      BY <1>3, <3>1, <3>2, <3>3, <3>4
    <3> QED
      BY <3>1, <3>2, <3>3, <3>5, SeqEqual
  <2> QED
    BY <2>2, <2>3
<1>6. Joined(w, s, t)
  BY <1>1, <1>2, <1>3, <1>4, <1>5 DEF Joined, m, n
<1> QED
  BY <1>1, <1>6 DEF w

LEMMA HeadAndTail ==
    ASSUME NEW S, NEW s \in Seq(S), s # << >>
    PROVE  /\ s = <<Head(s)>> \o Tail(s)
           /\ Head(s) \in S /\ Tail(s) \in Seq(S) /\ <<Head(s)>> \in Seq(S)
           /\ Len(<<Head(s)>>) = 1 /\ <<Head(s)>>[1] = Head(s)
<1>1. Len(s) \in Nat \ {0}
  BY EmptySeq
<1>2. SubSeq(s, 1, Len(s)) = <<s[1]>> \o SubSeq(s, 1 + 1, Len(s))
  <2>1. 1 \in 1 .. Len(s) /\ Len(s) \in 1 .. Len(s)
    BY <1>1
  <2> QED
    BY <2>1, SubSeqRecursiveFirst
<1>3. SubSeq(s, 1, Len(s)) = s /\ Tail(s) = SubSeq(s, 2, Len(s)) /\ Head(s) = s[1] /\ 1 + 1 = 2
  BY SubSeqFull, TailIsSubSeq
<1>4. s = <<Head(s)>> \o Tail(s)
  BY <1>2, <1>3
<1> QED
  BY <1>4, HeadTailProperties

Holds(g, key, s) ==
    g = [n \in 0 .. Len(s) |-> IF n = 0 THEN key ELSE Switch(g[n - 1], s[n])]

(* There is one such function, ...                                         *)
LEMMA HoldsExtends ==
    ASSUME NEW S, NEW s \in Seq(S), NEW f \in S, NEW key, NEW g, Holds(g, key, s),
           NEW h, h = [n \in 0 .. Len(s) + 1 |->
                         IF n <= Len(s) THEN g[n] ELSE Switch(g[Len(s)], f)]
    PROVE  Holds(h, key, Append(s, f))
<1> DEFINE t == Append(s, f)
           m == Len(s)
<1>1. /\ m \in Nat /\ Len(t) = m + 1
      /\ \A i \in 1 .. m : t[i] = s[i]
      /\ t[m + 1] = f
  BY LenProperties, AppendProperties
<1>2. \A n \in 0 .. m : g[n] = IF n = 0 THEN key ELSE Switch(g[n - 1], s[n])
  BY DEF Holds
<1> HIDE DEF t, m
<1>3. \A n \in 0 .. m + 1 : h[n] = IF n <= m THEN g[n] ELSE Switch(g[m], f)
  BY DEF m
<1>4. ASSUME NEW n \in 0 .. m + 1
      PROVE  h[n] = IF n = 0 THEN key ELSE Switch(h[n - 1], t[n])
  <2>1. CASE n = 0
    BY <1>1, <1>2, <1>3, <2>1
  <2>2. CASE n \in 1 .. m
    <3>1. /\ n - 1 \in 0 .. m /\ n # 0 /\ n \in 0 .. m
          /\ n - 1 \in 0 .. m + 1 /\ n - 1 <= m /\ n <= m
      BY <1>1, <2>2
    <3>2. h[n] = g[n] /\ h[n - 1] = g[n - 1]
      BY <1>3, <3>1
    <3>3. t[n] = s[n]
      BY <1>1, <2>2
    <3> QED
      BY <1>2, <3>1, <3>2, <3>3
  <2>3. CASE n = m + 1
    <3>1. m \in 0 .. m + 1 /\ m <= m /\ ~(m + 1 <= m) /\ (m + 1) - 1 = m /\ m + 1 # 0
      BY <1>1
    <3>2. h[m] = g[m]
      BY <1>3, <3>1
    <3>3. h[n] = Switch(g[m], f)
      BY <1>3, <2>3, <3>1
    <3> QED
      BY <1>1, <2>3, <3>1, <3>2, <3>3
  <2> QED
    BY <1>1, <2>1, <2>2, <2>3
<1> DEFINE k == [n \in 0 .. m + 1 |-> IF n = 0 THEN key ELSE Switch(h[n - 1], t[n])]
<1>5. ASSUME NEW n \in 0 .. m + 1
      PROVE  h[n] = k[n]
  <2>1. k[n] = IF n = 0 THEN key ELSE Switch(h[n - 1], t[n])
    OBVIOUS
  <2> HIDE DEF k
  <2> QED
    BY <1>4, <2>1, Zenon
<1>6. h = [n \in 0 .. m + 1 |-> h[n]] /\ k = [n \in 0 .. m + 1 |-> k[n]]
  BY DEF m
<1>7. h = k
  <2> HIDE DEF k
  <2> QED
    BY <1>5, <1>6
<1> QED
  BY <1>1, <1>7 DEF Holds, t

LEMMA HoldsExists ==
    ASSUME NEW S, NEW s \in Seq(S), NEW key
    PROVE  \E g : Holds(g, key, s)
<1> DEFINE T == {t \in Seq(S) : \E g : Holds(g, key, t)}
<1>1. << >> \in T
  <2> DEFINE none == << >>
             g == [n \in 0 .. 0 |-> key]
  <2>1. none \in Seq(S) /\ Len(none) = 0
    BY EmptySeq
  <2> HIDE DEF none
  <2>2. Holds(g, key, none)
    BY <2>1 DEF Holds
  <2> QED
    BY <2>1, <2>2 DEF none
<1>2. ASSUME NEW t \in Seq(S), NEW f \in S, t \in T
      PROVE  Append(t, f) \in T
  <2>1. PICK g : Holds(g, key, t)
    BY <1>2
  <2>2. \E h : Holds(h, key, Append(t, f))
    BY <2>1, HoldsExtends
  <2> QED
    BY <2>2, AppendProperties
<1>3. Seq(S) \subseteq T
  <2> HIDE DEF T
  <2> QED
    BY <1>1, <1>2, SequenceInduction
<1> QED
  BY <1>3

LEMMA HoldsOnce ==
    ASSUME NEW S, NEW s \in Seq(S), NEW key, NEW g, NEW h,
           Holds(g, key, s), Holds(h, key, s), NEW m \in 0 .. Len(s)
    PROVE  g[m] = h[m]
<1> DEFINE T == {n \in Nat : n <= Len(s) => g[n] = h[n]}
<1>1. /\ Len(s) \in Nat
      /\ \A n \in 0 .. Len(s) : g[n] = IF n = 0 THEN key ELSE Switch(g[n - 1], s[n])
      /\ \A n \in 0 .. Len(s) : h[n] = IF n = 0 THEN key ELSE Switch(h[n - 1], s[n])
  BY LenProperties DEF Holds
<1>2. 0 \in T
  BY <1>1
<1>3. ASSUME NEW n \in Nat, n \in T
      PROVE  n + 1 \in T
  <2>1. CASE n + 1 <= Len(s)
    <3>1. n + 1 \in 0 .. Len(s) /\ (n + 1) - 1 = n /\ n + 1 # 0 /\ n <= Len(s)
      BY <1>1, <2>1
    <3>2. g[n] = h[n]
      BY <1>3, <3>1
    <3> QED
      BY <1>1, <3>1, <3>2
  <2>2. CASE ~(n + 1 <= Len(s))
    BY <2>2
  <2> QED
    BY <2>1, <2>2
<1>4. Nat \subseteq T
  <2> HIDE DEF T
  <2> QED
    BY <1>2, <1>3, NumberInduction
<1> QED
  BY <1>1, <1>4

(* ... and Follow is its last value.                                       *)
LEMMA FollowMeans ==
    ASSUME NEW S, NEW s \in Seq(S), NEW key, NEW g, Holds(g, key, s)
    PROVE  Follow(key, s) = g[Len(s)]
<1> DEFINE c == CHOOSE held : Holds(held, key, s)
<1>1. Holds(c, key, s)
  BY HoldsExists
<1>2. Follow(key, s) = c[Len(s)]
  BY DEF Follow, Holds
<1>3. Len(s) \in 0 .. Len(s)
  BY LenProperties
<1> HIDE DEF c
<1> QED
  BY <1>1, <1>2, <1>3, HoldsOnce

LEMMA FollowAppends ==
    ASSUME NEW S, NEW s \in Seq(S), NEW f \in S, NEW key
    PROVE  Follow(key, Append(s, f)) = Switch(Follow(key, s), f)
<1>1. PICK g : Holds(g, key, s)
  BY HoldsExists
<1> DEFINE m == Len(s)
           h == [n \in 0 .. m + 1 |-> IF n <= m THEN g[n] ELSE Switch(g[m], f)]
<1>2. Holds(h, key, Append(s, f))
  <2> DEFINE k == h
  <2>1. k = h
    OBVIOUS
  <2> HIDE DEF k
  <2> QED
    BY <1>1, <2>1, HoldsExtends
<1>3. m \in Nat /\ Len(Append(s, f)) = m + 1 /\ Append(s, f) \in Seq(S)
  BY LenProperties, AppendProperties
<1>4. h[m + 1] = Switch(g[m], f)
  <2> HIDE DEF m
  <2> QED
    BY <1>3
<1> HIDE DEF h
<1>5. Follow(key, Append(s, f)) = h[m + 1]
  BY <1>2, <1>3, FollowMeans
<1>6. Follow(key, s) = g[m]
  BY <1>1, FollowMeans
<1> QED
  BY <1>4, <1>5, <1>6

LEMMA FollowNone == \A key : Follow(key, << >>) = key
<1> DEFINE none == << >>
<1>1. none \in Seq({0}) /\ Len(none) = 0
  BY EmptySeq
<1> HIDE DEF none
<1>2. ASSUME NEW key
      PROVE  Follow(key, none) = key
  <2>1. PICK g : Holds(g, key, none)
    BY <1>1, HoldsExists
  <2>2. g[0] = key
    BY <1>1, <2>1 DEF Holds
  <2> QED
    BY <1>1, <2>1, <2>2, FollowMeans
<1> QED
  BY <1>2 DEF none

LEMMA FollowConcats ==
    ASSUME NEW S, NEW s \in Seq(S), NEW t \in Seq(S), NEW key
    PROVE  Follow(key, s \o t) = Follow(Follow(key, s), t)
<1> DEFINE T == {u \in Seq(S) : Follow(key, s \o u) = Follow(Follow(key, s), u)}
<1>1. << >> \in T
  BY EmptySeq, FollowNone, ConcatEmptySeq
<1>2. ASSUME NEW u \in Seq(S), NEW f \in S, u \in T
      PROVE  Append(u, f) \in T
  <2>1. s \o u \in Seq(S) /\ s \o Append(u, f) = Append(s \o u, f)
    <3> DEFINE one == <<f>>
    <3>1. one \in Seq(S) /\ s \o u \in Seq(S)
      BY ConcatProperties
    <3>2. Append(u, f) = u \o one /\ Append(s \o u, f) = (s \o u) \o one
      BY <3>1, AppendIsConcat
    <3> HIDE DEF one
    <3> QED
      BY <3>1, <3>2, ConcatAssociative
  <2>2. /\ Follow(key, Append(s \o u, f)) = Switch(Follow(key, s \o u), f)
        /\ Follow(Follow(key, s), Append(u, f)) = Switch(Follow(Follow(key, s), u), f)
    BY <2>1, FollowAppends
  <2> QED
    BY <1>2, <2>1, <2>2, AppendProperties
<1>3. Seq(S) \subseteq T
  <2> HIDE DEF T
  <2> QED
    BY <1>1, <1>2, SequenceInduction
<1> QED
  BY <1>3

LEMMA FollowOne ==
    ASSUME NEW S, NEW f \in S, NEW key
    PROVE  Follow(key, <<f>>) = Switch(key, f)
<1>1. << >> \in Seq(S) /\ Append(<< >>, f) = <<f>>
  BY EmptySeq
<1> QED
  BY <1>1, FollowAppends, FollowNone

(* No rotation from key: it is kept.                                       *)
LEMMA FollowKeeps ==
    ASSUME NEW S, NEW key, \A f \in S : Switch(key, f) = key, NEW s \in Seq(S)
    PROVE  Follow(key, s) = key
<1> DEFINE T == {u \in Seq(S) : Follow(key, u) = key}
<1>1. << >> \in T
  BY EmptySeq, FollowNone
<1>2. ASSUME NEW u \in Seq(S), NEW f \in S, u \in T
      PROVE  Append(u, f) \in T
  BY <1>2, FollowAppends, AppendProperties
<1>3. Seq(S) \subseteq T
  <2> HIDE DEF T
  <2> QED
    BY <1>1, <1>2, SequenceInduction
<1> QED
  BY <1>3

-----------------------------------------------------------------------------
(* Frames that come in the order of the keys they are sealed with.         *)

Posted(f) == f.cmd \in {"ROOM.MESSAGE", "ROOM.MESSAGE.KEY.ROTATE"}
Rotation(f) == f.cmd = "ROOM.MESSAGE.KEY.ROTATE"
Answer(f) == f.cmd = "ROOM.INVITE.VERIFICATION_RESPONSE"

Sealed ==
    {f \in Frames :
        /\ Posted(f) => f \in Posts
        /\ Rotation(f) => f.body.content = RoomKey(f.body.seal.by, f.body.seal.n + 1)
        /\ Answer(f) => f.room \in Rooms /\ f.body \in Seals /\ f.body.content \in RoomKeys}

(* Who reads f holding key has not missed what f is sealed with, and an    *)
(* owner who sent it held key itself.                                      *)
Fits(key, f, own) ==
    /\ Posted(f) => f.body.seal.n <= key.n
    /\ own => /\ Rotation(f) => f.body.seal = key
              /\ Answer(f) => f.body.content = key

(* s leads from key to last, each frame read at its time.                  *)
Leads(key, s, last, own) ==
    /\ Follow(key, s) = last
    /\ \A i \in DOMAIN s : Fits(Follow(key, Before(s, i)), s[i], own)

(* An answer in s leads there as well.                                     *)
Hands(s, last) ==
    \A i \in DOMAIN s : Answer(s[i]) => Leads(s[i].body.content, After(s, i), last, FALSE)

LEMMA LeadsConcat ==
    ASSUME NEW S, NEW s \in Seq(S), NEW t \in Seq(S), NEW a, NEW c, NEW own
    PROVE  Leads(a, s \o t, c, own) <=>
              Leads(a, s, Follow(a, s), own) /\ Leads(Follow(a, s), t, c, own)
<1> DEFINE w == s \o t
           m == Len(s)
           n == Len(t)
           b == Follow(a, s)
<1>1. /\ m \in Nat /\ n \in Nat
      /\ DOMAIN s = 1 .. m /\ DOMAIN t = 1 .. n /\ DOMAIN w = 1 .. m + n
      /\ \A i \in 1 .. m : w[i] = s[i] /\ Before(w, i) = Before(s, i)
      /\ \A i \in 1 .. n : w[m + i] = t[i] /\ Before(w, m + i) = s \o Before(t, i)
  <2>1. Joined(w, s, t)
    BY PartsOfConcat
  <2> HIDE DEF w
  <2> QED
    BY <2>1 DEF Joined
<1>2. Follow(a, w) = Follow(b, t)
  BY FollowConcats
<1>3. \A i \in 1 .. n : Before(t, i) \in Seq(S)
  BY BeforeSeq
<1>4. ASSUME NEW i \in 1 .. n
      PROVE  Follow(a, Before(w, m + i)) = Follow(b, Before(t, i))
  <2>1. PICK u \in Seq(S) : u = Before(t, i)
    BY <1>3
  <2>2. Follow(a, s \o u) = Follow(b, u)
    BY FollowConcats
  <2> QED
    BY <1>1, <2>1, <2>2
<1> HIDE DEF w, m, n, b
<1>5. ASSUME Leads(a, w, c, own)
      PROVE  Leads(a, s, b, own) /\ Leads(b, t, c, own)
  <2>1. ASSUME NEW i \in 1 .. m
        PROVE  Fits(Follow(a, Before(s, i)), s[i], own)
    <3>1. i \in 1 .. m + n
      BY <1>1
    <3>2. Fits(Follow(a, Before(w, i)), w[i], own)
      BY <1>1, <1>5, <3>1 DEF Leads
    <3> QED
      BY <1>1, <3>2
  <2>2. ASSUME NEW i \in 1 .. n
        PROVE  Fits(Follow(b, Before(t, i)), t[i], own)
    <3>1. m + i \in 1 .. m + n
      BY <1>1
    <3>2. Fits(Follow(a, Before(w, m + i)), w[m + i], own)
      BY <1>1, <1>5, <3>1 DEF Leads
    <3> QED
      BY <1>1, <1>4, <3>2
  <2> QED
    BY <1>1, <1>2, <1>5, <2>1, <2>2 DEF Leads, b
<1>6. ASSUME Leads(a, s, b, own), Leads(b, t, c, own)
      PROVE  Leads(a, w, c, own)
  <2>1. ASSUME NEW i \in 1 .. m + n
        PROVE  Fits(Follow(a, Before(w, i)), w[i], own)
    <3>1. CASE i \in 1 .. m
      BY <1>1, <1>6, <3>1 DEF Leads
    <3>2. CASE i \notin 1 .. m
      <4>1. PICK j : j = i - m
        OBVIOUS
      <4>2. j \in 1 .. n /\ i = m + j
        BY <1>1, <3>2, <4>1
      <4>3. Fits(Follow(b, Before(t, j)), t[j], own)
        BY <1>1, <1>6, <4>2 DEF Leads
      <4> QED
        BY <1>1, <1>4, <4>2, <4>3
    <3> QED
      BY <3>1, <3>2
  <2> QED
    BY <1>1, <1>2, <1>6, <2>1 DEF Leads
<1> QED
  BY <1>5, <1>6 DEF w, b

LEMMA LeadsNone == \A key, own : Leads(key, << >>, key, own)
<1>1. Len(<< >>) = 0 /\ DOMAIN << >> = {}
  OBVIOUS
<1> QED
  BY <1>1, FollowNone DEF Leads

LEMMA LeadsOne ==
    ASSUME NEW S, NEW f \in S, NEW key, NEW last, NEW own
    PROVE  Leads(key, <<f>>, last, own) <=> Switch(key, f) = last /\ Fits(key, f, own)
<1> DEFINE one == <<f>>
<1>1. one \in Seq(S) /\ DOMAIN one = {1} /\ one[1] = f
  OBVIOUS
<1>2. Follow(key, one) = Switch(key, f)
  BY FollowOne
<1>3. Before(one, 1) = << >>
  <2>1. 1 \in Int /\ 1 - 1 \in Int /\ 1 - 1 < 1
    OBVIOUS
  <2> QED
    BY <2>1, SubSeqEmpty DEF Before
<1> HIDE DEF one
<1>4. Leads(key, one, last, own) <=> Switch(key, f) = last /\ Fits(key, f, own)
  BY <1>1, <1>2, <1>3, FollowNone DEF Leads
<1> QED
  BY <1>4 DEF one

(* The first frame read, the rest leads on.                                *)
LEMMA LeadsOn ==
    ASSUME NEW S, NEW s \in Seq(S), s # << >>, NEW a, NEW c, NEW own
    PROVE  Leads(a, s, c, own) <=>
              Fits(a, Head(s), own) /\ Leads(Switch(a, Head(s)), Tail(s), c, own)
<1>1. PICK f \in S, t \in Seq(S), u \in Seq(S) :
         f = Head(s) /\ t = Tail(s) /\ s = u \o t /\ u = <<f>>
  BY HeadAndTail
<1>2. Follow(a, u) = Switch(a, f)
  BY <1>1, FollowOne
<1>3. Leads(a, s, c, own) <=> Leads(a, u, Follow(a, u), own) /\ Leads(Follow(a, u), t, c, own)
  <2>1. Leads(a, u \o t, c, own)
        <=> Leads(a, u, Follow(a, u), own) /\ Leads(Follow(a, u), t, c, own)
    BY LeadsConcat
  <2> QED
    BY <1>1, <2>1
<1>4. Leads(a, u, Follow(a, u), own) <=> Fits(a, f, own)
  BY <1>1, <1>2, LeadsOne
<1> QED
  BY <1>1, <1>2, <1>3, <1>4

LEMMA LeadsFurther ==
    ASSUME NEW S, NEW s \in Seq(S), NEW t \in Seq(S), NEW a, NEW b, NEW c, NEW own,
           Leads(a, s, b, own), Leads(b, t, c, own)
    PROVE  Leads(a, s \o t, c, own)
<1>1. Follow(a, s) = b
  BY DEF Leads
<1> QED
  BY <1>1, LeadsConcat

(* Frames that change nothing for who holds key lead back to it.           *)
LEMMA LeadsBack ==
    ASSUME NEW S, NEW key, NEW own,
           \A f \in S : Switch(key, f) = key /\ Fits(key, f, own),
           NEW s \in Seq(S)
    PROVE  Leads(key, s, key, own)
<1>1. Follow(key, s) = key
  BY FollowKeeps
<1>2. ASSUME NEW i \in DOMAIN s
      PROVE  Fits(Follow(key, Before(s, i)), s[i], own)
  <2>1. i \in 1 .. Len(s)
    BY LenProperties
  <2>2. s[i] \in S /\ Before(s, i) \in Seq(S)
    BY <2>1, ElementOfSeq, BeforeSeq
  <2>3. Follow(key, Before(s, i)) = key
    BY <2>2, FollowKeeps
  <2> QED
    BY <2>2, <2>3
<1> QED
  BY <1>1, <1>2 DEF Leads

LEMMA SwitchBounds ==
    ASSUME NEW f \in Sealed, NEW key \in RoomKeys
    PROVE  /\ Switch(key, f) \in RoomKeys
           /\ Switch(key, f).by = key.by
           /\ Switch(key, f).n >= key.n
<1>1. CASE Rotation(f) /\ f.body.seal = key
  <2>1. Switch(key, f) = RoomKey(key.by, key.n + 1)
    BY <1>1 DEF Switch, Rotation, Sealed
  <2> QED
    BY <2>1 DEF RoomKey, RoomKeys
<1>2. CASE ~(Rotation(f) /\ f.body.seal = key)
  BY <1>2 DEF Switch, Rotation, RoomKeys
<1> QED
  BY <1>1, <1>2

LEMMA FollowBounds ==
    ASSUME NEW s \in Seq(Sealed), NEW key \in RoomKeys
    PROVE  /\ Follow(key, s) \in RoomKeys
           /\ Follow(key, s).by = key.by
           /\ Follow(key, s).n >= key.n
<1> DEFINE Good(l) == l \in RoomKeys /\ l.by = key.by /\ l.n >= key.n
           T == {u \in Seq(Sealed) : Good(Follow(key, u))}
<1>1. << >> \in T
  <2>1. Good(key)
    BY DEF RoomKeys
  <2> QED
    BY <2>1, EmptySeq, FollowNone
<1>2. ASSUME NEW u \in Seq(Sealed), NEW f \in Sealed, u \in T
      PROVE  Append(u, f) \in T
  <2>1. PICK l : l = Follow(key, u)
    OBVIOUS
  <2>2. l \in RoomKeys /\ l.by = key.by /\ l.n >= key.n
    BY <1>2, <2>1
  <2>3. PICK m : m = Switch(l, f)
    OBVIOUS
  <2>4. m \in RoomKeys /\ m.by = l.by /\ m.n >= l.n
    BY <2>2, <2>3, SwitchBounds
  <2>5. Good(m)
    BY <2>2, <2>4 DEF RoomKeys
  <2>6. Follow(key, Append(u, f)) = m
    BY <2>1, <2>3, FollowAppends
  <2> QED
    BY <2>5, <2>6, AppendProperties
<1>3. Seq(Sealed) \subseteq T
  <2> HIDE DEF T
  <2> QED
    BY <1>1, <1>2, SequenceInduction
<1> QED
  BY <1>3

LEMMA HandsConcat ==
    ASSUME NEW S, NEW s \in Seq(S), NEW t \in Seq(S), NEW a, NEW b,
           Hands(s, a), Leads(a, t, b, FALSE), Hands(t, b)
    PROVE  Hands(s \o t, b)
<1> DEFINE w == s \o t
           m == Len(s)
           n == Len(t)
<1>1. /\ m \in Nat /\ n \in Nat
      /\ DOMAIN s = 1 .. m /\ DOMAIN t = 1 .. n /\ DOMAIN w = 1 .. m + n
      /\ \A i \in 1 .. m : w[i] = s[i] /\ After(w, i) = After(s, i) \o t
      /\ \A i \in 1 .. n : w[m + i] = t[i] /\ After(w, m + i) = After(t, i)
  <2>1. Joined(w, s, t)
    BY PartsOfConcat
  <2> HIDE DEF w
  <2> QED
    BY <2>1 DEF Joined
<1>2. \A i \in 1 .. m : After(s, i) \in Seq(S)
  BY SuffixSeq
<1> HIDE DEF w, m, n
<1>3. ASSUME NEW i \in 1 .. m + n, Answer(w[i])
      PROVE  Leads(w[i].body.content, After(w, i), b, FALSE)
  <2>1. CASE i \in 1 .. m
    <3>1. Leads(s[i].body.content, After(s, i), a, FALSE) /\ After(s, i) \in Seq(S)
      BY <1>1, <1>2, <1>3, <2>1 DEF Hands
    <3>2. Leads(s[i].body.content, After(s, i) \o t, b, FALSE)
      BY <3>1, LeadsFurther
    <3> QED
      BY <1>1, <2>1, <3>2
  <2>2. CASE i \notin 1 .. m
    <3>1. PICK j : j = i - m
      OBVIOUS
    <3>2. j \in 1 .. n /\ i = m + j
      BY <1>1, <2>2, <3>1
    <3> QED
      BY <1>1, <1>3, <3>2 DEF Hands
  <2> QED
    BY <2>1, <2>2
<1>4. Hands(w, b)
  BY <1>1, <1>3 DEF Hands
<1> QED
  BY <1>4 DEF w

LEMMA HandsTail ==
    ASSUME NEW S, NEW s \in Seq(S), s # << >>, NEW b, Hands(s, b)
    PROVE  /\ Hands(Tail(s), b)
           /\ Answer(Head(s)) => Leads(Head(s).body.content, Tail(s), b, FALSE)
<1>1. PICK f \in S, t \in Seq(S), u \in Seq(S) :
         f = Head(s) /\ t = Tail(s) /\ s = u \o t /\ u = <<f>> /\ Len(u) = 1 /\ u[1] = f
  BY HeadAndTail
<1> DEFINE n == Len(t)
<1>2. /\ n \in Nat /\ DOMAIN t = 1 .. n /\ DOMAIN s = 1 .. 1 + n
      /\ s[1] = f /\ After(s, 1) = After(u, 1) \o t
      /\ \A i \in 1 .. n : s[1 + i] = t[i] /\ After(s, 1 + i) = After(t, i)
  <2>1. Joined(u \o t, u, t)
    BY PartsOfConcat
  <2>2. Joined(s, u, t) /\ Len(u) = 1 /\ u[1] = f
    BY <1>1, <2>1, Zenon
  <2>3. 1 \in 1 .. 1
    OBVIOUS
  <2> QED
    BY <2>2, <2>3 DEF Joined
<1>3. After(u, 1) = << >>
  <2>1. 1 + 1 \in Int /\ 1 \in Int /\ 1 < 1 + 1
    OBVIOUS
  <2> QED
    BY <1>1, <2>1, SubSeqEmpty DEF After
<1>4. After(s, 1) = t
  BY <1>1, <1>2, <1>3, ConcatEmptySeq
<1>5. Answer(f) => Leads(f.body.content, t, b, FALSE)
  <2>1. 1 \in DOMAIN s
    BY <1>2
  <2>2. Answer(s[1]) => Leads(s[1].body.content, After(s, 1), b, FALSE)
    BY <2>1 DEF Hands
  <2> QED
    BY <1>2, <1>4, <2>2
<1>6. ASSUME NEW i \in 1 .. n, Answer(t[i])
      PROVE  Leads(t[i].body.content, After(t, i), b, FALSE)
  <2>1. 1 + i \in 1 .. 1 + n
    BY <1>2
  <2> QED
    BY <1>2, <1>6, <2>1 DEF Hands
<1>7. Hands(t, b)
  BY <1>2, <1>6 DEF Hands
<1> QED
  BY <1>1, <1>5, <1>7

(* Without an answer in it nothing is handed over.                         *)
LEMMA HandsNothing ==
    ASSUME NEW S, \A f \in S : ~Answer(f), NEW s \in Seq(S), NEW b
    PROVE  Hands(s, b)
<1>1. \A i \in DOMAIN s : s[i] \in S
  BY LenProperties, ElementOfSeq
<1> QED
  BY <1>1 DEF Hands

LEMMA HandsOne ==
    ASSUME NEW S, NEW f \in S, NEW b, Answer(f) => f.body.content = b
    PROVE  Hands(<<f>>, b)
<1> DEFINE one == <<f>>
<1>1. one \in Seq(S) /\ DOMAIN one = {1} /\ one[1] = f /\ Len(one) = 1
  OBVIOUS
<1>2. After(one, 1) = << >>
  <2>1. 1 + 1 \in Int /\ 1 \in Int /\ 1 < 1 + 1
    OBVIOUS
  <2> QED
    BY <1>1, <2>1, SubSeqEmpty DEF After
<1> HIDE DEF one
<1>3. Hands(one, b)
  BY <1>1, <1>2, LeadsNone DEF Hands
<1> QED
  BY <1>3 DEF one

-----------------------------------------------------------------------------
(* Without leavers a key pair connects once: the client of key k is at the *)
(* end of the one connection that speaks for k, or gone for good.          *)

SpeaksFor(c, w) ==
    \/ pubKey[c] = w
    \/ pubKey[c] = NoKey /\ up[c] # << >> /\ Head(up[c]) = PublicKey(w)

OnceOK(k) ==
    /\ stage[k] = "absent" => draws[k] = 0
    /\ stage[k] = "crashed" => saved[k] = NoData
    /\ \A c \in Conns : SpeaksFor(c, k) =>
          draws[k] # 0 /\ (conn[k] = c \/ (conn[k] = NoConn /\ link[c] # "open"))
    /\ conn[k] # NoConn /\ pubKey[conn[k]] = k => online[k] = conn[k]
    /\ \A r \in Rooms : k \in users[r] =>
          draws[k] # 0 /\ (conn[k] # NoConn => pubKey[conn[k]] = k)

Once == \A k \in Keys : OnceOK(k)

LEMMA PublicKeyOfOne == \A k, l : PublicKey(k) = PublicKey(l) => k = l
<1>1. \A k : PublicKey(k).key = k
  BY DEF PublicKey, Frame
<1> QED
  BY <1>1

LEMMA SpokenIsSpeaking ==
    ASSUME NEW c, NEW w, SpokenBy(c, w)
    PROVE  SpeaksFor(c, w)
  BY DEF SpokenBy, SpeaksFor

(* What the server does with a request, whichever it is: it learns who     *)
(* speaks from PUBKEY only, and lets in who asks or whom it has online.    *)
LEMMA RequestEffect ==
    ASSUME Inv, NEW c \in Conns, up[c] # << >>, Handle(c, Head(up[c]))
    PROVE  /\ link' = link /\ TakeUp(c)
           /\ \A r \in Rooms : \A k \in users'[r] :
                 k \in users[r] \/ (k = pubKey[c] /\ k # NoKey) \/ online[k] # NoConn
           /\ \/ pubKey[c] # NoKey /\ pubKey' = pubKey /\ online' = online
              \/ \E w \in Keys :
                    /\ pubKey[c] = NoKey /\ SpokenBy(c, w) /\ Head(up[c]) = PublicKey(w)
                    /\ pubKey' = [pubKey EXCEPT ![c] = w]
                    /\ online' = [online EXCEPT ![w] = c]
                    /\ users' = users
<1>0. PICK f : f = Head(up[c])
  OBVIOUS
<1>1. link' = link /\ TakeUp(c)
  BY <1>0 DEF Handle, HandleNewRoom, HandleInvite, DeclineInvite, HandleInviteResponse,
     DropInviteResponse, HandleOpenRoom, HandleMessage, RefuseMessage, HandleKeyRotate,
     RefuseKeyRotate, HandlePublicKey, KeyedRequest, Request
<1>2. CASE HandlePublicKey(c, f)
  <2>1. /\ f.cmd = "PUBKEY" /\ pubKey' = [pubKey EXCEPT ![c] = f.key]
        /\ online' = [online EXCEPT ![f.key] = c] /\ users' = users
    BY <1>2 DEF HandlePublicKey, Request
  <2>2. pubKey[c] = NoKey
    BY <1>0, <2>1, RequestIsKnown, KnownRequests
  <2>3. PICK w \in Keys : SpokenBy(c, w) /\ f = PublicKey(w)
    BY <1>0, <2>2, RequestIsKnown
  <2>4. f.key = w
    BY <2>3 DEF PublicKey, Frame
  <2> QED
    BY <1>0, <1>1, <2>1, <2>2, <2>3, <2>4
<1>3. CASE \E r \in Rooms : HandleNewRoom(c, f, r)
  <2>1. PICK r \in Rooms : /\ users' = [users EXCEPT ![r] = {pubKey[c]}] /\ pubKey[c] # NoKey
                           /\ pubKey' = pubKey /\ online' = online
    BY <1>3 DEF HandleNewRoom, KeyedRequest
  <2>2. \A q \in Rooms : \A k \in users'[q] : k \in users[q] \/ (k = pubKey[c] /\ k # NoKey)
    BY <2>1 DEF Inv, ServerTypes
  <2> QED
    BY <1>1, <2>1, <2>2
<1>4. CASE HandleInviteResponse(c, f)
  <2>1. /\ users' = [users EXCEPT ![f.room] = @ \cup {f.key}] /\ pubKey[c] # NoKey
        /\ pubKey' = pubKey /\ online' = online /\ online[f.key] # NoConn
    BY <1>4 DEF HandleInviteResponse, ResponseIsValid, KeyedRequest
  <2>2. \A q \in Rooms : \A k \in users'[q] : k \in users[q] \/ online[k] # NoConn
    BY <2>1 DEF Inv, ServerTypes
  <2> QED
    BY <1>1, <2>1, <2>2
<1>5. CASE \/ HandleInvite(c, f) \/ DeclineInvite(c, f) \/ DropInviteResponse(c, f)
           \/ HandleOpenRoom(c, f) \/ HandleMessage(c, f) \/ RefuseMessage(c, f)
           \/ HandleKeyRotate(c, f) \/ RefuseKeyRotate(c, f)
  <2>1. pubKey[c] # NoKey /\ pubKey' = pubKey /\ online' = online /\ users' = users
    BY <1>5 DEF HandleInvite, DeclineInvite, DropInviteResponse, HandleOpenRoom, HandleMessage,
       RefuseMessage, HandleKeyRotate, RefuseKeyRotate, Refuse, KeyedRequest, serverVars
  <2> QED
    BY <1>1, <2>1
<1> QED
  BY <1>0, <1>2, <1>3, <1>4, <1>5 DEF Handle

LEMMA ServeKeepsOnce ==
    ASSUME Inv, Once, NEW c \in Conns, Serve(c)
    PROVE  Once'
<1>1. /\ UNCHANGED <<stage, conn, saved, draws>> /\ ServerTypes /\ ServerOK
  BY DEF Serve, roomVars, Inv
<1> SUFFICES ASSUME NEW k \in Keys
             PROVE  OnceOK(k)'
  BY DEF Once
<1>2. /\ OnceOK(k) /\ k # NoKey
      /\ conn[k] # NoConn => conn[k] \in Conns /\ link[conn[k]] = "open" /\ SpeaksFor(conn[k], k)
  BY WhoIsThere, SpokenIsSpeaking, NullsOK DEF Once
<1>3. CASE HandleClose(c)
  <2>1. /\ link[c] = "closed" /\ up[c] = << >>
        /\ link' = [link EXCEPT ![c] = "free"] /\ UNCHANGED <<up, users>>
        /\ online' = [l \in Keys |-> IF l = pubKey[c] THEN NoConn ELSE online[l]]
        /\ pubKey' = [pubKey EXCEPT ![c] = NoKey]
    BY <1>3 DEF HandleClose, FreeLink, Closing
  <2>2. conn[k] # c
    BY <1>2, <2>1, NullsOK
  <2>3. ASSUME NEW x \in Conns, SpeaksFor(x, k)'
        PROVE  SpeaksFor(x, k) /\ x # c
    BY <1>1, <1>2, <2>1, <2>3 DEF SpeaksFor, ServerTypes
  <2>4. \A x \in Conns : x # c => link'[x] = link[x] /\ pubKey'[x] = pubKey[x]
    BY <1>1, <2>1 DEF ServerTypes
  <2>5. conn[k] # NoConn /\ pubKey[conn[k]] = k => online'[k] = conn[k]
    <3>1. SUFFICES ASSUME conn[k] # NoConn, pubKey[conn[k]] = k, k = pubKey[c]
                   PROVE  FALSE
      BY <1>2, <2>1 DEF OnceOK
    <3>2. SpeaksFor(c, k)
      BY <3>1 DEF SpeaksFor
    <3> QED
      BY <1>2, <2>2, <3>1, <3>2 DEF OnceOK
  <2> QED
    BY <1>1, <1>2, <2>1, <2>2, <2>3, <2>4, <2>5 DEF OnceOK
<1>4. CASE up[c] # << >> /\ Handle(c, Head(up[c]))
  <2>1. /\ link' = link /\ TakeUp(c)
        /\ \A r \in Rooms : k \in users'[r] =>
              k \in users[r] \/ k = pubKey[c] \/ online[k] # NoConn
    BY <1>2, <1>4, RequestEffect
  <2>2. \A x \in Conns : x # c => up'[x] = up[x]
    BY <1>1, <2>1 DEF TakeUp, ServerTypes
  <2>3. ASSUME NEW x \in Conns, pubKey[x] = k
        PROVE  /\ draws[k] # 0
               /\ conn[k] # NoConn => conn[k] = x
    BY <1>2, <2>3 DEF OnceOK, SpeaksFor
  <2>4. online[k] # NoConn => online[k] \in Conns /\ pubKey[online[k]] = k
    BY <1>1 DEF ServerOK, ServerTypes
  <2>5. CASE pubKey[c] # NoKey /\ pubKey' = pubKey /\ online' = online
    <3>1. \A x \in Conns : SpeaksFor(x, k)' => SpeaksFor(x, k)
      BY <2>2, <2>5 DEF SpeaksFor
    <3>2. ASSUME NEW r \in Rooms, k \in users'[r]
          PROVE  draws[k] # 0 /\ (conn[k] # NoConn => pubKey[conn[k]] = k)
      BY <1>2, <2>1, <2>3, <2>4, <3>2 DEF OnceOK
    <3> QED
      BY <1>1, <1>2, <2>1, <2>5, <3>1, <3>2 DEF OnceOK
  <2>6. ASSUME NEW w \in Keys,
               pubKey[c] = NoKey, SpokenBy(c, w), Head(up[c]) = PublicKey(w),
               pubKey' = [pubKey EXCEPT ![c] = w], online' = [online EXCEPT ![w] = c],
               users' = users
        PROVE  OnceOK(k)'
    <3>1. /\ pubKey'[c] = w /\ (\A x \in Conns : x # c => pubKey'[x] = pubKey[x])
          /\ online'[w] = c /\ (k # w => online'[k] = online[k]) /\ w # NoKey
      BY <1>1, <2>6, NullsOK DEF ServerTypes
    <3>2. SpeaksFor(c, w)
      BY <2>6, SpokenIsSpeaking
    <3>3. \A x \in Conns : SpeaksFor(x, k)' => SpeaksFor(x, k)
      BY <2>2, <3>1, <3>2 DEF SpeaksFor
    <3>4. conn[k] # NoConn /\ pubKey'[conn[k]] = k => online'[k] = conn[k]
      <4>1. SUFFICES ASSUME conn[k] # NoConn, pubKey'[conn[k]] = k
                     PROVE  online'[k] = conn[k]
        OBVIOUS
      <4>2. CASE k = w
        <5>1. conn[k] = c
          BY <1>2, <3>2, <4>1, <4>2 DEF OnceOK
        <5> QED
          BY <3>1, <4>2, <5>1
      <4>3. CASE k # w
        BY <1>2, <3>1, <4>1, <4>3 DEF OnceOK
      <4> QED
        BY <4>2, <4>3
    <3>5. ASSUME NEW r \in Rooms, k \in users[r], conn[k] # NoConn
          PROVE  pubKey'[conn[k]] = k
      BY <1>2, <2>6, <3>1, <3>5 DEF OnceOK
    <3> QED
      BY <1>1, <1>2, <2>1, <2>6, <3>3, <3>4, <3>5 DEF OnceOK
  <2> QED
    BY <1>4, <2>5, <2>6, RequestEffect
<1> QED
  BY <1>3, <1>4 DEF Serve, ServerStep

(* The client's end: where nothing connects or goes, who speaks stays.     *)
LEMMA TalkKeepsOnce ==
    ASSUME Inv, Once, NEW k \in Keys, UNCHANGED <<link, conn, serverVars>>,
           \A l \in Keys : draws[l] # 0 => draws'[l] # 0,
           \A l \in Keys : stage'[l] = "absent" => stage[l] = "absent" /\ draws'[l] = draws[l],
           \A l \in Keys : stage'[l] = "crashed" =>
               stage[l] = "crashed" /\ (saved'[l] = saved[l] \/ saved'[l] = NoData),
           up' = up \/ \E g : Submit(conn[k], g)
    PROVE  Once'
<1>1. pubKey' = pubKey /\ online' = online /\ users' = users
  BY DEF serverVars
<1>2. ASSUME NEW x \in Conns, NEW l \in Keys, SpeaksFor(x, l)'
      PROVE  SpeaksFor(x, l)
  <2>1. CASE up'[x] = up[x]
    BY <1>1, <1>2, <2>1 DEF SpeaksFor
  <2>2. CASE up'[x] # up[x]
    <3>1. PICK g : Submit(conn[k], g)
      BY <2>2
    <3>2. conn[k] = x /\ conn[k] # NoConn /\ up'[x] = Append(up[x], g)
      BY <2>2, <3>1, WhoIsThere DEF Submit, Inv, ServerTypes
    <3>3. SpokenBy(x, k) /\ up[x] \in Seq(Frames)
      BY <3>2, WhoIsThere DEF Inv, ServerTypes
    <3>4. pubKey[x] = NoKey => up[x] # << >>
      BY <3>3, RequestsType DEF Inv
    <3>5. pubKey[x] = NoKey => Head(up'[x]) = Head(up[x])
      BY <3>2, <3>3, <3>4, HeadTailAppend
    <3> QED
      BY <1>1, <1>2, <3>4, <3>5 DEF SpeaksFor
  <2> QED
    BY <2>1, <2>2
<1>3. ASSUME NEW l \in Keys
      PROVE  OnceOK(l)'
  <2>1. OnceOK(l)
    BY DEF Once
  <2> QED
    BY <1>1, <1>2, <2>1 DEF OnceOK
<1> QED
  BY <1>3 DEF Once

(* Who connects has drawn its first key just now and was heard of nowhere. *)
LEMMA ConstructKeepsOnce ==
    ASSUME Inv, Once, NEW k \in Keys, NEW c \in Conns, NEW d, NEW ciph, NEW first,
           Construct(k, c, d, ciph, first), FreshPair(k)
    PROVE  Once'
<1>1. /\ TypeOK /\ ServerTypes /\ ServerOK /\ draws[k] = 0 /\ ClientOK(k) /\ LinkOK(c)
      /\ draws' = [draws EXCEPT ![k] = 1]
      /\ link[c] = "free" /\ link' = [link EXCEPT ![c] = "open"]
      /\ up' = [up EXCEPT ![c] = <<PublicKey(k), first>>]
      /\ stage' = [stage EXCEPT ![k] = "waiting"] /\ conn' = [conn EXCEPT ![k] = c]
      /\ UNCHANGED <<saved, users, online, pubKey>>
  BY DEF Construct, OpenLink, FreshPair, serverVars, Inv
<1>2. pubKey[c] = NoKey /\ up[c] = << >>
  BY <1>1 DEF LinkOK
<1>3. PICK u : u = <<PublicKey(k), first>>
  OBVIOUS
<1>4. u # << >> /\ Head(u) = PublicKey(k) /\ up'[c] = u
  BY <1>1, <1>3 DEF ServerTypes
<1>5. /\ \A x \in Conns : x # c => link'[x] = link[x] /\ up'[x] = up[x]
      /\ link'[c] = "open" /\ conn'[k] = c /\ draws'[k] = 1 /\ stage'[k] = "waiting"
      /\ \A l \in Keys : l # k => /\ stage'[l] = stage[l] /\ conn'[l] = conn[l]
                                  /\ draws'[l] = draws[l]
  BY <1>1 DEF ServerTypes, TypeOK
<1>6. ASSUME NEW l \in Keys, NEW x \in Conns, SpeaksFor(x, l)'
      PROVE  IF x = c THEN l = k ELSE SpeaksFor(x, l)
  <2>1. CASE x = c
    BY <1>1, <1>2, <1>4, <1>6, <2>1, PublicKeyOfOne, NullsOK DEF SpeaksFor
  <2>2. CASE x # c
    BY <1>1, <1>5, <1>6, <2>2 DEF SpeaksFor
  <2> QED
    BY <2>1, <2>2
<1>7. ASSUME NEW l \in Keys
      PROVE  OnceOK(l)'
  <2>1. OnceOK(l) /\ l # NoKey
    BY NullsOK DEF Once
  <2>2. CASE l = k
    <3>1. (\A x \in Conns : ~SpeaksFor(x, k)) /\ (\A r \in Rooms : k \notin users[r])
      BY <1>1, <2>1, <2>2 DEF OnceOK
    <3>2. pubKey'[c] # k
      BY <1>1, <1>2, <2>1, <2>2
    <3>3. \A x \in Conns : SpeaksFor(x, k)' => x = c
      BY <1>6, <3>1
    <3> QED
      BY <1>1, <1>5, <2>2, <3>1, <3>2, <3>3 DEF OnceOK
  <2>3. CASE l # k
    <3>1. ASSUME NEW x \in Conns, SpeaksFor(x, l)'
          PROVE  SpeaksFor(x, l) /\ x # c
      BY <1>6, <2>3, <3>1
    <3>2. \A x \in Conns : x # c => link'[x] = link[x]
      BY <1>5
    <3> QED
      BY <1>1, <1>5, <2>1, <2>3, <3>1, <3>2 DEF OnceOK
  <2> QED
    BY <2>2, <2>3
<1> QED
  BY <1>7 DEF Once

(* Who crashes had nothing in its file to connect with again.              *)
LEMMA CrashKeepsOnce ==
    ASSUME Inv, Once, NEW k \in Keys, NEW f, Takes(k, f), CrashOnFrame(k, f)
    PROVE  Once'
<1>1. saved[k] = NoData
  BY CrashKeepsInv
<1>2. PICK c \in Conns : c = conn[k]
  BY WhoIsThere DEF Takes
<1>3. /\ TypeOK /\ ServerTypes /\ c # NoConn
      /\ link' = [link EXCEPT ![c] = "closed"] /\ up' = [up EXCEPT ![c] = SubSeq(@, 1, Len(@))]
      /\ stage' = [stage EXCEPT ![k] = "crashed"] /\ conn' = [conn EXCEPT ![k] = NoConn]
      /\ UNCHANGED <<saved, draws, users, online, pubKey>>
  BY <1>2 DEF Inv, CrashOnFrame, Forget, Disconnect, serverVars, Takes
<1>4. up' = up
  <2>1. up[c] \in Seq(Frames)
    BY <1>3 DEF ServerTypes
  <2>2. SubSeq(up[c], 1, Len(up[c])) = up[c]
    BY <2>1, SubSeqFull
  <2> QED
    BY <1>3, <2>2 DEF ServerTypes
<1>5. \A x \in Conns : \A l \in Keys : SpeaksFor(x, l)' <=> SpeaksFor(x, l)
  BY <1>3, <1>4 DEF SpeaksFor
<1>6. ASSUME NEW l \in Keys
      PROVE  OnceOK(l)'
  <2>1. OnceOK(l)
    BY DEF Once
  <2>2. /\ link'[c] = "closed" /\ (\A x \in Conns : x # c => link'[x] = link[x])
        /\ stage'[k] = "crashed" /\ conn'[k] = NoConn
        /\ (l # k => stage'[l] = stage[l] /\ conn'[l] = conn[l])
    BY <1>3 DEF ServerTypes, TypeOK
  <2>3. CASE l = k
    BY <1>1, <1>2, <1>3, <1>5, <2>1, <2>2, <2>3 DEF OnceOK
  <2>4. CASE l # k
    BY <1>3, <1>5, <2>1, <2>2, <2>4 DEF OnceOK
  <2> QED
    BY <2>3, <2>4
<1> QED
  BY <1>6 DEF Once

LEMMA RestartKeepsOnce ==
    ASSUME Inv, Once, RestartServer
    PROVE  Once'
<1>1. /\ UNCHANGED <<stage, saved, draws>> /\ conn' = [k \in Keys |-> NoConn]
      /\ up' = [c \in Conns |-> << >>] /\ pubKey' = [c \in Conns |-> NoKey]
      /\ users' = [r \in Rooms |-> {}]
  BY DEF RestartServer, Restart
<1>2. \A c \in Conns : \A k \in Keys : ~SpeaksFor(c, k)'
  BY <1>1, NullsOK DEF SpeaksFor
<1> QED
  BY <1>1, <1>2 DEF Once, OnceOK

(* Nothing stored is ever opened: who has a file open has the room open.   *)
LEMMA NothingReopens ==
    ASSUME Inv, Once, NEW k \in Keys, NEW c \in Conns
    PROVE  ~OpenExisting(k, c)
<1>1. stage[k] \in {"absent", "crashed"} => saved[k] = NoData
  BY DEF Inv, ClientOK, Once, OnceOK
<1> QED
  BY <1>1 DEF OpenExisting, Construct

LEMMA ReceiveKeepsOnce ==
    ASSUME Inv, Once, NEW k \in Keys, OnReceive(k)
    PROVE  Once'
<1>1. PICK f : f = Head(down[conn[k]])
  OBVIOUS
<1>2. Takes(k, f) /\ TypeOK /\ draws[k] # 0 /\ stage[k] \notin {"absent", "crashed"}
  BY <1>1, FrameIsKnown DEF OnReceive, Takes, Inv, ClientOK
<1>3. CASE CrashOnFrame(k, f)
  BY <1>2, <1>3, CrashKeepsOnce
<1>4. CASE ~CrashOnFrame(k, f)
  <2>1. /\ UNCHANGED <<link, conn, serverVars>>
        /\ stage' = stage \/ stage' = [stage EXCEPT ![k] = "open"]
        /\ saved' = saved \/ \E d : saved' = [saved EXCEPT ![k] = d]
        /\ draws' = draws \/ draws' = [draws EXCEPT ![k] = @ + 1]
        /\ up' = up \/ \E g : Submit(conn[k], g)
    BY <1>1, <1>4
       DEF OnReceive, OnRoomCreated, OnRoomOpened, OnRoomNotExist, OnVerificationRequest,
           OnVerificationResponse, OnMessage, RotateKey, CountMessage, OnKeyRotate, OnDeclined,
           Receives, Save, ShowRoom
  <2>2. /\ stage'[k] \in {stage[k], "open"}
        /\ draws'[k] \in {draws[k], draws[k] + 1} /\ draws[k] \in Nat
        /\ \A l \in Keys : l # k =>
              stage'[l] = stage[l] /\ draws'[l] = draws[l] /\ saved'[l] = saved[l]
    BY <1>2, <2>1 DEF TypeOK, Inv, ServerTypes
  <2> QED
    BY <1>2, <2>1, <2>2, TalkKeepsOnce
<1> QED
  BY <1>3, <1>4

LEMMA NextKeepsOnce ==
    ASSUME Leavers = {}, Inv, Once, [Next]_vars
    PROVE  Once'
<1>1. ASSUME NEW k \in Keys, NEW c \in Conns, NewRoomOf(k, c)
      PROVE  Once'
  BY <1>1, ConstructKeepsOnce DEF NewRoomOf
<1>2. ASSUME NEW k \in Keys, NEW c \in Conns, NEW i \in Invites, OpenByInvite(k, c, i)
      PROVE  Once'
  BY <1>2, ConstructKeepsOnce DEF OpenByInvite
<1>3. ASSUME NEW k \in Keys, Leave(k)
      PROVE  FALSE
  BY <1>3 DEF Leave
<1>4. ASSUME NEW k \in Keys, NEW i \in Invites, GenerateInvite(k, i)
      PROVE  Once'
  BY <1>4, TalkKeepsOnce DEF GenerateInvite, wireVars
<1>5. ASSUME NEW k \in Keys, NEW t \in Texts, SendMessage(k, t)
      PROVE  Once'
  BY <1>5, TalkKeepsOnce DEF SendMessage, roomVars
<1>6. CASE UNCHANGED vars
  BY <1>6 DEF Once, OnceOK, SpeaksFor, vars, wireVars, serverVars, roomVars
<1> QED
  BY <1>1, <1>2, <1>3, <1>4, <1>5, <1>6, NothingReopens, ReceiveKeepsOnce, ServeKeepsOnce,
     RestartKeepsOnce DEF Next, UserStep

LEMMA InitHasOnce == Init => Once
  BY NullsOK DEF Init, WireInit, ServerInit, Once, OnceOK, SpeaksFor

-----------------------------------------------------------------------------
(* What the frames under way say is so, and who said it: the client at the *)
(* end of their connection.                                                *)

Says(f) == f.cmd = "ROOM.MESSAGE"
Asking(f) == f.cmd = "ROOM.INVITE.VERIFICATION_REQUEST"

(* The owner of r knows that r is its room.                                *)
Opened(r) == Exists(r) /\ data[owner[r]] # NoData /\ data[owner[r]].name = r

Joins(k, r) ==
    k \in Keys \ Creators /\ draws[k] # 0 /\ (data[k] # NoData => data[k].name = r)

Known ==
    {f \in Sealed :
        /\ Posted(f) \/ Answer(f) => Opened(f.room)
        /\ Posted(f) => f.body.seal.by = owner[f.room]
        /\ Says(f) => said[f.body.content] # NoKey
        /\ Asking(f) => Joins(f.from, f.room)
        /\ Answer(f) => Joins(f.key, f.room)}

SaidBy(m, f) ==
    /\ f.cmd = "ROOM.CREATE" => m \in Creators /\ \A r \in Rooms : owner[r] # m
    /\ Posted(f) \/ Answer(f) => Keyed(m) /\ f.room = data[m].name
    /\ Says(f) => said[f.body.content] = m
    /\ Rotation(f) \/ Answer(f) => m \in Creators

Acts(f) == f.cmd = "ROOM.CREATE" \/ Posted(f) \/ Answer(f)

SaidOn(c) == {f \in Known : Acts(f) => \E m \in Keys : conn[m] = c /\ SaidBy(m, f)}

(* An owner hears no rotation, and no message of its own.                  *)
Heard(c) ==
    {f \in Known : \A k \in Creators : conn[k] = c =>
                      ~Rotation(f) /\ (Says(f) => said[f.body.content] # k)}

Owned(r) ==
    LET o == owner[r]
    IN  /\ conn[o] # NoConn
        /\ o \in users[r]
        /\ data[o].name \in {r, NoRoom}
        /\ \A q \in Rooms : owner[q] = o => q = r

CreatorOK(k) ==
    /\ cipher[k] = RoomKey(k, draws[k])
    /\ data[k].messageCount # Null
    /\ data[k].name = NoRoom => draws[k] = 1 /\ data[k].messageCount = 0

PlaceOK(k) ==
    /\ k \in Creators /\ data[k] # NoData => CreatorOK(k)
    /\ Keyed(k) /\ conn[k] # NoConn /\ data[k].name # NoRoom => Opened(data[k].name)

WordOK(c) == up[c] \in Seq(SaidOn(c)) /\ down[c] \in Seq(Heard(c))

HouseOK(r) ==
    /\ roomsHistory[r] \in Seq(Known)
    /\ \A k \in users[r] : k = owner[r] \/ Joins(k, r)
    /\ Exists(r) => Owned(r)

Told ==
    /\ \A k \in Keys : PlaceOK(k)
    /\ \A c \in Conns : WordOK(c)
    /\ \A r \in Rooms : HouseOK(r)

(* What every step but a restart keeps.                                    *)
Steady ==
    /\ Grows
    /\ \A t \in Texts : said[t] # NoKey => said'[t] = said[t]
    /\ \A k \in Keys :
          /\ draws[k] # 0 => draws'[k] # 0
          /\ draws[k] # 0 /\ data'[k] # NoData => data[k] # NoData
          /\ data[k] # NoData /\ k \in Creators => data'[k] # NoData
          /\ data[k] # NoData /\ data'[k] # NoData =>
                data'[k].name = data[k].name \/ (k \in Creators /\ data[k].name = NoRoom)

LEMMA OpenedStays ==
    ASSUME Inv, Steady, NEW r \in Rooms, Opened(r)
    PROVE  Opened(r)' /\ owner'[r] = owner[r]
<1>1. owner'[r] = owner[r] /\ owner[r] \in Creators /\ owner[r] \in Keys /\ Exists(r)
  BY ConstantsOK, NullsOK DEF Opened, Exists, Inv, ServerTypes, Steady, Grows
<1>2. data'[owner[r]] # NoData /\ data'[owner[r]].name = data[owner[r]].name
  BY <1>1, NullsOK DEF Opened, Steady
<1> QED
  BY <1>1, <1>2 DEF Opened, Exists

LEMMA JoinsStays ==
    ASSUME Steady, NEW k, NEW r, Joins(k, r)
    PROVE  Joins(k, r)'
  BY DEF Joins, Steady

LEMMA KnownGrows ==
    ASSUME Inv, Steady
    PROVE  Known \subseteq Known'
<1> SUFFICES ASSUME NEW f \in Known
             PROVE  f \in Known'
  OBVIOUS
<1>1. f \in Sealed /\ f \in Frames
  BY DEF Known, Sealed
<1>2. Posted(f) \/ Answer(f) => f.room \in Rooms
  BY <1>1 DEF Sealed, Posts
<1>3. Posted(f) \/ Answer(f) => Opened(f.room)' /\ owner'[f.room] = owner[f.room]
  BY <1>2, OpenedStays DEF Known
<1>4. Says(f) => f.body.content \in Texts /\ Posted(f)
  BY <1>1 DEF Sealed, Says, Posted, Posts
<1>5. Says(f) => said'[f.body.content] # NoKey
  BY <1>4 DEF Known, Steady
<1> QED
  BY <1>1, <1>3, <1>5, JoinsStays DEF Known

LEMMA UpGrows ==
    ASSUME Inv, Steady, NEW c,
           \A m \in Keys : conn[m] = c =>
               /\ conn'[m] = c
               /\ Keyed(m) => Keyed(m)' /\ data'[m] # NoData
               /\ (\A r \in Rooms : owner[r] # m) => (\A r \in Rooms : owner'[r] # m)
    PROVE  SaidOn(c) \subseteq SaidOn(c)'
<1> SUFFICES ASSUME NEW f \in SaidOn(c)
             PROVE  f \in SaidOn(c)'
  OBVIOUS
<1>1. f \in Known /\ f \in Known' /\ f \in Sealed
  BY KnownGrows DEF SaidOn, Known
<1>2. SUFFICES ASSUME Acts(f)
               PROVE  \E m \in Keys : conn'[m] = c /\ SaidBy(m, f)'
  BY <1>1 DEF SaidOn, Acts
<1>3. PICK m \in Keys : conn[m] = c /\ SaidBy(m, f)
  BY <1>2 DEF SaidOn
<1>4. Posted(f) \/ Answer(f) => f.room \in Rooms /\ f.room = data[m].name /\ Keyed(m)
  BY <1>1, <1>3 DEF Sealed, Posts, SaidBy
<1>5. Posted(f) \/ Answer(f) => f.room = data'[m].name /\ Keyed(m)'
  BY <1>3, <1>4, NullsOK DEF Steady, Inv, ClientOK
<1>6. Says(f) => said'[f.body.content] = m
  <2>1. Says(f) => f.body.content \in Texts /\ said[f.body.content] = m
    BY <1>1, <1>3 DEF Sealed, Says, Posted, Posts, SaidBy
  <2> QED
    BY <2>1, NullsOK DEF Steady
<1> QED
  BY <1>3, <1>5, <1>6 DEF SaidBy

LEMMA DownGrows ==
    ASSUME Inv, Steady, NEW c, \A m \in Creators : conn'[m] = c => conn[m] = c
    PROVE  Heard(c) \subseteq Heard(c)'
<1> SUFFICES ASSUME NEW f \in Heard(c)
             PROVE  f \in Heard(c)'
  OBVIOUS
<1>1. f \in Known /\ f \in Known' /\ f \in Sealed
  BY KnownGrows DEF Heard, Known
<1>2. Says(f) => said'[f.body.content] = said[f.body.content]
  <2>1. Says(f) => f.body.content \in Texts /\ said[f.body.content] # NoKey
    BY <1>1 DEF Sealed, Says, Posted, Posts, Known
  <2> QED
    BY <2>1 DEF Steady
<1> QED
  BY <1>1, <1>2 DEF Heard

LEMMA WordGrows ==
    ASSUME Inv, Told, Steady, NEW c \in Conns,
           \A m \in Keys : conn[m] = c =>
               /\ conn'[m] = c
               /\ Keyed(m) => Keyed(m)' /\ data'[m] # NoData
               /\ (\A r \in Rooms : owner[r] # m) => (\A r \in Rooms : owner'[r] # m),
           \A m \in Creators : conn'[m] = c => conn[m] = c
    PROVE  /\ up[c] \in Seq(SaidOn(c)') /\ down[c] \in Seq(Heard(c)')
           /\ SaidOn(c) \subseteq SaidOn(c)' /\ Heard(c) \subseteq Heard(c)'
<1>1. up[c] \in Seq(SaidOn(c)) /\ down[c] \in Seq(Heard(c))
  BY DEF Told, WordOK
<1>2. SaidOn(c) \subseteq SaidOn(c)' /\ Heard(c) \subseteq Heard(c)'
  BY UpGrows, DownGrows
<1> QED
  BY <1>1, <1>2, SeqGrows

LEMMA HouseStays ==
    ASSUME Inv, Told, Steady, NEW r \in Rooms, owner'[r] = owner[r],
           \A q \in Rooms : owner'[q] = owner[r] => (Exists(r) => owner[q] = owner[r]),
           \A k \in users'[r] : k \in users[r] \/ Joins(k, r)',
           roomsHistory'[r] = roomsHistory[r] \/ roomsHistory'[r] \in Seq(Known'),
           Exists(r) =>
               /\ conn'[owner[r]] = conn[owner[r]]
               /\ data'[owner[r]].name \in {data[owner[r]].name, r}
    PROVE  HouseOK(r)'
<1>1. HouseOK(r)
  BY DEF Told
<1>2. roomsHistory'[r] \in Seq(Known')
  BY <1>1, KnownGrows, SeqGrows DEF HouseOK
<1>3. \A k \in users'[r] : k = owner'[r] \/ Joins(k, r)'
  BY <1>1, JoinsStays DEF HouseOK
<1>4. users[r] \subseteq users'[r]
  BY DEF Steady, Grows
<1> QED
  BY <1>1, <1>2, <1>3, <1>4 DEF HouseOK, Owned, Exists

LEMMA PlaceStays ==
    ASSUME Inv, Told, Steady, NEW k \in Keys, data'[k] = data[k], cipher'[k] = cipher[k],
           draws'[k] = draws[k], conn'[k] \in {conn[k], NoConn}
    PROVE  PlaceOK(k)'
<1>1. PlaceOK(k)
  BY DEF Told
<1>2. ClientOK(k) /\ TypeOK
  BY DEF Inv
<1>3. Keyed(k) /\ conn[k] # NoConn /\ data[k].name # NoRoom => Opened(data[k].name)'
  <2>1. Keyed(k) /\ data[k].name # NoRoom => data[k].name \in Rooms
    BY <1>2 DEF ClientOK, TypeOK, Datas
  <2> QED
    BY <1>1, <2>1, OpenedStays DEF PlaceOK
<1> QED
  BY <1>1, <1>3 DEF PlaceOK, CreatorOK, Keyed

(* A client that talks: nothing connects, and the server does nothing.     *)
LEMMA TalkKeepsTold ==
    ASSUME Inv, Told, Steady, NEW k \in Keys, UNCHANGED <<link, conn, serverVars>>,
           \A l \in Keys : l # k => SameClient(l),
           Keyed(k) => Keyed(k)' /\ data'[k] # NoData, PlaceOK(k)',
           \A r \in Rooms : owner[r] = k => data'[k].name \in {data[k].name, r},
           down' = down \/ \E f : Takes(k, f) /\ TakeDown(k),
           up' = up \/ \E g \in SaidOn(conn[k])' : Submit(conn[k], g)
    PROVE  Told'
<1>1. UNCHANGED <<owner, users, online, roomsHistory, pubKey, conn>> /\ ServerTypes
  BY DEF serverVars, Inv
<1>2. ASSUME NEW l \in Keys
      PROVE  PlaceOK(l)'
  BY <1>1, PlaceStays DEF SameClient
<1>3. ASSUME NEW r \in Rooms
      PROVE  HouseOK(r)'
  <2>1. Exists(r) => owner[r] \in Keys
    BY <1>1, ConstantsOK DEF Exists, ServerTypes
  <2> QED
    BY <1>1, <2>1, HouseStays DEF SameClient
<1>4. ASSUME NEW c \in Conns
      PROVE  WordOK(c)'
  <2>0. \A m \in Keys : Keyed(m) => Keyed(m)' /\ data'[m] # NoData
    BY DEF SameClient, Keyed, Inv, ClientOK
  <2>1. /\ up[c] \in Seq(SaidOn(c)') /\ down[c] \in Seq(Heard(c)')
        /\ SaidOn(c) \subseteq SaidOn(c)'
    BY <1>1, <2>0, WordGrows
  <2>2. down'[c] \in Seq(Heard(c)')
    <3>1. down'[c] = down[c] \/ (down[c] # << >> /\ down'[c] = Tail(down[c]))
      BY <1>1 DEF ServerTypes, TakeDown, Takes
    <3> QED
      BY <2>1, <3>1, HeadTailProperties
  <2>3. up'[c] \in Seq(SaidOn(c)')
    <3>1. up'[c] = up[c] \/ \E g \in SaidOn(c)' : up'[c] = Append(up[c], g)
      <4>1. CASE up' # up
        <5>1. PICK g \in SaidOn(conn[k])' : Submit(conn[k], g)
          BY <4>1
        <5>2. CASE conn[k] = c
          BY <1>1, <5>1, <5>2 DEF ServerTypes, Submit
        <5>3. CASE conn[k] # c
          BY <1>1, <5>1, <5>3 DEF ServerTypes, Submit
        <5> QED
          BY <5>2, <5>3
      <4> QED
        BY <4>1
    <3> QED
      BY <2>1, <3>1, AppendProperties
  <2> QED
    BY <2>2, <2>3 DEF WordOK
<1> QED
  BY <1>2, <1>3, <1>4 DEF Told

(* What becomes of client k when it reads f, and what it sends.            *)
KeepsKey(k) == cipher'[k] = cipher[k] /\ draws'[k] = draws[k]
KeepsRoom(k) == data'[k].name = data[k].name
KeepsCount(k) == data'[k].messageCount = data[k].messageCount

Ignores(k, f) ==
    /\ Posted(f) => ~Readable(k, f)
    /\ Answer(f) => ~Opens(k, f)
    /\ up' = up /\ KeepsKey(k) /\ KeepsRoom(k) /\ KeepsCount(k)

Created(k, f) ==
    /\ f.cmd = "ROOM.CREATED"
    /\ data'[k].name = f.room
    /\ up' = up /\ KeepsKey(k) /\ KeepsCount(k)

AnswerTo(k, f, token) ==
    InviteResponse(f.from, f.room, f.key, Seal(f.body.content, token, data[k].roomKey))

Confirms(k, f) ==
    /\ Asking(f) /\ f.room = data[k].name
    /\ \E token \in Invites \cup {NoInvite} : Submit(conn[k], AnswerTo(k, f, token))
    /\ KeepsKey(k) /\ KeepsRoom(k) /\ KeepsCount(k)

Admitted(k, f) ==
    /\ Answer(f) /\ Opens(k, f)
    /\ cipher'[k] = f.body.content /\ draws'[k] = draws[k]
    /\ up' = up /\ KeepsRoom(k) /\ KeepsCount(k)

Rotates(k, f) ==
    /\ Says(f) /\ Readable(k, f) /\ data[k].messageCount # Null
    /\ draws'[k] = draws[k] + 1 /\ cipher'[k] = RoomKey(k, draws[k] + 1)
    /\ Submit(conn[k], MessageKeyRotate(data[k].name, Seal(cipher[k], NoInvite, cipher'[k])))
    /\ KeepsRoom(k) /\ data'[k].messageCount = 0

Counts(k, f) ==
    /\ Says(f) /\ Readable(k, f)
    /\ data'[k].messageCount = IF data[k].messageCount = Null THEN Null
                               ELSE data[k].messageCount + 1
    /\ up' = up /\ KeepsKey(k) /\ KeepsRoom(k)

Follows(k, f) ==
    /\ Rotation(f) /\ Readable(k, f)
    /\ cipher'[k] = f.body.content /\ draws'[k] = draws[k]
    /\ up' = up /\ KeepsRoom(k) /\ KeepsCount(k)

Reads(k, f) ==
    /\ Away /\ UNCHANGED <<link, conn, issued, said>> /\ TakeDown(k)
    /\ \A l \in Keys : l # k => SameClient(l)
    /\ data'[k] # NoData
    /\ \/ Ignores(k, f)
       \/ Created(k, f)
       \/ Confirms(k, f)
       \/ Admitted(k, f)
       \/ Rotates(k, f)
       \/ Counts(k, f)
       \/ Follows(k, f)

LEMMA ReadsFrame ==
    ASSUME Inv, NEW k \in Keys, OnReceive(k)
    PROVE  \E f : Takes(k, f) /\ (Reads(k, f) \/ CrashOnFrame(k, f))
<1>1. PICK f : f = Head(down[conn[k]])
  OBVIOUS
<1>2. /\ Takes(k, f) /\ TypeOK /\ TypeOK' /\ data[k] \in Datas /\ data[k] # NoData /\ f \in Frames
  BY <1>1, FrameIsKnown, NextKeepsInv DEF OnReceive, Takes, Inv, Next
<1>3. SUFFICES ASSUME ~CrashOnFrame(k, f)
               PROVE  Reads(k, f)
  BY <1>2
<1>4. /\ Away /\ UNCHANGED <<link, conn, issued, said>> /\ TakeDown(k)
  BY <1>1, <1>3
     DEF OnReceive, OnRoomCreated, OnRoomOpened, OnRoomNotExist, OnVerificationRequest,
         OnVerificationResponse, OnMessage, OnKeyRotate, OnDeclined, Receives, Away, usageVars
<1>5. /\ stage' = stage \/ stage' = [stage EXCEPT ![k] = "open"]
      /\ saved' = saved \/ \E d : saved' = [saved EXCEPT ![k] = d]
      /\ draws' = draws \/ draws' = [draws EXCEPT ![k] = @ + 1]
      /\ cipher' = cipher \/ \E d : cipher' = [cipher EXCEPT ![k] = d]
      /\ data' = data \/ \E d : data' = [data EXCEPT ![k] = d]
  BY <1>1, <1>3
     DEF OnReceive, OnRoomCreated, OnRoomOpened, OnRoomNotExist, OnVerificationRequest,
         OnVerificationResponse, OnMessage, RotateKey, CountMessage, OnKeyRotate, OnDeclined,
         Receives, Save, ShowRoom
<1>6. \A l \in Keys : l # k => SameClient(l)
  BY <1>2, <1>4, <1>5 DEF SameClient, TypeOK, Inv, ServerTypes
<1>7. \/ Ignores(k, f) \/ Created(k, f) \/ Confirms(k, f) \/ Admitted(k, f) \/ Rotates(k, f)
      \/ Counts(k, f) \/ Follows(k, f)
  <2>1. CASE OnRoomCreated(k, f)
    BY <1>2, <2>1 DEF OnRoomCreated, Receives, Created, KeepsKey, KeepsCount, TypeOK, Datas
  <2>2. CASE OnRoomOpened(k, f) \/ OnRoomNotExist(k, f) \/ OnDeclined(k, f)
    BY <2>2 DEF OnRoomOpened, OnRoomNotExist, OnDeclined, Receives, Ignores, KeepsKey, KeepsRoom,
                KeepsCount, Posted, Answer
  <2>3. CASE OnVerificationRequest(k, f)
    <3>1. /\ f.cmd = "ROOM.INVITE.VERIFICATION_REQUEST" /\ UNCHANGED <<cipher, draws>>
      BY <2>3 DEF OnVerificationRequest, Receives
    <3>2. CASE f.key = k /\ f.room = data[k].name
      <4>1. PICK token : /\ token = IF f.body.token \in data[k].invites THEN f.body.token ELSE NoInvite
                         /\ Submit(conn[k], AnswerTo(k, f, token))
        BY <2>3, <3>2 DEF OnVerificationRequest, AnswerTo
      <4>2. token \in Invites \cup {NoInvite}
        BY <1>2, <4>1 DEF Datas
      <4>3. data'[k].name = data[k].name /\ data'[k].messageCount = data[k].messageCount
        BY <1>2, <2>3, <3>2 DEF OnVerificationRequest, Datas, TypeOK
      <4> QED
        BY <3>1, <3>2, <4>1, <4>2, <4>3 DEF Confirms, Asking, KeepsKey, KeepsRoom, KeepsCount
    <3>3. CASE ~(f.key = k /\ f.room = data[k].name)
      <4>1. UNCHANGED <<up, data>>
        BY <2>3, <3>3 DEF OnVerificationRequest
      <4> QED
        BY <3>1, <4>1 DEF Ignores, KeepsKey, KeepsRoom, KeepsCount, Posted, Answer
    <3> QED
      BY <3>2, <3>3
  <2>4. CASE OnVerificationResponse(k, f)
    <3>1. f.cmd = "ROOM.INVITE.VERIFICATION_RESPONSE" /\ UNCHANGED <<up, draws>>
      BY <2>4 DEF OnVerificationResponse, Receives
    <3>2. CASE Opens(k, f)
      <4>1. /\ cipher' = [cipher EXCEPT ![k] = f.body.content]
            /\ data' = [data EXCEPT ![k].roomKey = f.body.content]
        BY <2>4, <3>2 DEF OnVerificationResponse, Opens
      <4> QED
        BY <1>2, <3>1, <3>2, <4>1 DEF Admitted, Answer, KeepsRoom, KeepsCount, TypeOK, Datas
    <3>3. CASE ~Opens(k, f)
      BY <2>4, <3>1, <3>3 DEF OnVerificationResponse, Opens, Ignores, KeepsKey, KeepsRoom,
                              KeepsCount, Posted
    <3> QED
      BY <3>2, <3>3
  <2>5. CASE OnMessage(k, f)
    <3>1. CASE ~Readable(k, f)
      BY <2>5, <3>1 DEF OnMessage, Ignores, KeepsKey, KeepsRoom, KeepsCount, Answer
    <3>2. CASE Readable(k, f) /\ RotationDue(k)
      <4>1. RotateKey(k) /\ Says(f) /\ data[k].messageCount # Null
        BY <2>5, <3>2 DEF OnMessage, RotationDue, Says
      <4>2. /\ draws'[k] = draws[k] + 1 /\ cipher'[k] = RoomKey(k, draws[k] + 1)
            /\ data'[k].name = data[k].name /\ data'[k].messageCount = 0
        BY <1>2, <4>1 DEF RotateKey, TypeOK, Datas, Inv, ServerTypes
      <4>3. Submit(conn[k], MessageKeyRotate(data[k].name, Seal(cipher[k], NoInvite, cipher'[k])))
        BY <4>1, <4>2 DEF RotateKey
      <4> QED
        BY <3>2, <4>1, <4>2, <4>3 DEF Rotates, KeepsRoom
    <3>3. CASE Readable(k, f) /\ ~RotationDue(k)
      <4>1. CountMessage(k) /\ Says(f)
        BY <2>5, <3>3 DEF OnMessage, Says
      <4> QED
        BY <1>2, <3>3, <4>1 DEF CountMessage, Counts, KeepsKey, KeepsRoom, TypeOK, Datas
    <3> QED
      BY <3>1, <3>2, <3>3
  <2>6. CASE OnKeyRotate(k, f)
    <3>1. Rotation(f) /\ UNCHANGED <<up, draws>> /\ f.cmd = "ROOM.MESSAGE.KEY.ROTATE"
      BY <2>6 DEF OnKeyRotate, Receives, Rotation
    <3>2. CASE Readable(k, f)
      BY <1>2, <2>6, <3>1, <3>2 DEF OnKeyRotate, Follows, KeepsRoom, KeepsCount, TypeOK, Datas
    <3>3. CASE ~Readable(k, f)
      BY <2>6, <3>1, <3>3 DEF OnKeyRotate, Ignores, KeepsKey, KeepsRoom, KeepsCount, Answer
    <3> QED
      BY <3>2, <3>3
  <2> QED
    BY <1>1, <1>3, <2>1, <2>2, <2>3, <2>4, <2>5, <2>6 DEF OnReceive
<1>8. data'[k] # NoData
  <2>1. stage'[k] \in {stage[k], "open"} /\ stage[k] \notin {"absent", "crashed"}
    BY <1>2, <1>5 DEF TypeOK, Inv, ClientOK
  <2>2. ClientOK(k)'
    BY NextKeepsInv DEF Next, Inv
  <2> QED
    BY <2>1, <2>2 DEF ClientOK
<1> QED
  BY <1>2, <1>4, <1>6, <1>7, <1>8 DEF Reads

(* The frames that clients post.                                           *)
LEMMA MessageFrame ==
    ASSUME NEW r \in Rooms, NEW key \in RoomKeys, NEW t \in Texts,
           NEW f, f = Message(r, Seal(key, NoInvite, t))
    PROVE  /\ f \in Sealed /\ Posted(f) /\ Says(f) /\ ~Rotation(f) /\ ~Answer(f)
           /\ f.room = r /\ f.body.seal = key /\ f.body.content = t /\ f.cmd = "ROOM.MESSAGE"
<1>1. /\ f.cmd = "ROOM.MESSAGE" /\ f.room = r /\ f.body = Seal(key, NoInvite, t) /\ f \in Frames
  BY DEF Message, Frame, Frames, Commands, Seals, Seal
<1>2. f.body.seal = key /\ f.body.content = t /\ f.body \in Seals
  BY <1>1 DEF Seal, Seals
<1>3. f \in Posts
  BY <1>1, <1>2 DEF Posts
<1> QED
  BY <1>1, <1>2, <1>3 DEF Sealed, Posted, Says, Rotation, Answer

LEMMA RotationFrame ==
    ASSUME NEW r \in Rooms, NEW key \in RoomKeys, NEW new, new = RoomKey(key.by, key.n + 1),
           NEW f, f = MessageKeyRotate(r, Seal(key, NoInvite, new))
    PROVE  /\ f \in Sealed /\ Posted(f) /\ ~Says(f) /\ Rotation(f) /\ ~Answer(f)
           /\ f.room = r /\ f.body.seal = key /\ f.body.content = new
           /\ f.cmd = "ROOM.MESSAGE.KEY.ROTATE"
<1>0. new \in RoomKeys /\ new.by = key.by
  BY DEF RoomKey, RoomKeys
<1>1. /\ f.cmd = "ROOM.MESSAGE.KEY.ROTATE" /\ f.room = r /\ f.body = Seal(key, NoInvite, new)
      /\ f \in Frames
  BY <1>0 DEF MessageKeyRotate, Frame, Frames, Commands, Seals, Seal
<1>2. f.body.seal = key /\ f.body.content = new /\ f.body \in Seals
  BY <1>0, <1>1 DEF Seal, Seals
<1>3. f \in Posts
  BY <1>0, <1>1, <1>2 DEF Posts
<1> QED
  BY <1>1, <1>2, <1>3 DEF Sealed, Posted, Says, Rotation, Answer

LEMMA AnswerFrame ==
    ASSUME Inv, NEW k \in Keys, data[k] \in Datas, NEW f \in Asks,
           NEW token \in Invites \cup {NoInvite}, NEW g, g = AnswerTo(k, f, token)
    PROVE  /\ g \in Sealed /\ Answer(g) /\ ~Posted(g) /\ ~Rotation(g) /\ ~Says(g) /\ ~Asking(g)
           /\ g.room = f.room /\ g.key = f.from /\ g.body.content = data[k].roomKey
           /\ g.cmd = "ROOM.INVITE.VERIFICATION_RESPONSE" /\ f.room \in Rooms
<1>1. PICK body : body = Seal(f.body.content, token, data[k].roomKey)
  OBVIOUS
<1>2. /\ f.room \in Rooms /\ f.from \in Keys /\ f.key \in Keys /\ f.body.content \in RoomKeys
      /\ data[k].roomKey \in RoomKeys
  BY DEF Asks, Datas
<1>3. body \in Seals /\ body.content = data[k].roomKey
  BY <1>1, <1>2 DEF Seals, Seal
<1>4. /\ g.cmd = "ROOM.INVITE.VERIFICATION_RESPONSE" /\ g.room = f.room /\ g.key = f.from
      /\ g.body = body /\ g \in Frames
  BY <1>1, <1>2, <1>3 DEF AnswerTo, InviteResponse, Frame, Frames, Commands
<1> QED
  BY <1>2, <1>3, <1>4 DEF Sealed, Posted, Says, Rotation, Answer, Asking

LEMMA HeardFrame ==
    ASSUME Inv, Told, NEW k \in Keys, NEW f, Takes(k, f)
    PROVE  /\ f \in Known /\ f \in Sealed /\ f \in Frames
           /\ k \in Creators => ~Rotation(f) /\ (Says(f) => said[f.body.content] # k)
           /\ Posted(f) => f \in Posts /\ f.room \in Rooms
<1>1. PICK c \in Conns : c = conn[k]
  BY WhoIsThere DEF Takes
<1>2. down[c] \in Seq(Heard(c)) /\ down[c] # << >> /\ f = Head(down[c])
  BY <1>1 DEF Takes, Told, WordOK
<1>3. f \in Heard(c)
  BY <1>2, HeadTailProperties
<1> QED
  BY <1>1, <1>3 DEF Heard, Known, Sealed, Posts

(* Who has the key of its room is let in, and the room's key is its        *)
(* owner's.                                                                *)
LEMMA KeyedPlace ==
    ASSUME Inv, Told, NEW k \in Keys, Keyed(k), data[k].name # NoRoom, conn[k] # NoConn
    PROVE  /\ data[k] \in Datas /\ data[k] # NoData /\ data[k].name \in Rooms
           /\ Opened(data[k].name) /\ owner[data[k].name] = data[k].owner
           /\ k \in users[data[k].name]
           /\ data[k].owner \in Creators
           /\ k \in Creators => data[k].owner = k
           /\ cipher[k] \in RoomKeys /\ cipher[k].by = data[k].owner
           /\ cipher[k] = data[k].roomKey
<1>1. TypeOK /\ ClientOK(k) /\ PlaceOK(k)
  BY DEF Inv, Told
<1>2. data[k] # NoData /\ data[k] \in Datas /\ data[k].name \in Rooms
  BY <1>1 DEF ClientOK, TypeOK, Datas
<1>3. /\ Opened(data[k].name) /\ Exists(data[k].name)
      /\ RoomOK(k, data[k]) /\ cipher[k] = data[k].roomKey /\ cipher[k] \in RoomKeys
  BY <1>1, <1>2 DEF PlaceOK, ClientOK, Opened, TypeOK, Keyed
<1>4. k \in Creators => data[k].owner = k
  BY <1>1, <1>2 DEF ClientOK, OriginOK
<1> QED
  BY <1>2, <1>3, <1>4 DEF RoomOK

LEMMA ReadsSteady ==
    ASSUME Inv, Told, NEW k \in Keys, NEW f, Takes(k, f), Reads(k, f)
    PROVE  Steady /\ Grows
<1>1. /\ Away /\ UNCHANGED <<conn, issued, said>> /\ data'[k] # NoData
      /\ \A l \in Keys : l # k => SameClient(l)
  BY DEF Reads
<1>2. Grows
  BY <1>1, AwayGrows
<1>3. data[k] # NoData /\ draws[k] # 0 /\ draws[k] \in Nat /\ ClientOK(k)
  BY FrameIsKnown DEF Inv, ServerTypes
<1>4. draws'[k] # 0
  BY <1>3 DEF Reads, Ignores, Created, Confirms, Admitted, Rotates, Counts, Follows, KeepsKey
<1>5. data'[k].name = data[k].name \/ (k \in Creators /\ data[k].name = NoRoom)
  <2>1. CASE Created(k, f)
    <3>1. Creating(k)
      BY <2>1, FrameIsKnown DEF Created, ReplyCommands, Replies
    <3> QED
      BY <1>3, <3>1 DEF Creating, ClientOK, OriginOK
  <2>2. CASE ~Created(k, f)
    BY <2>2 DEF Reads, Ignores, Confirms, Admitted, Rotates, Counts, Follows, KeepsRoom
  <2> QED
    BY <2>1, <2>2
<1> QED
  BY <1>1, <1>2, <1>3, <1>4, <1>5 DEF Steady, SameClient

(* What a reader is like afterwards, ...                                   *)
LEMMA ReadsPlace ==
    ASSUME Inv, Told, NEW k \in Keys, NEW f, Takes(k, f), Reads(k, f)
    PROVE  /\ PlaceOK(k)'
           /\ Keyed(k) => Keyed(k)'
           /\ \A r \in Rooms : owner[r] = k => data'[k].name \in {data[k].name, r}
<1>1. /\ Steady /\ conn' = conn /\ conn[k] # NoConn /\ data'[k] # NoData
      /\ data[k] \in Datas /\ data[k] # NoData /\ ClientOK(k) /\ PlaceOK(k) /\ TypeOK
      /\ draws[k] \in Nat /\ owner' = owner
  BY ReadsSteady, FrameIsKnown DEF Reads, Takes, Inv, Told, ServerTypes, Away, serverVars
<1>2. /\ f \in Known /\ f \in Sealed
      /\ k \in Creators => ~Rotation(f)
      /\ Posted(f) => f \in Posts /\ f.room \in Rooms
  BY HeardFrame
<1>3. Readable(k, f) /\ Posted(f) => data[k].name # NoRoom /\ Keyed(k)
  BY <1>2, ReadableIsOwners, NullsOK DEF Posted
<1>4. Admitted(k, f) => /\ ~Keyed(k) /\ k \notin Creators /\ f.room = data[k].name
                        /\ Opened(f.room) /\ f.room \in Rooms /\ f.body.content \in RoomKeys
  BY <1>2, OpeningAnswer DEF Admitted, Answer, Known, Sealed
<1>5. Created(k, f) => /\ owner[f.room] = k /\ f.room \in Rooms /\ Creating(k)
  BY FrameIsKnown DEF Created, ReplyCommands, Replies
<1>6. Rotates(k, f) => k \in Creators
  BY <1>1 DEF Rotates, ClientOK, OriginOK
<1>7. ASSUME k \in Creators
      PROVE  CreatorOK(k)'
  <2>1. CreatorOK(k)
    BY <1>1, <1>7 DEF PlaceOK
  <2>2. CASE Ignores(k, f) \/ Confirms(k, f)
    BY <2>1, <2>2 DEF Ignores, Confirms, KeepsKey, KeepsRoom, KeepsCount, CreatorOK
  <2>3. CASE Created(k, f)
    BY <1>5, <2>1, <2>3, NullsOK DEF Created, KeepsKey, KeepsCount, CreatorOK
  <2>4. CASE Rotates(k, f)
    <3>1. data[k].name # NoRoom
      BY <1>3, <2>4 DEF Rotates, Posted, Says
    <3> QED
      BY <1>1, <2>4, <3>1 DEF Rotates, CreatorOK, Null, KeepsRoom
  <2>5. CASE Counts(k, f)
    <3>1. data[k].name # NoRoom
      BY <1>3, <2>5 DEF Counts, Posted, Says
    <3>2. data[k].messageCount \in Null .. KeyRotationLimit - 1
      BY <1>1 DEF Datas
    <3>3. data'[k].messageCount # Null
      BY <2>1, <2>5, <3>2, ConstantsOK DEF Counts, CreatorOK, Null
    <3> QED
      BY <2>1, <2>5, <3>1, <3>3 DEF Counts, CreatorOK, KeepsKey, KeepsRoom
  <2>6. ~Admitted(k, f) /\ ~Follows(k, f)
    BY <1>2, <1>4, <1>7 DEF Follows
  <2> QED
    BY <2>2, <2>3, <2>4, <2>5, <2>6 DEF Reads
<1>8. ASSUME Keyed(k)', data'[k].name # NoRoom
      PROVE  Opened(data[k].name)'
  <2>1. PICK r : r = data'[k].name
    OBVIOUS
  <2>2. CASE Created(k, f)
    BY <1>1, <1>5, <2>1, <2>2, NullsOK DEF Created, Opened, Exists
  <2>3. CASE Admitted(k, f)
    BY <1>1, <1>4, <2>1, <2>3, OpenedStays DEF Admitted, KeepsRoom
  <2>4. CASE ~Created(k, f) /\ ~Admitted(k, f)
    <3>1. r = data[k].name
      BY <2>1, <2>4 DEF Reads, Ignores, Confirms, Rotates, Counts, Follows, KeepsRoom
    <3>2. Keyed(k)
      BY <1>3, <1>8, <2>4 DEF Reads, Ignores, Confirms, Rotates, Counts, Follows, KeepsKey,
                              Keyed, Posted, Says, Rotation
    <3>3. Opened(r) /\ r \in Rooms
      BY <1>1, <1>8, <2>1, <3>1, <3>2, KeyedPlace
    <3>4. Opened(r)'
      BY <1>1, <3>3, OpenedStays
    <3> QED
      BY <2>1, <3>4
  <2> QED
    BY <2>2, <2>3, <2>4
<1>9. ASSUME Keyed(k)
      PROVE  Keyed(k)'
  <2>1. CASE Rotates(k, f)
    <3>1. RoomKey(k, draws[k] + 1) \in RoomKeys
      BY <1>1 DEF RoomKey, RoomKeys
    <3> QED
      BY <2>1, <3>1, NullsOK DEF Rotates, Keyed
  <2>2. CASE Follows(k, f)
    BY <1>2, <2>2, NullsOK DEF Follows, Keyed, Sealed, Rotation, Posts, Posted
  <2>3. CASE ~Rotates(k, f) /\ ~Follows(k, f)
    BY <1>4, <1>9, <2>3 DEF Reads, Ignores, Confirms, Created, Counts, KeepsKey, Keyed
  <2> QED
    BY <2>1, <2>2, <2>3
<1>10. ASSUME NEW r \in Rooms, owner[r] = k
       PROVE  data'[k].name \in {data[k].name, r}
  <2>1. CASE Created(k, f)
    <3>1. Owned(r) /\ f.room = r
      BY <1>5, <1>10, <2>1, NullsOK DEF Told, HouseOK, Owned, Exists
    <3> QED
      BY <2>1, <3>1 DEF Created
  <2>2. CASE ~Created(k, f)
    BY <2>2 DEF Reads, Ignores, Confirms, Admitted, Rotates, Counts, Follows, KeepsRoom
  <2> QED
    BY <2>1, <2>2
<1> QED
  BY <1>1, <1>7, <1>8, <1>9, <1>10 DEF PlaceOK

(* ... and what it sends.                                                  *)
LEMMA ReadsKeepsTold ==
    ASSUME Inv, Told, NEW k \in Keys, NEW f, Takes(k, f), Reads(k, f)
    PROVE  Told'
<1>1. /\ Steady /\ UNCHANGED <<link, conn, serverVars>> /\ TakeDown(k)
      /\ \A l \in Keys : l # k => SameClient(l)
      /\ data'[k] # NoData /\ conn[k] # NoConn
  BY ReadsSteady DEF Reads, Away, Takes
<1>2. /\ PlaceOK(k)' /\ (Keyed(k) => Keyed(k)')
      /\ \A r \in Rooms : owner[r] = k => data'[k].name \in {data[k].name, r}
  BY ReadsPlace
<1>3. /\ TypeOK /\ ClientOK(k) /\ PlaceOK(k) /\ data[k] \in Datas /\ data[k] # NoData
      /\ draws[k] \in Nat
  BY FrameIsKnown DEF Inv, Told, ServerTypes
<1>4. owner' = owner
  BY <1>1 DEF serverVars
<1>5. CASE Confirms(k, f)
  <2>1. PICK token \in Invites \cup {NoInvite} : Submit(conn[k], AnswerTo(k, f, token))
    BY <1>5 DEF Confirms
  <2>2. f \in Asks /\ owner[f.room] = k /\ f.room = data[k].name /\ f \in Known /\ Asking(f)
    BY <1>5, FrameIsKnown, HeardFrame DEF Confirms, Asking
  <2>3. PICK g : g = AnswerTo(k, f, token)
    OBVIOUS
  <2>4. /\ g \in Sealed /\ Answer(g) /\ ~Posted(g) /\ ~Rotation(g) /\ ~Says(g) /\ ~Asking(g)
        /\ g.room = f.room /\ g.key = f.from /\ f.room \in Rooms
        /\ g.cmd = "ROOM.INVITE.VERIFICATION_RESPONSE"
    BY <1>3, <2>2, <2>3, AnswerFrame
  <2>5. k \in Creators
    BY <2>2, <2>4, NullsOK DEF Inv, ServerTypes
  <2>6. Keyed(k)
    BY <1>3, <2>5 DEF ClientOK
  <2>7. Opened(f.room)'
    BY <1>1, <2>2, <2>4, <2>6, KeyedPlace, OpenedStays, NullsOK
  <2>8. Joins(f.from, f.room)'
    BY <1>1, <2>2, JoinsStays DEF Known
  <2>9. g \in Known'
    BY <2>4, <2>7, <2>8 DEF Known
  <2>10. SaidBy(k, g)'
    BY <1>2, <1>5, <2>2, <2>4, <2>5, <2>6 DEF SaidBy, Confirms, KeepsRoom
  <2>11. g \in SaidOn(conn[k])'
    BY <1>1, <2>9, <2>10 DEF SaidOn
  <2> QED
    BY <1>1, <1>2, <2>1, <2>3, <2>11, TalkKeepsTold
<1>6. CASE Rotates(k, f)
  <2>1. /\ k \in Creators
        /\ Submit(conn[k], MessageKeyRotate(data[k].name, Seal(cipher[k], NoInvite, cipher'[k])))
        /\ cipher'[k] = RoomKey(k, draws[k] + 1) /\ data'[k].name = data[k].name
        /\ Posted(f) /\ Readable(k, f)
    BY <1>3, <1>6 DEF Rotates, ClientOK, OriginOK, KeepsRoom, Posted, Says
  <2>2. data[k].name \in Rooms /\ Keyed(k) /\ cipher[k] \in RoomKeys
    BY <2>1, ReadableIsOwners DEF Posted
  <2>3. cipher[k] = RoomKey(k, draws[k])
    BY <1>3, <2>1 DEF PlaceOK, CreatorOK
  <2>4. cipher'[k] = RoomKey(cipher[k].by, cipher[k].n + 1) /\ cipher[k].by = k
    BY <2>1, <2>3 DEF RoomKey
  <2>5. PICK g : g = MessageKeyRotate(data[k].name, Seal(cipher[k], NoInvite, cipher'[k]))
    OBVIOUS
  <2>6. /\ g \in Sealed /\ Posted(g) /\ ~Says(g) /\ Rotation(g) /\ ~Answer(g)
        /\ g.room = data[k].name /\ g.body.seal = cipher[k]
        /\ g.cmd = "ROOM.MESSAGE.KEY.ROTATE"
    BY <2>2, <2>4, <2>5, RotationFrame
  <2>7. Opened(g.room)' /\ owner'[g.room] = k
    BY <1>1, <1>4, <2>1, <2>2, <2>6, KeyedPlace, OpenedStays, NullsOK
  <2>8. g \in Known'
    BY <2>4, <2>6, <2>7 DEF Known, Asking
  <2>9. SaidBy(k, g)'
    BY <1>2, <2>1, <2>2, <2>6 DEF SaidBy
  <2>10. g \in SaidOn(conn[k])'
    BY <1>1, <2>8, <2>9 DEF SaidOn
  <2> QED
    BY <1>1, <1>2, <2>1, <2>5, <2>10, TalkKeepsTold
<1>7. CASE ~Confirms(k, f) /\ ~Rotates(k, f)
  <2>1. up' = up
    BY <1>7 DEF Reads, Ignores, Created, Admitted, Counts, Follows
  <2> QED
    BY <1>1, <1>2, <2>1, TalkKeepsTold
<1> QED
  BY <1>5, <1>6, <1>7

LEMMA CrashKeepsTold ==
    ASSUME Inv, Told, NEW k \in Keys, NEW f, Takes(k, f), CrashOnFrame(k, f)
    PROVE  Told'
<1>1. PICK c \in Conns : c = conn[k]
  BY WhoIsThere DEF Takes
<1>2. /\ c # NoConn /\ TypeOK /\ ServerTypes /\ ClientOK(k) /\ ~Keyed(k) /\ data[k] # NoData
  BY <1>1, FrameIsKnown DEF Takes, CrashOnFrame, Keyed, Inv
<1>3. k \notin Creators
  BY <1>2 DEF ClientOK
<1>4. /\ up' = [up EXCEPT ![c] = SubSeq(@, 1, Len(@))] /\ down' = [down EXCEPT ![c] = << >>]
      /\ conn' = [conn EXCEPT ![k] = NoConn] /\ data' = [data EXCEPT ![k] = NoData]
      /\ cipher' = [cipher EXCEPT ![k] = NoCipher]
      /\ UNCHANGED <<draws, owner, users, roomsHistory, issued, said, taken, restarts, serverVars>>
  BY <1>1 DEF CrashOnFrame, Forget, Disconnect, serverVars, usageVars
<1>5. /\ Steady
      /\ \A l \in Keys : l # k => data'[l] = data[l] /\ cipher'[l] = cipher[l] /\ conn'[l] = conn[l]
      /\ data'[k] = NoData /\ conn'[k] = NoConn /\ cipher'[k] = NoCipher
  <2>1. Grows
    BY <1>4, AwayGrows DEF Away
  <2> QED
    BY <1>2, <1>3, <1>4, <2>1 DEF Steady, TypeOK
<1>6. ASSUME NEW l \in Keys
      PROVE  PlaceOK(l)'
  <2>1. CASE l = k
    BY <1>5, <2>1 DEF PlaceOK
  <2>2. CASE l # k
    BY <1>4, <1>5, <2>2, PlaceStays
  <2> QED
    BY <2>1, <2>2
<1>7. ASSUME NEW r \in Rooms
      PROVE  HouseOK(r)'
  <2>1. Exists(r) => owner[r] # k /\ owner[r] \in Keys
    BY <1>2, <1>3, ConstantsOK DEF Exists, ServerTypes
  <2> QED
    BY <1>4, <1>5, <2>1, HouseStays
<1>8. up'[c] = up[c] /\ down'[c] = << >>
  <2>1. SubSeq(up[c], 1, Len(up[c])) = up[c]
    BY <1>2, SubSeqFull DEF ServerTypes
  <2> QED
    BY <1>2, <1>4, <2>1 DEF ServerTypes
<1>9. ASSUME NEW x \in Conns
      PROVE  WordOK(x)'
  <2>1. CASE x = c
    <3>1. ASSUME NEW g \in SaidOn(c)
          PROVE  g \in SaidOn(c)'
      <4>1. g \in Known /\ g \in Known'
        BY <1>5, KnownGrows DEF SaidOn
      <4>2. ~Acts(g)
        <5>1. SUFFICES ASSUME NEW m \in Keys, conn[m] = c, SaidBy(m, g), Acts(g)
                       PROVE  FALSE
          BY DEF SaidOn
        <5>2. m = k
          BY <1>1, <1>2, <5>1, ConnsApart
        <5> QED
          BY <1>2, <1>3, <5>1, <5>2 DEF SaidBy, Acts
      <4> QED
        BY <4>1, <4>2 DEF SaidOn, Acts
    <3>2. up[c] \in Seq(SaidOn(c))
      BY DEF Told, WordOK
    <3>3. up[c] \in Seq(SaidOn(c)')
      BY <3>1, <3>2, SeqGrows
    <3>4. << >> \in Seq(Heard(c)')
      BY EmptySeq
    <3> QED
      BY <1>8, <2>1, <3>3, <3>4 DEF WordOK
  <2>2. CASE x # c
    <3>1. up'[x] = up[x] /\ down'[x] = down[x]
      BY <1>2, <1>4, <2>2 DEF ServerTypes
    <3>2. /\ \A m \in Keys : conn[m] = x => m # k
          /\ \A m \in Creators : m # k /\ m \in Keys
      BY <1>1, <1>3, <2>2, ConstantsOK
    <3>3. \A m \in Keys : conn[m] = x => /\ conn'[m] = x
                                         /\ Keyed(m) => Keyed(m)' /\ data'[m] # NoData
      BY <1>5, <3>2 DEF Keyed, Inv, ClientOK
    <3>4. up[x] \in Seq(SaidOn(x)') /\ down[x] \in Seq(Heard(x)')
      BY <1>4, <1>5, <3>2, <3>3, WordGrows
    <3> QED
      BY <3>1, <3>4 DEF WordOK
  <2> QED
    BY <2>1, <2>2
<1> QED
  BY <1>6, <1>7, <1>9 DEF Told

LEMMA ConstructKeepsTold ==
    ASSUME Inv, Once, Told, NEW k \in Keys, NEW c \in Conns, NEW d, NEW ciph, NEW first,
           Construct(k, c, d, ciph, first), FreshPair(k), PlaceOK(k)',
           first \in SaidOn(c)'
    PROVE  Told'
<1>1. /\ TypeOK /\ ServerTypes /\ ClientOK(k) /\ LinkOK(c) /\ OnceOK(k)
      /\ draws[k] = 0 /\ draws' = [draws EXCEPT ![k] = 1]
      /\ link[c] = "free" /\ up' = [up EXCEPT ![c] = <<PublicKey(k), first>>] /\ down' = down
      /\ conn' = [conn EXCEPT ![k] = c] /\ data' = [data EXCEPT ![k] = d]
      /\ cipher' = [cipher EXCEPT ![k] = ciph]
      /\ UNCHANGED <<issued, said, taken, restarts, serverVars, owner, users, roomsHistory>>
  BY DEF Construct, OpenLink, FreshPair, serverVars, Inv, Once
<1>2. data[k] = NoData /\ conn[k] = NoConn /\ c # NoConn /\ ~Keyed(k)
  BY <1>1, NullsOK DEF ClientOK
<1>3. /\ \A r \in Rooms : k \notin users[r]
      /\ \A r \in Rooms : owner[r] # k
  BY <1>1, NullsOK DEF OnceOK, Told, HouseOK, Owned, Exists
<1>4. /\ \A l \in Keys : l # k => /\ data'[l] = data[l] /\ cipher'[l] = cipher[l]
                                  /\ conn'[l] = conn[l] /\ draws'[l] = draws[l]
      /\ conn'[k] = c /\ draws'[k] = 1
  BY <1>1 DEF ServerTypes, TypeOK
<1>5. Steady
  <2>1. Grows
    BY <1>1, AwayGrows DEF Away
  <2> QED
    BY <1>1, <1>2, <1>4, <2>1 DEF Steady
<1>6. ASSUME NEW l \in Keys
      PROVE  PlaceOK(l)'
  BY <1>4, <1>5, PlaceStays
<1>7. ASSUME NEW r \in Rooms
      PROVE  HouseOK(r)'
  <2>1. Exists(r) => owner[r] # k /\ owner[r] \in Keys
    BY <1>1, <1>3, ConstantsOK DEF Exists, ServerTypes
  <2> QED
    BY <1>1, <1>4, <1>5, <2>1, HouseStays
<1>8. ASSUME NEW x \in Conns
      PROVE  WordOK(x)'
  <2>1. CASE x = c
    <3>1. /\ PublicKey(k) \in Frames /\ PublicKey(k).cmd = "PUBKEY"
      BY DEF PublicKey, Frame, Frames, Commands
    <3>2. PublicKey(k) \in SaidOn(c)'
      BY <3>1 DEF SaidOn, Known, Sealed, Acts, Posted, Rotation, Says, Answer, Asking
    <3>3. <<PublicKey(k), first>> \in Seq(SaidOn(c)')
      BY <3>2
    <3>4. down[c] = << >> /\ << >> \in Seq(Heard(c)')
      BY <1>1, EmptySeq DEF LinkOK
    <3>5. up'[c] = <<PublicKey(k), first>>
      BY <1>1 DEF ServerTypes
    <3> QED
      BY <1>1, <2>1, <3>3, <3>4, <3>5 DEF WordOK
  <2>2. CASE x # c
    <3>1. up'[x] = up[x] /\ down'[x] = down[x]
      BY <1>1, <2>2 DEF ServerTypes
    <3>2. \A m \in Keys : conn[m] = x => m # k
      BY <1>2, NullsOK
    <3>3. /\ \A m \in Keys : conn[m] = x => /\ conn'[m] = x
                                            /\ Keyed(m) => Keyed(m)' /\ data'[m] # NoData
          /\ \A m \in Creators : conn'[m] = x => conn[m] = x
      BY <1>4, <2>2, <3>2, ConstantsOK DEF Keyed, Inv, ClientOK
    <3>4. up[x] \in Seq(SaidOn(x)') /\ down[x] \in Seq(Heard(x)')
      BY <1>1, <1>5, <3>3, WordGrows
    <3> QED
      BY <3>1, <3>4 DEF WordOK
  <2> QED
    BY <2>1, <2>2
<1> QED
  BY <1>6, <1>7, <1>8 DEF Told

LEMMA NewRoomOfKeepsTold ==
    ASSUME Inv, Once, Told, NEW k \in Keys, NEW c \in Conns, NewRoomOf(k, c)
    PROVE  Told'
<1>1. PICK d : d = RoomData(NoRoom, k, RoomKey(k, 1), 0, {}, NoInvite)
  OBVIOUS
<1>2. /\ k \in Creators /\ FreshPair(k) /\ Construct(k, c, d, RoomKey(k, 1), NewRoom)
      /\ TypeOK /\ OnceOK(k) /\ ServerTypes
  BY <1>1 DEF NewRoomOf, Inv, Once
<1>3. d.name = NoRoom /\ d.messageCount = 0
  BY <1>1 DEF RoomData
<1>4. /\ data'[k] = d /\ cipher'[k] = RoomKey(k, 1) /\ draws'[k] = 1 /\ conn'[k] = c
      /\ owner' = owner
  BY <1>2 DEF Construct, FreshPair, serverVars, TypeOK, ServerTypes
<1>5. PlaceOK(k)'
  BY <1>3, <1>4 DEF PlaceOK, CreatorOK, Null
<1>6. \A r \in Rooms : owner'[r] # k
  BY <1>2, <1>4, NullsOK DEF FreshPair, OnceOK, Told, HouseOK, Owned, Exists
<1>7. NewRoom \in Frames /\ NewRoom.cmd = "ROOM.CREATE"
  BY DEF Frames, Commands, NewRoom, Frame
<1>8. NewRoom \in SaidOn(c)'
  <2>1. NewRoom \in Known'
    BY <1>7 DEF Known, Sealed, Posted, Rotation, Says, Answer, Asking
  <2>2. SaidBy(k, NewRoom)'
    BY <1>2, <1>6, <1>7 DEF SaidBy, Posted, Rotation, Says, Answer
  <2> QED
    BY <1>4, <2>1, <2>2 DEF SaidOn
<1> QED
  BY <1>2, <1>5, <1>8, ConstructKeepsTold

LEMMA OpenByInviteKeepsTold ==
    ASSUME Inv, Once, Told, NEW k \in Keys, NEW c \in Conns, NEW i \in Invites,
           OpenByInvite(k, c, i)
    PROVE  Told'
<1>1. PICK d, first, inv :
         /\ inv = issued[i]
         /\ d = RoomData(inv.room, inv.owner, RoomKey(k, 1), Null, {}, i)
         /\ first = Invite(inv.owner, inv.room, k, Seal(NoCipher, i, RoomKey(k, 1)))
  OBVIOUS
<1>2. /\ k \notin Creators /\ FreshPair(k) /\ Construct(k, c, d, NoCipher, first)
      /\ TypeOK /\ ServerTypes /\ inv # NoInvite
  BY <1>1 DEF OpenByInvite, Inv
<1>3. d.name = inv.room
  BY <1>1 DEF RoomData
<1>4. data'[k] = d /\ cipher'[k] = NoCipher /\ draws'[k] = 1
  BY <1>2 DEF Construct, FreshPair, TypeOK, ServerTypes
<1>5. PlaceOK(k)'
  BY <1>2, <1>4 DEF PlaceOK, Keyed
<1>6. /\ first.cmd = "ROOM.INVITE.VERIFICATION_REQUEST" /\ first.room = inv.room
      /\ first.from = k /\ first \in Frames
  <2>1. RoomKey(k, 1) \in RoomKeys
    BY DEF RoomKey, RoomKeys
  <2>2. inv \in [room : Rooms, owner : Keys]
    BY <1>1, <1>2 DEF ServerTypes
  <2>3. Seal(NoCipher, i, RoomKey(k, 1)) \in Seals
    BY <2>1 DEF Seals, Seal
  <2> QED
    BY <1>1, <2>2, <2>3 DEF Invite, Frame, Frames, Commands
<1>7. first \in SaidOn(c)'
  <2>1. Joins(k, inv.room)'
    BY <1>2, <1>3, <1>4 DEF Joins
  <2> QED
    BY <1>6, <2>1 DEF SaidOn, Known, Sealed, Acts, Posted, Rotation, Says, Answer, Asking
<1> QED
  BY <1>2, <1>5, <1>7, ConstructKeepsTold

LEMMA GenerateInviteKeepsTold ==
    ASSUME Inv, Told, NEW k \in Keys, NEW i \in Invites, GenerateInvite(k, i)
    PROVE  Told'
<1>1. /\ stage[k] = "open" /\ issued[i] = NoInvite
      /\ issued' = [issued EXCEPT ![i] = [room |-> data[k].name, owner |-> k]]
      /\ data' = [data EXCEPT ![k].invites = @ \cup {i}]
      /\ UNCHANGED <<wireVars, serverVars, stage, conn, cipher, saved, draws, said, opens,
                     taken, restarts>>
      /\ TypeOK /\ ServerTypes /\ ClientOK(k) /\ PlaceOK(k)
  BY DEF GenerateInvite, Inv, Told
<1>2. Away /\ Grows
  <2>1. \A j \in Invites : issued[j] # NoInvite => issued'[j] = issued[j]
    BY <1>1 DEF ServerTypes
  <2> QED
    BY <1>1, <2>1, AwayGrows DEF Away
<1>3. data[k] # NoData /\ data[k] \in Datas
  BY <1>1 DEF ClientOK, TypeOK
<1>4. /\ data'[k] \in Datas /\ data'[k] # NoData /\ data'[k].name = data[k].name
      /\ data'[k].messageCount = data[k].messageCount
  BY <1>1, <1>3, NullsOK DEF TypeOK, Datas
<1>5. \A l \in Keys : l # k => SameClient(l)
  BY <1>1 DEF SameClient, TypeOK
<1>6. Steady
  BY <1>1, <1>2, <1>3, <1>4, <1>5 DEF Steady, SameClient
<1>7. PlaceOK(k)'
  <2>1. Keyed(k) /\ conn[k] # NoConn /\ data[k].name # NoRoom => Opened(data[k].name)'
    <3>1. PICK r : r = data[k].name
      OBVIOUS
    <3>2. Keyed(k) /\ conn[k] # NoConn /\ r # NoRoom => r \in Rooms /\ Opened(r)
      BY <3>1, KeyedPlace
    <3> QED
      BY <1>4, <1>6, <3>1, <3>2, OpenedStays
  <2> QED
    BY <1>1, <1>3, <1>4, <2>1 DEF PlaceOK, CreatorOK, Keyed
<1> QED
  BY <1>1, <1>4, <1>5, <1>6, <1>7, TalkKeepsTold DEF wireVars, Keyed

LEMMA SendMessageKeepsTold ==
    ASSUME Inv, Told, NEW k \in Keys, NEW t \in Texts, SendMessage(k, t)
    PROVE  Told'
<1>1. /\ stage[k] = "open" /\ said[t] = NoKey /\ said' = [said EXCEPT ![t] = k]
      /\ Submit(conn[k], Message(data[k].name, Seal(cipher[k], NoInvite, t)))
      /\ UNCHANGED <<link, down, serverVars, roomVars, issued, opens, taken, restarts>>
      /\ TypeOK /\ ServerTypes /\ ClientOK(k)
  BY DEF SendMessage, Inv
<1>2. Away /\ Grows
  BY <1>1, AwayGrows DEF Away
<1>3. data[k] # NoData /\ data[k].name # NoRoom /\ Keyed(k)
  BY <1>1 DEF ClientOK
<1>4. \A l \in Keys : SameClient(l)
  BY <1>1 DEF SameClient, roomVars
<1>5. Steady
  BY <1>1, <1>2, <1>4 DEF Steady, SameClient, TypeOK
<1>6. PlaceOK(k)'
  BY <1>4, <1>5, PlaceStays DEF SameClient
<1>7. UNCHANGED <<data, cipher, conn, owner, link, serverVars>> /\ said'[t] = k
  BY <1>1 DEF roomVars, serverVars, TypeOK
<1>8. CASE conn[k] = NoConn
  <2>1. up' = up
    BY <1>1, <1>8 DEF Submit
  <2> QED
    BY <1>1, <1>3, <1>4, <1>5, <1>6, <1>7, <2>1, TalkKeepsTold DEF Keyed
<1>9. CASE conn[k] # NoConn
  <2>1. /\ data[k].name \in Rooms /\ cipher[k] \in RoomKeys /\ cipher[k].by = data[k].owner
        /\ Opened(data[k].name) /\ owner[data[k].name] = data[k].owner
    BY <1>3, <1>9, KeyedPlace
  <2>2. PICK g : g = Message(data[k].name, Seal(cipher[k], NoInvite, t))
    OBVIOUS
  <2>3. /\ g \in Sealed /\ Posted(g) /\ Says(g) /\ ~Rotation(g) /\ ~Answer(g)
        /\ g.room = data[k].name /\ g.body.seal = cipher[k] /\ g.body.content = t
        /\ g.cmd = "ROOM.MESSAGE"
    BY <2>1, <2>2, MessageFrame
  <2>4. Opened(g.room)'
    BY <1>5, <2>1, <2>3, OpenedStays
  <2>5. g \in Known'
    BY <1>7, <2>1, <2>3, <2>4, NullsOK DEF Known, Asking
  <2>6. SaidBy(k, g)'
    BY <1>3, <1>7, <2>3 DEF SaidBy, Keyed
  <2>7. g \in SaidOn(conn[k])'
    BY <1>7, <2>5, <2>6 DEF SaidOn
  <2> QED
    BY <1>1, <1>3, <1>4, <1>5, <1>6, <1>7, <2>2, <2>7, TalkKeepsTold DEF Keyed
<1> QED
  BY <1>8, <1>9

LEMMA RestartKeepsTold ==
    ASSUME Inv, Told, RestartServer
    PROVE  Told'
<1>1. /\ UNCHANGED <<data, cipher, draws>> /\ conn' = [k \in Keys |-> NoConn]
      /\ up' = [c \in Conns |-> << >>] /\ down' = [c \in Conns |-> << >>]
      /\ owner' = [r \in Rooms |-> NoKey] /\ users' = [r \in Rooms |-> {}]
      /\ roomsHistory' = [r \in Rooms |-> << >>]
  BY DEF RestartServer, Restart
<1>2. ASSUME NEW k \in Keys
      PROVE  PlaceOK(k)'
  BY <1>1 DEF Told, PlaceOK, CreatorOK
<1>3. ASSUME NEW c \in Conns
      PROVE  WordOK(c)'
  <2>1. up'[c] = << >> /\ down'[c] = << >>
    BY <1>1
  <2>2. << >> \in Seq(SaidOn(c)') /\ << >> \in Seq(Heard(c)')
    BY EmptySeq
  <2> QED
    BY <2>1, <2>2 DEF WordOK
<1>4. ASSUME NEW r \in Rooms
      PROVE  HouseOK(r)'
  <2>1. roomsHistory'[r] = << >> /\ users'[r] = {} /\ owner'[r] = NoKey
    BY <1>1
  <2>2. << >> \in Seq(Known')
    BY EmptySeq
  <2> QED
    BY <2>1, <2>2 DEF HouseOK, Exists
<1> QED
  BY <1>2, <1>3, <1>4 DEF Told

(* What the server does with the frames it takes: nothing of room and key, *)
(* or one of three.                                                        *)
TakesUp(c, f) == up[c] # << >> /\ f = Head(up[c]) /\ TakeUp(c) /\ link' = link

Plain == {f \in Known : ~Posted(f) /\ ~Answer(f)}

Closes == UNCHANGED <<up, down, owner, users, roomsHistory>>

Passes(c, f) ==
    /\ TakesUp(c, f) /\ ~Posted(f)
    /\ UNCHANGED <<owner, users, roomsHistory>>
    /\ \E fs : SendDown(fs) /\ \A x \in Conns : fs[x] \in Seq(Plain)

Founds(c, f, r, m) ==
    /\ TakesUp(c, f) /\ f.cmd = "ROOM.CREATE" /\ ~Exists(r)
    /\ conn[m] = c /\ SaidBy(m, f) /\ data[m] # NoData /\ data[m].name = NoRoom
    /\ Tail(up[c]) \in Seq(Later)
    /\ owner' = [owner EXCEPT ![r] = m]
    /\ users' = [users EXCEPT ![r] = {m}]
    /\ SendTo(c, <<RoomCreated(r)>>)
    /\ UNCHANGED roomsHistory

Admits(c, f, m) ==
    /\ TakesUp(c, f) /\ Answer(f)
    /\ conn[m] = c /\ SaidBy(m, f) /\ m = owner[f.room] /\ online[f.key] # NoConn
    /\ users' = [users EXCEPT ![f.room] = @ \cup {f.key}]
    /\ SendTo(online[f.key], <<f>> \o roomsHistory[f.room])
    /\ UNCHANGED <<owner, roomsHistory>>

Relays(c, f, m) ==
    /\ TakesUp(c, f) /\ Posted(f)
    /\ conn[m] = c /\ SaidBy(m, f) /\ (Rotation(f) => m = owner[f.room])
    /\ FanOut(f.room, m, f)
    /\ roomsHistory' = [roomsHistory EXCEPT ![f.room] =
                           IF Rotation(f) THEN <<f>> ELSE Append(@, f)]
    /\ UNCHANGED <<owner, users>>

LEMMA FirstSaid ==
    ASSUME Inv, Told, NEW c \in Conns, up[c] # << >>
    PROVE  Head(up[c]) \in SaidOn(c) /\ Tail(up[c]) \in Seq(SaidOn(c))
<1>1. up[c] \in Seq(SaidOn(c))
  BY DEF Told, WordOK
<1> QED
  BY <1>1, HeadTailProperties

LEMMA Author ==
    ASSUME Inv, Told, NEW c \in Conns, NEW f \in SaidOn(c), Acts(f)
    PROVE  \E m \in Keys :
              /\ conn[m] = c /\ SaidBy(m, f) /\ link[c] = "open"
              /\ pubKey[c] # NoKey => pubKey[c] = m
              /\ Posted(f) \/ Answer(f) =>
                    /\ f.room \in Rooms /\ f.room = data[m].name /\ Keyed(m) /\ Exists(f.room)
                    /\ m \in users[f.room] /\ owner[f.room] = data[m].owner
                    /\ m \in Creators => owner[f.room] = m
<1>1. PICK m \in Keys : conn[m] = c /\ SaidBy(m, f)
  BY DEF SaidOn
<1>2. conn[m] # NoConn
  BY <1>1, NullsOK
<1>3. link[c] = "open" /\ (pubKey[c] # NoKey => pubKey[c] = m)
  BY <1>1, <1>2, WhoIsThere
<1>4. f \in Sealed
  BY DEF SaidOn, Known
<1>5. Posted(f) \/ Answer(f) => f.room \in Rooms /\ f.room = data[m].name /\ Keyed(m)
  BY <1>1, <1>4 DEF SaidBy, Sealed, Posts
<1>6. Posted(f) \/ Answer(f) =>
         /\ m \in users[f.room] /\ owner[f.room] = data[m].owner /\ Exists(f.room)
         /\ m \in Creators => data[m].owner = m
  BY <1>2, <1>5, KeyedPlace, NullsOK DEF Opened
<1> QED
  BY <1>1, <1>3, <1>5, <1>6

LEMMA Listener ==
    ASSUME Inv, NEW l \in Keys, NEW u \in Keys, online[u] # NoConn, conn[l] = online[u]
    PROVE  l = u
  BY WhoIsThere, NullsOK DEF Inv, ServerOK

LEMMA NoBacklog ==
    ASSUME Inv, Once, NEW c \in Conns, up[c] # << >>, HandlePublicKey(c, Head(up[c]))
    PROVE  down' = down
<1>1. PICK f : f = Head(up[c])
  OBVIOUS
<1>2. f.cmd = "PUBKEY" /\ SendTo(c, history[f.key])
  BY <1>1 DEF HandlePublicKey, Request
<1>3. pubKey[c] = NoKey
  BY <1>1, <1>2, RequestIsKnown, KnownRequests
<1>4. PICK w \in Keys : SpokenBy(c, w) /\ f = PublicKey(w)
  BY <1>1, <1>3, RequestIsKnown
<1>5. f.key = w
  BY <1>4 DEF PublicKey, Frame
<1>6. ASSUME link[c] = "open"
      PROVE  history[w] = << >>
  <2>1. conn[w] = c /\ c # NoConn
    BY <1>4, <1>6, SpokenIsSpeaking, NullsOK DEF Once, OnceOK
  <2>2. \A r \in Rooms : w \notin users[r]
    BY <1>3, <2>1, NullsOK DEF Once, OnceOK
  <2>3. history[w] \in Seq(PostsTo(w)) /\ PostsTo(w) = {}
    BY <2>2 DEF Inv, ServerOK, PostsTo, Posts
  <2> QED
    BY <2>3, HeadTailProperties
<1>7. PICK h : h = history[w]
  OBVIOUS
<1>8. ASSUME NEW x \in Conns
      PROVE  down'[x] = down[x]
  <2>1. down[x] \o << >> = down[x]
    BY ConcatEmptySeq DEF Inv, ServerTypes
  <2>2. down'[x] = IF link[x] = "open" THEN down[x] \o (IF x = c THEN h ELSE << >>) ELSE down[x]
    BY <1>2, <1>5, <1>7 DEF SendTo, SendDown
  <2> QED
    BY <1>6, <1>7, <2>1, <2>2
<1>9. down \in [Conns -> Seq(Frames)] /\ down' = [x \in Conns |-> down'[x]]
  BY <1>2 DEF SendTo, SendDown, Inv, ServerTypes
<1>10. down = [x \in Conns |-> down[x]]
  BY <1>9
<1>11. [x \in Conns |-> down'[x]] = [x \in Conns |-> down[x]]
  BY <1>8
<1> QED
  BY <1>9, <1>10, <1>11

LEMMA PlainReply ==
    ASSUME NEW g \in Frames,
           g.cmd \in ReplyCommands \cup {"ROOM.INVITE.DECLINED", "ROOM.MESSAGE.ERROR"}
    PROVE  g \in Plain
<1>1. ~Posted(g) /\ ~Answer(g) /\ ~Rotation(g) /\ ~Says(g) /\ ~Asking(g)
  BY DEF ReplyCommands, Posted, Answer, Rotation, Says, Asking
<1> QED
  BY <1>1 DEF Plain, Known, Sealed

LEMMA PassesOn ==
    ASSUME NEW c \in Conns, NEW f, TakesUp(c, f), ~Posted(f), UNCHANGED <<owner, users, roomsHistory>>,
           NEW d, NEW g \in Plain, SendTo(d, <<g>>)
    PROVE  Passes(c, f)
<1> DEFINE fs == [x \in Conns |-> IF x = d THEN <<g>> ELSE << >>]
<1>1. SendDown(fs)
  BY DEF SendTo
<1>2. <<g>> \in Seq(Plain) /\ << >> \in Seq(Plain)
  BY EmptySeq
<1>3. \A x \in Conns : fs[x] \in Seq(Plain)
  BY <1>2
<1> HIDE DEF fs
<1> QED
  BY <1>1, <1>3 DEF Passes

LEMMA PassesNothing ==
    ASSUME ServerTypes, NEW c \in Conns, NEW f, TakesUp(c, f), ~Posted(f),
           UNCHANGED <<owner, users, roomsHistory>>, down' = down
    PROVE  Passes(c, f)
<1> DEFINE fs == [x \in Conns |-> << >>]
<1>1. SendDown(fs)
  BY SentNowhere
<1>2. \A x \in Conns : fs[x] \in Seq(Plain)
  BY EmptySeq
<1> HIDE DEF fs
<1> QED
  BY <1>1, <1>2 DEF Passes

LEMMA ServeCases ==
    ASSUME Inv, Once, Told, NEW c \in Conns, Serve(c)
    PROVE  \/ Closes
           \/ \E f : Passes(c, f)
           \/ \E f : \E r \in Rooms, m \in Keys : Founds(c, f, r, m)
           \/ \E f \in SaidOn(c), m \in Keys : Admits(c, f, m) \/ Relays(c, f, m)
<1>1. CASE HandleClose(c)
  BY <1>1 DEF HandleClose, FreeLink, Closes
<1>2. CASE up[c] # << >> /\ Handle(c, Head(up[c]))
  <2>1. PICK f : f = Head(up[c])
    OBVIOUS
  <2>2. TakesUp(c, f)
    BY <1>2, <2>1, RequestEffect DEF TakesUp
  <2>3. f \in SaidOn(c) /\ f \in Known /\ f \in Sealed /\ f \in Frames
    BY <1>2, <2>1, FirstSaid DEF SaidOn, Known, Sealed
  <2>4. pubKey[c] # NoKey =>
           f \in FromClient(pubKey[c]) /\ f.cmd # "PUBKEY" /\ pubKey[c] \in Keys
    BY <1>2, <2>1, RequestIsKnown, KnownRequests
  <2>5. CASE HandlePublicKey(c, f)
    <3>1. /\ f.cmd = "PUBKEY" /\ UNCHANGED <<owner, users, roomsHistory>>
      BY <2>5 DEF HandlePublicKey, Request
    <3>2. ~Posted(f) /\ down' = down
      BY <1>2, <2>1, <2>5, <3>1, NoBacklog DEF Posted
    <3> QED
      BY <2>2, <3>1, <3>2, PassesNothing DEF Inv
  <2>6. CASE \E r \in Rooms : HandleNewRoom(c, f, r)
    <3>1. PICK r \in Rooms :
             /\ f.cmd = "ROOM.CREATE" /\ ~Exists(r) /\ pubKey[c] # NoKey
             /\ owner' = [owner EXCEPT ![r] = pubKey[c]]
             /\ users' = [users EXCEPT ![r] = {pubKey[c]}]
             /\ SendTo(c, <<RoomCreated(r)>>) /\ UNCHANGED roomsHistory
      BY <2>6 DEF HandleNewRoom, KeyedRequest, Request
    <3>2. PICK m \in Keys : conn[m] = c /\ SaidBy(m, f) /\ pubKey[c] = m
      BY <2>3, <3>1, Author DEF Acts
    <3>3. Requests(c) = up[c] /\ conn[m] # NoConn
      BY <3>1, <3>2, NullsOK DEF Requests
    <3>4. FirstIs(m, f)
      BY <1>2, <2>1, <3>1, <3>2, <3>3 DEF Inv, ConnOK, FirstCommands
    <3>5. data[m].name = NoRoom /\ data[m] # NoData
      BY <3>1, <3>3, <3>4 DEF FirstIs, Creating, Inv, ClientOK
    <3>6. Tail(up[c]) \in Seq(Later)
      BY <1>2, <3>2, <3>3, WhoIsThere DEF SpokenBy
    <3> QED
      BY <2>2, <3>1, <3>2, <3>5, <3>6 DEF Founds
  <2>7. CASE HandleInvite(c, f)
    <3>1. /\ f.cmd = "ROOM.INVITE.VERIFICATION_REQUEST" /\ SendTo(online[f.key], <<f>>)
          /\ UNCHANGED <<owner, users, roomsHistory>>
      BY <2>7 DEF HandleInvite, KeyedRequest, Request, serverVars
    <3>2. ~Posted(f) /\ f \in Plain
      BY <2>3, <3>1 DEF Posted, Answer, Plain
    <3> QED
      BY <2>2, <3>1, <3>2, PassesOn
  <2>8. CASE DeclineInvite(c, f)
    <3>1. /\ f.cmd = "ROOM.INVITE.VERIFICATION_REQUEST" /\ SendTo(c, <<InvalidInvite(f.key)>>)
          /\ UNCHANGED <<owner, users, roomsHistory>> /\ f \in Asks
      BY <2>4, <2>8, KnownRequests DEF DeclineInvite, KeyedRequest, Request, serverVars
    <3>2. InvalidInvite(f.key) \in Plain
      BY <3>1, FrameTypes, PlainReply DEF InvalidInvite, Frame, Asks
    <3> QED
      BY <2>2, <3>1, <3>2, PassesOn DEF Posted
  <2>9. CASE HandleInviteResponse(c, f)
    <3>1. /\ f.cmd = "ROOM.INVITE.VERIFICATION_RESPONSE" /\ pubKey[c] # NoKey
          /\ pubKey[c] = owner[f.room] /\ online[f.key] # NoConn
          /\ users' = [users EXCEPT ![f.room] = @ \cup {f.key}]
          /\ SendTo(online[f.key], <<f>> \o roomsHistory[f.room])
          /\ UNCHANGED <<owner, roomsHistory>>
      BY <2>9 DEF HandleInviteResponse, KeyedRequest, Request, ResponseIsValid
    <3>2. PICK m \in Keys : conn[m] = c /\ SaidBy(m, f) /\ pubKey[c] = m
      BY <2>3, <3>1, Author DEF Acts, Answer
    <3> QED
      BY <2>2, <2>3, <3>1, <3>2 DEF Admits, Answer
  <2>10. CASE DropInviteResponse(c, f)
    <3>1. /\ f.cmd = "ROOM.INVITE.VERIFICATION_RESPONSE" /\ down' = down
          /\ UNCHANGED <<owner, users, roomsHistory>>
      BY <2>10 DEF DropInviteResponse, KeyedRequest, Request, serverVars
    <3> QED
      BY <2>2, <3>1, PassesNothing DEF Posted, Inv
  <2>11. CASE HandleOpenRoom(c, f)
    <3>1. /\ f.cmd = "ROOM.OPEN" /\ UNCHANGED <<owner, users, roomsHistory>> /\ f.room \in Rooms
          /\ \E g \in {OpenedRoom, ErrorRoom(f.room)} : SendTo(c, <<g>>)
      BY <2>4, <2>11, KnownRequests DEF HandleOpenRoom, KeyedRequest, Request, serverVars
    <3>2. OpenedRoom \in Plain /\ ErrorRoom(f.room) \in Plain
      BY <3>1, FrameTypes, PlainReply DEF OpenedRoom, ErrorRoom, Frame, ReplyCommands
    <3> QED
      BY <2>2, <3>1, <3>2, PassesOn DEF Posted
  <2>12. CASE HandleMessage(c, f) \/ HandleKeyRotate(c, f)
    <3>1. /\ Posted(f) /\ pubKey[c] # NoKey /\ FanOut(f.room, pubKey[c], f)
          /\ UNCHANGED <<owner, users>>
          /\ Rotation(f) => pubKey[c] = owner[f.room]
          /\ roomsHistory' = [roomsHistory EXCEPT ![f.room] =
                                 IF Rotation(f) THEN <<f>> ELSE Append(@, f)]
      BY <2>12 DEF HandleMessage, HandleKeyRotate, KeyedRequest, Request, MayRotate, Posted, Rotation
    <3>2. PICK m \in Keys : conn[m] = c /\ SaidBy(m, f) /\ pubKey[c] = m
      BY <2>3, <3>1, Author DEF Acts
    <3> QED
      BY <2>2, <2>3, <3>1, <3>2 DEF Relays
  <2>13. CASE RefuseMessage(c, f) \/ RefuseKeyRotate(c, f)
    <3>1. /\ Posted(f) /\ pubKey[c] # NoKey
          /\ f.cmd = "ROOM.MESSAGE" => ~MayPost(c, f)
          /\ f.cmd = "ROOM.MESSAGE.KEY.ROTATE" => ~MayRotate(c, f)
      BY <2>13 DEF RefuseMessage, RefuseKeyRotate, KeyedRequest, Request, Posted
    <3>2. PICK m \in Keys : /\ SaidBy(m, f) /\ pubKey[c] = m /\ Exists(f.room)
                            /\ m \in users[f.room] /\ (m \in Creators => owner[f.room] = m)
      BY <2>3, <3>1, Author DEF Acts
    <3> QED
      BY <3>1, <3>2 DEF MayPost, MayRotate, SaidBy, Posted, Rotation
  <2> QED
    BY <1>2, <2>1, <2>5, <2>6, <2>7, <2>8, <2>9, <2>10, <2>11, <2>12, <2>13 DEF Handle
<1> QED
  BY <1>1, <1>2 DEF Serve, ServerStep

LEMMA ServeSteady ==
    ASSUME Inv, Once, Told, NEW c \in Conns, Serve(c)
    PROVE  /\ Steady /\ Ids
           /\ UNCHANGED <<stage, conn, data, cipher, saved, draws, said>>
<1>1. Ids /\ UNCHANGED <<stage, conn, data, cipher, saved, draws, said, issued, restarts>>
  BY DEF Serve, Ids, roomVars
<1>2. Grows
  <2>1. CASE \E f : \E r \in Rooms, m \in Keys : Founds(c, f, r, m)
    <3>1. PICK r \in Rooms, m \in Keys :
             /\ ~Exists(r) /\ owner' = [owner EXCEPT ![r] = m]
             /\ users' = [users EXCEPT ![r] = {m}]
      BY <2>1 DEF Founds
    <3>2. \A q \in Rooms : Exists(q) => owner'[q] = owner[q]
      BY <3>1 DEF Exists, Inv, ServerTypes
    <3>3. \A q \in Rooms : users[q] \subseteq users'[q]
      BY <3>1 DEF Inv, ServerTypes, ServerOK
    <3> QED
      BY <1>1, <3>2, <3>3 DEF Grows, Ids
  <2>2. CASE owner' = owner /\ \A q \in Rooms : users[q] \subseteq users'[q]
    BY <1>1, <2>2, SameRoomsGrow
  <2>3. CASE \E f : \E m \in Keys : Admits(c, f, m)
    <3>1. owner' = owner /\ \A q \in Rooms : users[q] \subseteq users'[q]
      BY <2>3 DEF Admits, Inv, ServerTypes
    <3> QED
      BY <2>2, <3>1
  <2> QED
    BY <2>1, <2>2, <2>3, ServeCases DEF Closes, Passes, Relays
<1> QED
  BY <1>1, <1>2 DEF Steady

(* On a connection of nobody who founds a room.                            *)
LEMMA ServedWord ==
    ASSUME Inv, Told, Steady, UNCHANGED <<conn, data, cipher>>, NEW x \in Conns,
           \A m \in Keys : conn[m] = x /\ (\A r \in Rooms : owner[r] # m)
                              => \A r \in Rooms : owner'[r] # m,
           up'[x] = up[x] \/ (up[x] # << >> /\ up'[x] = Tail(up[x])),
           down'[x] = down[x] \/ \E s \in Seq(Heard(x)') : down'[x] = down[x] \o s
    PROVE  WordOK(x)'
<1>1. /\ \A m \in Keys : conn[m] = x => /\ conn'[m] = x
                                        /\ Keyed(m) => Keyed(m)' /\ data'[m] # NoData
      /\ \A m \in Creators : conn'[m] = x => conn[m] = x
  BY DEF Keyed, Inv, ClientOK
<1>2. up[x] \in Seq(SaidOn(x)') /\ down[x] \in Seq(Heard(x)')
  BY <1>1, WordGrows
<1>3. up'[x] \in Seq(SaidOn(x)')
  <2>1. CASE up'[x] = up[x]
    BY <1>2, <2>1
  <2>2. CASE up[x] # << >> /\ up'[x] = Tail(up[x])
    <3>1. PICK S : S = SaidOn(x)'
      OBVIOUS
    <3>2. Tail(up[x]) \in Seq(S)
      BY <1>2, <2>2, <3>1, HeadTailProperties
    <3> QED
      BY <2>2, <3>1, <3>2
  <2> QED
    BY <2>1, <2>2
<1>4. down'[x] \in Seq(Heard(x)')
  BY <1>2, ConcatProperties
<1> QED
  BY <1>3, <1>4 DEF WordOK

LEMMA SentDown ==
    ASSUME NEW fs, SendDown(fs), NEW x \in Conns, NEW S, fs[x] \in Seq(S)
    PROVE  down'[x] = down[x] \/ \E s \in Seq(S) : down'[x] = down[x] \o s
  BY DEF SendDown

LEMMA SentTo ==
    ASSUME NEW d, NEW s, SendTo(d, s), NEW x \in Conns
    PROVE  down'[x] = IF link[x] = "open" THEN down[x] \o (IF x = d THEN s ELSE << >>) ELSE down[x]
  BY DEF SendTo, SendDown

LEMMA TakenUp ==
    ASSUME Inv, NEW c \in Conns, NEW f, TakesUp(c, f)
    PROVE  /\ up'[c] = Tail(up[c]) /\ up[c] # << >>
           /\ \A x \in Conns : x # c => up'[x] = up[x]
  BY DEF TakesUp, TakeUp, Inv, ServerTypes

LEMMA PassesKeepsTold ==
    ASSUME Inv, Told, Steady, UNCHANGED <<conn, data, cipher, draws>>, NEW c \in Conns, NEW f,
           Passes(c, f)
    PROVE  Told'
<1>1. ASSUME NEW k \in Keys
      PROVE  PlaceOK(k)'
  BY PlaceStays
<1>2. ASSUME NEW r \in Rooms
      PROVE  HouseOK(r)'
  <2>1. UNCHANGED <<owner, users, roomsHistory>>
    BY DEF Passes
  <2> QED
    BY <2>1, HouseStays
<1>3. ASSUME NEW x \in Conns
      PROVE  WordOK(x)'
  <2>1. PICK fs : SendDown(fs) /\ \A y \in Conns : fs[y] \in Seq(Plain)
    BY DEF Passes
  <2>2. Plain \subseteq Heard(x)'
    BY KnownGrows DEF Plain, Heard, Posted, Rotation, Says
  <2>3. fs[x] \in Seq(Heard(x)')
    BY <2>1, <2>2, SeqGrows
  <2>4. down'[x] = down[x] \/ \E s \in Seq(Heard(x)') : down'[x] = down[x] \o s
    BY <2>1, <2>3, SentDown
  <2>5. up'[x] = up[x] \/ (up[x] # << >> /\ up'[x] = Tail(up[x]))
    BY TakenUp DEF Passes
  <2>6. owner' = owner
    BY DEF Passes
  <2> QED
    BY <2>4, <2>5, <2>6, ServedWord
<1> QED
  BY <1>1, <1>2, <1>3 DEF Told

LEMMA FoundsKeepsTold ==
    ASSUME Inv, Told, Steady, UNCHANGED <<conn, data, cipher, draws>>, NEW c \in Conns, NEW f,
           NEW r \in Rooms, NEW m \in Keys, Founds(c, f, r, m)
    PROVE  Told'
<1>1. /\ TakesUp(c, f) /\ f.cmd = "ROOM.CREATE" /\ ~Exists(r)
      /\ conn[m] = c /\ SaidBy(m, f) /\ data[m] # NoData /\ data[m].name = NoRoom
      /\ Tail(up[c]) \in Seq(Later) /\ up[c] # << >>
      /\ owner' = [owner EXCEPT ![r] = m] /\ users' = [users EXCEPT ![r] = {m}]
      /\ SendTo(c, <<RoomCreated(r)>>) /\ roomsHistory' = roomsHistory
      /\ ServerTypes /\ c # NoConn
  BY NullsOK DEF Founds, TakesUp, Inv
<1>2. /\ owner'[r] = m /\ users'[r] = {m} /\ m \in Creators
      /\ \A q \in Rooms : owner[q] # m
      /\ \A q \in Rooms : q # r => owner'[q] = owner[q] /\ users'[q] = users[q]
  BY <1>1 DEF ServerTypes, SaidBy
<1>3. ASSUME NEW k \in Keys
      PROVE  PlaceOK(k)'
  BY PlaceStays
<1>4. ASSUME NEW q \in Rooms
      PROVE  HouseOK(q)'
  <2>1. CASE q = r
    <3>1. roomsHistory[q] \in Seq(Known)
      BY DEF Told, HouseOK
    <3>2. roomsHistory'[q] \in Seq(Known')
      BY <1>1, <3>1, KnownGrows, SeqGrows
    <3> QED
      BY <1>1, <1>2, <2>1, <3>2 DEF HouseOK, Owned
  <2>2. CASE q # r
    BY <1>1, <1>2, <2>2, HouseStays
  <2> QED
    BY <2>1, <2>2
<1>5. ASSUME NEW x \in Conns
      PROVE  WordOK(x)'
  <2>1. RoomCreated(r) \in Heard(x)'
    <3>1. RoomCreated(r) \in Plain
      BY FrameTypes, PlainReply DEF RoomCreated, Frame, ReplyCommands
    <3> QED
      BY <3>1, KnownGrows DEF Plain, Heard, Posted, Rotation, Says
  <2>2. <<RoomCreated(r)>> \in Seq(Heard(x)') /\ << >> \in Seq(Heard(x)')
    BY <2>1, EmptySeq
  <2>3. down'[x] = down[x] \/ \E s \in Seq(Heard(x)') : down'[x] = down[x] \o s
    BY <1>1, <2>2, SentTo
  <2>4. CASE x # c
    <3>1. up'[x] = up[x]
      BY <1>1, <2>4, TakenUp
    <3>2. \A l \in Keys : conn[l] = x => l # m
      BY <1>1, <2>4
    <3>3. \A l \in Keys : conn[l] = x /\ (\A q \in Rooms : owner[q] # l)
                             => \A q \in Rooms : owner'[q] # l
      BY <1>2, <3>2
    <3> QED
      BY <2>3, <3>1, <3>3, ServedWord
  <2>5. CASE x = c
    <3>1. ASSUME NEW g \in SaidOn(c), g \in Later
          PROVE  g \in SaidOn(c)'
      <4>1. g \in Known /\ g \in Known' /\ g \in Sealed
        BY <3>1, KnownGrows DEF SaidOn, Known
      <4>2. ~Acts(g)
        <5>1. SUFFICES ASSUME Acts(g)
                       PROVE  FALSE
          OBVIOUS
        <5>2. Posted(g) \/ Answer(g)
          BY <3>1, <5>1, LaterAreNotFirst DEF Acts, FirstCommands
        <5>3. PICK l \in Keys : conn[l] = c /\ g.room \in Rooms /\ g.room = data[l].name
          BY <5>1, <5>2, Author
        <5>4. l = m
          BY <1>1, <5>3, ConnsApart
        <5> QED
          BY <1>1, <5>3, <5>4, NullsOK
      <4> QED
        BY <4>1, <4>2 DEF SaidOn, Acts
    <3>2. Tail(up[c]) \in Seq(SaidOn(c))
      BY <1>1, FirstSaid
    <3>3. \A i \in DOMAIN Tail(up[c]) : Tail(up[c])[i] \in SaidOn(c) /\ Tail(up[c])[i] \in Later
      BY <1>1, <3>2, ElementOfSeq, LenProperties
    <3>4. Tail(up[c]) \in Seq(SaidOn(c)')
      <4>1. PICK t : t = Tail(up[c])
        OBVIOUS
      <4>2. \A i \in DOMAIN t : t[i] \in SaidOn(c)'
        BY <3>1, <3>3, <4>1
      <4> QED
        BY <3>2, <4>1, <4>2, ElementsMakeSeq
    <3>5. up'[c] \in Seq(SaidOn(c)')
      BY <1>1, <3>4, TakenUp
    <3>6. down[c] \in Seq(Heard(c)')
      <4>1. Heard(c) \subseteq Heard(c)'
        BY DownGrows
      <4>2. down[c] \in Seq(Heard(c))
        BY DEF Told, WordOK
      <4> QED
        BY <4>1, <4>2, SeqGrows
    <3>7. down'[c] \in Seq(Heard(c)')
      BY <2>3, <2>5, <3>6, ConcatProperties
    <3> QED
      BY <2>5, <3>5, <3>7 DEF WordOK
  <2> QED
    BY <2>4, <2>5
<1> QED
  BY <1>3, <1>4, <1>5 DEF Told

LEMMA AdmitsKeepsTold ==
    ASSUME Inv, Told, Steady, UNCHANGED <<conn, data, cipher, draws>>, NEW c \in Conns,
           NEW f \in SaidOn(c), NEW m \in Keys, Admits(c, f, m)
    PROVE  Told'
<1>1. /\ f \in Known /\ f.room \in Rooms /\ Joins(f.key, f.room) /\ f.key \in Keys
      /\ f.key \notin Creators
  BY DEF SaidOn, Known, Sealed, Admits, Joins
<1>2. PICK d, s : d = online[f.key] /\ s = <<f>> \o roomsHistory[f.room]
  OBVIOUS
<1>3. /\ TakesUp(c, f) /\ d # NoConn /\ SendTo(d, s)
      /\ users' = [users EXCEPT ![f.room] = @ \cup {f.key}]
      /\ UNCHANGED <<owner, roomsHistory>> /\ ServerTypes
  BY <1>2 DEF Admits, Inv
<1>4. ASSUME NEW k \in Keys
      PROVE  PlaceOK(k)'
  BY PlaceStays
<1>5. ASSUME NEW r \in Rooms
      PROVE  HouseOK(r)'
  <2>1. \A k \in users'[r] : k \in users[r] \/ Joins(k, r)'
    BY <1>1, <1>3, JoinsStays DEF ServerTypes
  <2> QED
    BY <1>3, <2>1, HouseStays
<1>6. \A l \in Creators : conn[l] # d
  BY <1>1, <1>2, <1>3, Listener, ConstantsOK
<1>7. ASSUME NEW x \in Conns
      PROVE  WordOK(x)'
  <2>1. << >> \in Seq(Heard(x)')
    BY EmptySeq
  <2>2. ASSUME x = d
        PROVE  s \in Seq(Heard(x)')
    <3>1. Known \subseteq Heard(x)'
      BY <1>6, <2>2, KnownGrows DEF Heard
    <3>2. roomsHistory[f.room] \in Seq(Known)
      BY <1>1 DEF Told, HouseOK
    <3>3. s \in Seq(Known)
      <4>1. <<f>> \in Seq(Known)
        BY <1>1
      <4> QED
        BY <1>2, <3>2, <4>1, ConcatProperties
    <3> QED
      BY <3>1, <3>3, SeqGrows
  <2>3. down'[x] = down[x] \/ \E t \in Seq(Heard(x)') : down'[x] = down[x] \o t
    <3>1. down'[x] = IF link[x] = "open" THEN down[x] \o (IF x = d THEN s ELSE << >>) ELSE down[x]
      BY <1>3, SentTo
    <3> QED
      BY <2>1, <2>2, <3>1
  <2>4. up'[x] = up[x] \/ (up[x] # << >> /\ up'[x] = Tail(up[x]))
    BY <1>3, TakenUp
  <2> QED
    BY <1>3, <2>3, <2>4, ServedWord
<1> QED
  BY <1>4, <1>5, <1>7 DEF Told

(* Who of the members present a posted frame reaches, ...                  *)
LEMMA RelayedTo ==
    ASSUME Inv, NEW f, NEW r, NEW m, FanOut(r, m, f), NEW x \in Conns
    PROVE  \/ down'[x] = down[x]
           \/ (\E u \in users[r] : u # m /\ online[u] = x) /\ down'[x] = down[x] \o <<f>>
<1>1. PICK present : present = Present(r, m)
  OBVIOUS
<1> DEFINE fs == [y \in Conns |-> IF \E u \in present : online[u] = y THEN <<f>> ELSE << >>]
<1>2. SendDown(fs)
  BY <1>1 DEF FanOut
<1>3. down[x] \o << >> = down[x]
  BY ConcatEmptySeq DEF Inv, ServerTypes
<1>4. fs[x] = IF \E u \in present : online[u] = x THEN <<f>> ELSE << >>
  OBVIOUS
<1> HIDE DEF fs
<1>5. down'[x] = IF link[x] = "open" THEN down[x] \o fs[x] ELSE down[x]
  BY <1>2 DEF SendDown
<1> QED
  BY <1>1, <1>3, <1>4, <1>5 DEF Present

LEMMA RelaysKeepsTold ==
    ASSUME Inv, Told, Steady, UNCHANGED <<conn, data, cipher, draws>>, NEW c \in Conns,
           NEW f \in SaidOn(c), NEW m \in Keys, Relays(c, f, m)
    PROVE  Told'
<1>1. /\ f \in Known /\ f.room \in Rooms /\ SaidBy(m, f) /\ Posted(f)
      /\ Rotation(f) => m = owner[f.room]
  BY DEF SaidOn, Known, Sealed, Relays, Posts
<1>2. /\ TakesUp(c, f) /\ FanOut(f.room, m, f) /\ UNCHANGED <<owner, users>> /\ ServerTypes
      /\ ServerOK
      /\ roomsHistory' = [roomsHistory EXCEPT ![f.room] =
                             IF Rotation(f) THEN <<f>> ELSE Append(@, f)]
  BY DEF Relays, Inv
<1>3. ASSUME NEW k \in Keys
      PROVE  PlaceOK(k)'
  BY PlaceStays
<1>4. ASSUME NEW r \in Rooms
      PROVE  HouseOK(r)'
  <2>1. roomsHistory[r] \in Seq(Known')
    BY KnownGrows, SeqGrows DEF Told, HouseOK
  <2>2. roomsHistory'[r] \in {roomsHistory[r], <<f>>, Append(roomsHistory[r], f)}
    BY <1>1, <1>2 DEF ServerOK
  <2>3. f \in Known'
    BY <1>1, KnownGrows
  <2>4. <<f>> \in Seq(Known') /\ Append(roomsHistory[r], f) \in Seq(Known')
    BY <2>1, <2>3, AppendProperties
  <2> QED
    BY <1>2, <2>1, <2>2, <2>4, HouseStays
<1>5. ASSUME NEW x \in Conns
      PROVE  WordOK(x)'
  <2>1. ASSUME NEW u \in users[f.room], u # m, online[u] = x
        PROVE  f \in Heard(x)'
    <3>1. u \in Keys /\ x # NoConn
      BY <1>1, <1>2, <2>1, NullsOK DEF ServerTypes
    <3>2. SUFFICES ASSUME NEW k \in Creators, conn[k] = x
                   PROVE  ~Rotation(f) /\ (Says(f) => said'[f.body.content] # k)
      BY <1>1, KnownGrows DEF Heard
    <3>3. k = u
      BY <2>1, <3>1, <3>2, Listener, ConstantsOK
    <3>4. u = owner[f.room]
      BY <1>1, <2>1, <3>2, <3>3 DEF Told, HouseOK, Joins
    <3>5. ~Rotation(f)
      BY <1>1, <2>1, <3>4
    <3>6. Says(f) => said'[f.body.content] = m
      <4>1. Says(f) => f.body.content \in Texts /\ said[f.body.content] = m
        BY <1>1 DEF Known, Sealed, Says, Posted, Posts, SaidBy
      <4> QED
        BY <4>1, NullsOK DEF Steady
    <3> QED
      BY <2>1, <3>3, <3>5, <3>6
  <2>2. down'[x] = down[x] \/ \E s \in Seq(Heard(x)') : down'[x] = down[x] \o s
    <3>1. CASE down'[x] # down[x]
      <4>1. PICK u \in users[f.room] : u # m /\ online[u] = x /\ down'[x] = down[x] \o <<f>>
        BY <1>2, <3>1, RelayedTo
      <4>2. <<f>> \in Seq(Heard(x)')
        BY <2>1, <4>1
      <4> QED
        BY <4>1, <4>2
    <3> QED
      BY <3>1
  <2>3. up'[x] = up[x] \/ (up[x] # << >> /\ up'[x] = Tail(up[x]))
    BY <1>2, TakenUp
  <2> QED
    BY <1>2, <2>2, <2>3, ServedWord
<1> QED
  BY <1>3, <1>4, <1>5 DEF Told

LEMMA QuietKeepsTold ==
    ASSUME Inv, Told, Steady,
           UNCHANGED <<conn, data, cipher, draws, up, down, owner, users, roomsHistory>>
    PROVE  Told'
<1>1. \A k \in Keys : PlaceOK(k)'
  BY PlaceStays
<1>2. \A r \in Rooms : HouseOK(r)'
  BY HouseStays
<1>3. \A x \in Conns : WordOK(x)'
  BY ServedWord
<1> QED
  BY <1>1, <1>2, <1>3 DEF Told

LEMMA ServeKeepsTold ==
    ASSUME Inv, Once, Told, NEW c \in Conns, Serve(c)
    PROVE  Told'
<1>1. Steady /\ UNCHANGED <<conn, data, cipher, draws>>
  BY ServeSteady
<1>2. CASE Closes
  BY <1>1, <1>2, QuietKeepsTold DEF Closes
<1> QED
  BY <1>1, <1>2, ServeCases, PassesKeepsTold, FoundsKeepsTold, AdmitsKeepsTold, RelaysKeepsTold

LEMMA StutterKeepsTold ==
    ASSUME Inv, Told, UNCHANGED vars
    PROVE  Steady /\ Told'
<1>1. Away /\ UNCHANGED <<data, cipher, conn, draws, up, down, owner, users, roomsHistory, said, issued>>
  BY DEF vars, wireVars, serverVars, roomVars, usageVars, Away
<1>2. Steady
  BY <1>1, AwayGrows DEF Steady
<1> QED
  BY <1>1, <1>2, QuietKeepsTold

LEMMA NextKeepsTold ==
    ASSUME Leavers = {}, Inv, Once, Told, [Next]_vars
    PROVE  Told'
<1>1. ASSUME NEW k \in Keys, UserStep(k)
      PROVE  Told'
  <2>1. ~Leave(k)
    BY DEF Leave
  <2>2. \A c \in Conns : ~OpenExisting(k, c)
    BY NothingReopens
  <2> QED
    BY <1>1, <2>1, <2>2, NewRoomOfKeepsTold, OpenByInviteKeepsTold, GenerateInviteKeepsTold,
       SendMessageKeepsTold DEF UserStep
<1>2. ASSUME NEW k \in Keys, OnReceive(k)
      PROVE  Told'
  BY <1>2, ReadsFrame, ReadsKeepsTold, CrashKeepsTold
<1> QED
  BY <1>1, <1>2, ServeKeepsTold, RestartKeepsTold, StutterKeepsTold DEF Next

LEMMA InitHasTold == Init => Told
<1> SUFFICES ASSUME Init
             PROVE  Told
  OBVIOUS
<1>1. \A k \in Keys : PlaceOK(k)
  BY DEF Init, PlaceOK
<1>2. ASSUME NEW c \in Conns
      PROVE  WordOK(c)
  <2>1. up[c] = << >> /\ down[c] = << >>
    BY DEF Init, WireInit
  <2>2. << >> \in Seq(SaidOn(c)) /\ << >> \in Seq(Heard(c))
    BY EmptySeq
  <2> QED
    BY <2>1, <2>2 DEF WordOK
<1>3. ASSUME NEW r \in Rooms
      PROVE  HouseOK(r)
  <2>1. roomsHistory[r] = << >> /\ users[r] = {} /\ owner[r] = NoKey
    BY DEF Init, ServerInit
  <2>2. << >> \in Seq(Known)
    BY EmptySeq
  <2> QED
    BY <2>1, <2>2 DEF HouseOK, Exists
<1> QED
  BY <1>1, <1>2, <1>3 DEF Told

-----------------------------------------------------------------------------
(* The key of a room as the server's log tells it: the one the rotation it *)
(* starts with brought, or the first.                                      *)

ServerKey(r) ==
    LET log == roomsHistory[r]
    IN  IF log # << >> /\ Rotation(Head(log)) THEN Head(log).body.content ELSE RoomKey(owner[r], 1)

(* What who holds a key of number n, or a later one, can have seen.        *)
Under(n) ==
    {f \in Sealed : /\ Posted(f) => f.body.seal.n <= n
                    /\ Rotation(f) => f.body.seal.n < n}

(* From the server's key what the owner has sent leads to its own.         *)
OwnerOK(r) ==
    LET o == owner[r]
        c == conn[o]
        n == cipher[o].n
    IN  Exists(r) =>
            /\ up[c] \in Seq(Under(n)) /\ down[c] \in Seq(Under(n))
            /\ roomsHistory[r] \in Seq(Under(ServerKey(r).n))
            /\ Leads(ServerKey(r), up[c], cipher[o], TRUE)

(* From a member's key what is on its way to it leads to the server's key, *)
(* and so does what an answer under way brings.                            *)
MemberOK(k) ==
    LET c == conn[k]
        S == ServerKey(data[k].name)
    IN  k \notin Creators /\ c # NoConn /\ Exists(data[k].name) =>
            /\ up[c] \in Seq(Under(S.n))
            /\ Hands(down[c], S)
            /\ Keyed(k) => Leads(cipher[k], down[c], S, FALSE)

Chained == (\A r \in Rooms : OwnerOK(r)) /\ (\A k \in Keys : MemberOK(k))

LEMMA UnderGrows ==
    ASSUME NEW a \in Nat, NEW b \in Nat, a <= b
    PROVE  Under(a) \subseteq Under(b)
<1> SUFFICES ASSUME NEW f \in Under(a)
             PROVE  f \in Under(b)
  OBVIOUS
<1>1. f \in Sealed /\ (Posted(f) => f.body.seal.n \in Nat)
  BY DEF Under, Sealed, Posts, RoomKeys
<1> QED
  BY <1>1 DEF Under, Posted, Rotation

(* Frames of keys gone by keep who holds key where it is.                  *)
LEMMA UnderStays ==
    ASSUME NEW key \in RoomKeys, NEW f \in Under(key.n)
    PROVE  Switch(key, f) = key /\ Fits(key, f, FALSE)
<1>1. Rotation(f) => f.body.seal # key
  <2>1. Rotation(f) => f.body.seal.n < key.n /\ f.body.seal.n \in Nat
    BY DEF Under, Sealed, Posted, Rotation, Posts, RoomKeys
  <2> QED
    BY <2>1 DEF RoomKeys
<1> QED
  BY <1>1 DEF Switch, Rotation, Fits, Under

LEMMA UnderLeads ==
    ASSUME NEW key \in RoomKeys, NEW s \in Seq(Under(key.n))
    PROVE  Leads(key, s, key, FALSE)
  BY UnderStays, LeadsBack

(* Frames that are neither posted nor answers.                             *)
Still == {f \in Sealed : ~Posted(f) /\ ~Answer(f)}

LEMMA StillStays ==
    ASSUME NEW f \in Still
    PROVE  /\ \A n : f \in Under(n)
           /\ \A key : Switch(key, f) = key
           /\ \A key : Fits(key, f, TRUE) /\ Fits(key, f, FALSE)
<1>1. ~Rotation(f) /\ ~Posted(f) /\ ~Answer(f) /\ f \in Sealed
  BY DEF Still, Rotation, Posted
<1> QED
  BY <1>1 DEF Under, Switch, Fits, Rotation

LEMMA StillLeads ==
    ASSUME NEW s \in Seq(Still)
    PROVE  /\ \A key : Leads(key, s, key, TRUE) /\ Leads(key, s, key, FALSE)
           /\ \A key : Hands(s, key)
           /\ \A n : s \in Seq(Under(n))
<1>1. ASSUME NEW key
      PROVE  Leads(key, s, key, TRUE) /\ Leads(key, s, key, FALSE) /\ Hands(s, key)
  <2>1. \A f \in Still : ~Answer(f)
    BY DEF Still
  <2> QED
    BY <2>1, StillStays, LeadsBack, HandsNothing
<1>2. ASSUME NEW n
      PROVE  s \in Seq(Under(n))
  <2>1. Still \subseteq Under(n)
    BY StillStays
  <2> QED
    BY <2>1, SeqGrows
<1> QED
  BY <1>1, <1>2

(* A room that exists has its owner at the end of a connection.            *)
LEMMA OwnerPlace ==
    ASSUME Inv, Told, NEW r \in Rooms, Exists(r)
    PROVE  /\ owner[r] \in Keys /\ owner[r] \in Creators
           /\ conn[owner[r]] \in Conns /\ conn[owner[r]] # NoConn
           /\ data[owner[r]] \in Datas /\ data[owner[r]] # NoData
           /\ data[owner[r]].name \in {r, NoRoom} /\ data[owner[r]].messageCount # Null
           /\ owner[r] \in users[r] /\ link[conn[owner[r]]] = "open"
           /\ cipher[owner[r]] \in RoomKeys /\ cipher[owner[r]].n \in Nat
           /\ cipher[owner[r]] = RoomKey(owner[r], draws[owner[r]])
           /\ cipher[owner[r]] = data[owner[r]].roomKey
           /\ \A q \in Rooms : owner[q] = owner[r] => q = r
           /\ down[conn[owner[r]]] \in Seq(Sealed) /\ up[conn[owner[r]]] \in Seq(Sealed)
<1>1. PICK o : o = owner[r]
  OBVIOUS
<1>2. /\ o \in Keys /\ o \in Creators /\ conn[o] # NoConn /\ o \in users[r]
      /\ data[o].name \in {r, NoRoom} /\ \A q \in Rooms : owner[q] = o => q = r
      /\ ClientOK(o) /\ PlaceOK(o) /\ TypeOK
  BY <1>1, ConstantsOK DEF Exists, Inv, ServerTypes, Told, HouseOK, Owned
<1>3. /\ conn[o] \in Conns /\ link[conn[o]] = "open"
      /\ data[o] \in Datas /\ data[o] # NoData /\ Keyed(o) /\ cipher[o] = data[o].roomKey
      /\ CreatorOK(o)
  BY <1>2, WhoIsThere DEF ClientOK, PlaceOK, TypeOK
<1>4. cipher[o] \in RoomKeys /\ cipher[o].n \in Nat
  BY <1>2, <1>3 DEF Keyed, TypeOK, RoomKeys
<1>5. down[conn[o]] \in Seq(Sealed) /\ up[conn[o]] \in Seq(Sealed)
  <2>1. PICK c \in Conns : c = conn[o]
    BY <1>3
  <2>2. WordOK(c) /\ Heard(c) \subseteq Sealed /\ SaidOn(c) \subseteq Sealed
    BY DEF Told, Heard, SaidOn, Known
  <2> QED
    BY <2>1, <2>2, SeqGrows DEF WordOK
<1> QED
  BY <1>1, <1>2, <1>3, <1>4, <1>5 DEF CreatorOK

(* Posts are of rooms that exist.                                          *)
LEMMA LogIsKnown ==
    ASSUME Inv, Told, NEW r \in Rooms
    PROVE  /\ roomsHistory[r] \in Seq({f \in Known : Posted(f) /\ f.room = r})
           /\ ~Exists(r) => roomsHistory[r] = << >>
<1>1. PICK s : s = roomsHistory[r]
  OBVIOUS
<1>2. s \in Seq(Known) /\ s \in Seq(PostsOf(r))
  BY <1>1 DEF Told, HouseOK, Inv, ServerOK
<1>3. ASSUME NEW i \in DOMAIN s
      PROVE  s[i] \in Known /\ Posted(s[i]) /\ s[i].room = r
  <2>1. s[i] \in Known /\ s[i] \in PostsOf(r)
    BY <1>2, LenProperties, ElementOfSeq
  <2> QED
    BY <2>1 DEF PostsOf, Posts, Posted
<1>4. s \in Seq({f \in Known : Posted(f) /\ f.room = r})
  BY <1>2, <1>3, ElementsMakeSeq
<1>5. ASSUME s # << >>
      PROVE  Exists(r)
  <2>1. Head(s) \in Known /\ Posted(Head(s)) /\ Head(s).room = r
    BY <1>4, <1>5, HeadTailProperties
  <2> QED
    BY <2>1 DEF Known, Opened
<1> QED
  BY <1>1, <1>4, <1>5

LEMMA ServerKeyIsKey ==
    ASSUME Inv, Told, NEW r \in Rooms, Exists(r)
    PROVE  ServerKey(r) \in RoomKeys /\ ServerKey(r).by = owner[r] /\ ServerKey(r).n \in Nat
<1>1. PICK s : s = roomsHistory[r]
  OBVIOUS
<1>2. s \in Seq({f \in Known : Posted(f) /\ f.room = r})
  BY <1>1, LogIsKnown
<1>3. CASE s # << >> /\ Rotation(Head(s))
  <2>1. PICK f : f = Head(s)
    OBVIOUS
  <2>2. f \in Known /\ Posted(f) /\ f.room = r /\ Rotation(f)
    BY <1>2, <1>3, <2>1, HeadTailProperties
  <2>3. f \in Posts /\ f.body.seal.by = owner[r]
    BY <2>2 DEF Known, Sealed
  <2>4. f.body.content \in RoomKeys /\ f.body.content.by = owner[r]
    BY <2>2, <2>3 DEF Posts, Rotation
  <2> QED
    BY <1>1, <1>3, <2>1, <2>4 DEF ServerKey, RoomKeys
<1>4. CASE ~(s # << >> /\ Rotation(Head(s)))
  BY <1>1, <1>4, OwnerPlace DEF ServerKey, RoomKey, RoomKeys
<1> QED
  BY <1>3, <1>4

(* Who has no key has posted nothing, and who is not let in is not told.   *)
LEMMA UnkeyedUp ==
    ASSUME Inv, Told, NEW k \in Keys, conn[k] # NoConn, ~Keyed(k) \/ data[k].name = NoRoom
    PROVE  up[conn[k]] \in Seq(Still)
<1>1. PICK c \in Conns : c = conn[k]
  BY WhoIsThere
<1>2. ASSUME NEW f \in SaidOn(c)
      PROVE  f \in Still
  <2>1. f \in Sealed
    BY DEF SaidOn, Known
  <2>2. SUFFICES ASSUME Posted(f) \/ Answer(f)
                 PROVE  FALSE
    BY <2>1 DEF Still
  <2>3. PICK m \in Keys : conn[m] = c /\ SaidBy(m, f)
    BY <2>2 DEF SaidOn, Acts
  <2>4. m = k
    BY <1>1, <2>3, ConnsApart
  <2>5. Keyed(k) /\ f.room = data[k].name /\ f.room \in Rooms
    BY <2>1, <2>2, <2>3, <2>4 DEF SaidBy, Sealed, Posts
  <2> QED
    BY <2>5, NullsOK
<1>3. up[c] \in Seq(SaidOn(c))
  BY DEF Told, WordOK
<1> QED
  BY <1>1, <1>2, <1>3, SeqGrows

LEMMA OutsideDown ==
    ASSUME Inv, Told, NEW k \in Keys, conn[k] # NoConn,
           \A r \in Rooms : Exists(r) => k \notin users[r]
    PROVE  down[conn[k]] \in Seq(Still)
<1>1. PICK c \in Conns : c = conn[k]
  BY WhoIsThere
<1>2. down[c] \in Seq(Heard(c)) /\ down[c] \in Seq(ToClient(k))
  BY <1>1 DEF Told, WordOK, Inv, ConnOK
<1>3. ASSUME NEW i \in DOMAIN down[c]
      PROVE  down[c][i] \in Still
  <2>1. PICK f : f = down[c][i]
    OBVIOUS
  <2>2. f \in Heard(c) /\ f \in ToClient(k)
    BY <1>2, <2>1, LenProperties, ElementOfSeq
  <2>3. f \in Known /\ f \in Sealed
    BY <2>2 DEF Heard, Known
  <2>4. SUFFICES ASSUME Posted(f) \/ Answer(f)
                 PROVE  FALSE
    BY <2>1, <2>3 DEF Still
  <2>5. k \in users[f.room]
    BY <2>2, <2>4 DEF ToClient, Replies, Others, PostsTo, Asks, Answers, Posted, Answer
  <2>6. f.room \in Rooms /\ Exists(f.room)
    BY <2>3, <2>4 DEF Known, Sealed, Posts, Opened
  <2> QED
    BY <2>5, <2>6
<1>4. down[c] \in Seq(Still)
  BY <1>2, <1>3, ElementsMakeSeq
<1> QED
  BY <1>1, <1>4

(* Nothing happens to a room but that requests are taken up, and frames of *)
(* known keys come down.                                                   *)
LEMMA OwnerGoesOn ==
    ASSUME Inv, Told, NEW r \in Rooms, OwnerOK(r), owner'[r] = owner[r],
           NEW o, o = owner[r], NEW c, c = conn[o],
           Exists(r) =>
               /\ conn'[o] = c /\ cipher'[o] = cipher[o]
               /\ \/ up'[c] = up[c]
                  \/ up[c] # << >> /\ ~Rotation(Head(up[c])) /\ up'[c] = Tail(up[c])
               /\ \/ down'[c] = down[c]
                  \/ down[c] # << >> /\ down'[c] = Tail(down[c])
                  \/ \E s \in Seq(Under(cipher[o].n)) : down'[c] = down[c] \o s
               /\ ServerKey(r)' = ServerKey(r)
               /\ roomsHistory'[r] \in Seq(Under(ServerKey(r).n))
    PROVE  OwnerOK(r)'
<1>1. SUFFICES ASSUME Exists(r)
               PROVE  OwnerOK(r)'
  BY DEF OwnerOK, Exists
<1>2. PICK K, n : K = ServerKey(r) /\ n = cipher[o].n
  OBVIOUS
<1>3. /\ up[c] \in Seq(Under(n)) /\ down[c] \in Seq(Under(n)) /\ Leads(K, up[c], cipher[o], TRUE)
  BY <1>1, <1>2 DEF OwnerOK
<1>4. up'[c] \in Seq(Under(n)) /\ Leads(K, up'[c], cipher[o], TRUE)
  <2>1. CASE up[c] # << >> /\ ~Rotation(Head(up[c])) /\ up'[c] = Tail(up[c])
    <3>1. Switch(K, Head(up[c])) = K
      BY <2>1 DEF Switch, Rotation
    <3>2. Leads(K, Tail(up[c]), cipher[o], TRUE)
      <4>1. PICK s, l : s = up[c] /\ l = cipher[o]
        OBVIOUS
      <4>2. s \in Seq(Under(n)) /\ s # << >> /\ Leads(K, s, l, TRUE) /\ Switch(K, Head(s)) = K
        BY <1>3, <2>1, <3>1, <4>1
      <4>3. Leads(Switch(K, Head(s)), Tail(s), l, TRUE)
        BY <4>2, LeadsOn
      <4> QED
        BY <4>1, <4>2, <4>3
    <3>3. Tail(up[c]) \in Seq(Under(n))
      BY <1>3, <2>1, HeadTailProperties
    <3> QED
      BY <2>1, <3>2, <3>3
  <2> QED
    BY <1>1, <1>3, <2>1
<1>5. down'[c] \in Seq(Under(n))
  <2>1. CASE down[c] # << >> /\ down'[c] = Tail(down[c])
    <3>1. Tail(down[c]) \in Seq(Under(n))
      BY <1>3, <2>1, HeadTailProperties
    <3> QED
      BY <2>1, <3>1
  <2>2. CASE \E s \in Seq(Under(n)) : down'[c] = down[c] \o s
    BY <1>3, <2>2, ConcatProperties
  <2> QED
    BY <1>1, <1>2, <1>3, <2>1, <2>2
<1> QED
  BY <1>1, <1>2, <1>4, <1>5 DEF OwnerOK

LEMMA MemberGoesOn ==
    ASSUME Inv, Told, NEW k \in Keys, MemberOK(k), NEW r, r = data[k].name, NEW c, c = conn[k],
           data'[k].name = r, conn'[k] \in {c, NoConn}, cipher'[k] = cipher[k],
           owner'[r] = owner[r],
           c # NoConn /\ Exists(r) =>
               /\ \/ up'[c] = up[c]
                  \/ up[c] # << >> /\ up'[c] = Tail(up[c])
               /\ \/ down'[c] = down[c]
                  \/ \E s \in Seq(Sealed) : /\ Leads(ServerKey(r), s, ServerKey(r), FALSE)
                                            /\ Hands(s, ServerKey(r))
                                            /\ down'[c] = down[c] \o s
               /\ ServerKey(r)' = ServerKey(r)
    PROVE  MemberOK(k)'
<1>1. SUFFICES ASSUME k \notin Creators, c # NoConn, Exists(r), conn'[k] = c
               PROVE  MemberOK(k)'
  BY DEF MemberOK, Exists
<1>2. PICK K : K = ServerKey(r)
  OBVIOUS
<1>3. /\ up[c] \in Seq(Under(K.n)) /\ Hands(down[c], K)
      /\ Keyed(k) => Leads(cipher[k], down[c], K, FALSE)
  BY <1>1, <1>2 DEF MemberOK
<1>4. up'[c] \in Seq(Under(K.n))
  <2>1. up[c] # << >> => Tail(up[c]) \in Seq(Under(K.n))
    BY <1>3, HeadTailProperties
  <2> QED
    BY <1>1, <1>3, <2>1
<1>5. Hands(down'[c], K) /\ (Keyed(k) => Leads(cipher[k], down'[c], K, FALSE))
  <2>1. CASE \E s \in Seq(Sealed) : /\ Leads(K, s, K, FALSE) /\ Hands(s, K)
                                    /\ down'[c] = down[c] \o s
    <3>1. PICK s \in Seq(Sealed) : Leads(K, s, K, FALSE) /\ Hands(s, K) /\ down'[c] = down[c] \o s
      BY <2>1
    <3>2. down[c] \in Seq(Sealed)
      <4>1. c \in Conns /\ Heard(c) \subseteq Sealed
        BY <1>1, WhoIsThere DEF Heard, Known
      <4> QED
        BY <4>1, SeqGrows DEF Told, WordOK
    <3>3. Hands(down[c] \o s, K)
      BY <1>3, <3>1, <3>2, HandsConcat
    <3>4. Keyed(k) => Leads(cipher[k], down[c] \o s, K, FALSE)
      BY <1>3, <3>1, <3>2, LeadsFurther
    <3> QED
      BY <3>1, <3>3, <3>4
  <2> QED
    BY <1>1, <1>2, <1>3, <2>1
<1>6. ServerKey(data[k].name)' = K
  BY <1>1, <1>2
<1> QED
  BY <1>1, <1>4, <1>5, <1>6 DEF MemberOK, Keyed

(* The owner sends what fits its key.                                      *)
LEMMA OwnerSends ==
    ASSUME Inv, Told, NEW r \in Rooms, OwnerOK(r), Exists(r), UNCHANGED <<owner, roomsHistory>>,
           NEW o, o = owner[r], NEW c, c = conn[o], conn'[o] = c,
           NEW g \in Sealed, Fits(cipher[o], g, TRUE), cipher'[o] = Switch(cipher[o], g),
           up'[c] = Append(up[c], g),
           down'[c] = down[c] \/ (down[c] # << >> /\ down'[c] = Tail(down[c]))
    PROVE  OwnerOK(r)'
<1>1. PICK K, key, new : K = ServerKey(r) /\ key = cipher[o] /\ new = cipher'[o]
  OBVIOUS
<1>2. /\ up[c] \in Seq(Under(key.n)) /\ down[c] \in Seq(Under(key.n)) /\ Leads(K, up[c], key, TRUE)
      /\ roomsHistory[r] \in Seq(Under(K.n)) /\ key \in RoomKeys /\ key.n \in Nat
      /\ up[c] \in Seq(Sealed)
  BY <1>1, OwnerPlace DEF OwnerOK
<1>3. new \in RoomKeys /\ new.n \in Nat /\ key.n <= new.n
  <2>1. new \in RoomKeys /\ new.n >= key.n
    BY <1>1, <1>2, SwitchBounds
  <2> QED
    BY <1>2, <2>1 DEF RoomKeys
<1>4. g \in Under(new.n)
  <2>1. Posted(g) => g.body.seal.n \in Nat /\ g.body.seal.n <= key.n
    BY <1>1 DEF Fits, Sealed, Posts, RoomKeys
  <2>2. Rotation(g) => new.n = key.n + 1 /\ g.body.seal = key
    BY <1>1 DEF Fits, Sealed, Switch, Rotation, RoomKey
  <2>3. Posted(g) => g.body.seal.n <= new.n
    BY <1>2, <1>3, <2>1
  <2> QED
    BY <1>2, <2>2, <2>3 DEF Under
<1>5. Under(key.n) \subseteq Under(new.n)
  BY <1>2, <1>3, UnderGrows
<1>6. up'[c] \in Seq(Under(new.n))
  <2>1. up[c] \in Seq(Under(new.n))
    BY <1>2, <1>5, SeqGrows
  <2> QED
    BY <1>4, <2>1, AppendProperties
<1>7. down'[c] \in Seq(Under(new.n))
  <2>1. down'[c] \in Seq(Under(key.n))
    <3>1. down[c] # << >> => Tail(down[c]) \in Seq(Under(key.n))
      BY <1>2, HeadTailProperties
    <3> QED
      BY <1>2, <3>1
  <2> QED
    BY <1>5, <2>1, SeqGrows
<1>8. Leads(K, up'[c], new, TRUE)
  <2>1. PICK s, one : s = up[c] /\ one = <<g>>
    OBVIOUS
  <2>2. s \in Seq(Sealed) /\ one \in Seq(Sealed) /\ Append(s, g) = s \o one
    <3>1. s \in Seq(Sealed)
      BY <1>2, <2>1
    <3>2. one \in Seq(Sealed)
      BY <2>1
    <3>3. Append(s, g) = s \o <<g>>
      BY <3>1, AppendIsConcat, Zenon
    <3> QED
      BY <2>1, <3>1, <3>2, <3>3
  <2>3. Leads(key, one, new, TRUE)
    BY <1>1, <2>1, LeadsOne
  <2>4. Leads(K, s \o one, new, TRUE)
    BY <1>2, <2>1, <2>2, <2>3, LeadsFurther
  <2> QED
    BY <2>1, <2>2, <2>4
<1>9. ServerKey(r)' = K /\ Exists(r)'
  BY <1>1 DEF ServerKey, Exists
<1> QED
  BY <1>1, <1>2, <1>6, <1>7, <1>8, <1>9 DEF OwnerOK

LEMMA OwnerReads ==
    ASSUME Inv, Told, NEW k \in Keys, NEW f, Takes(k, f), Reads(k, f),
           NEW r \in Rooms, Exists(r), owner[r] = k, OwnerOK(r)
    PROVE  OwnerOK(r)'
<1>1. PICK c : c = conn[k]
  OBVIOUS
<1>2. /\ UNCHANGED <<owner, roomsHistory, conn>> /\ k \in Creators /\ c \in Conns
      /\ down[c] # << >> /\ down'[c] = Tail(down[c]) /\ f = Head(down[c])
      /\ cipher[k] \in RoomKeys /\ cipher[k] = RoomKey(k, draws[k]) /\ data[k] \in Datas
      /\ cipher[k] = data[k].roomKey /\ down[c] \in Seq(Sealed) /\ draws[k] \in Nat
      /\ up \in [Conns -> Seq(Frames)]
  BY <1>1, OwnerPlace DEF Reads, Away, serverVars, Takes, TakeDown, Inv, ServerTypes
<1>3. /\ f \in Sealed /\ f \in Known /\ ~Rotation(f) /\ (Posted(f) => f.room \in Rooms)
      /\ f.cmd = "ROOM.INVITE.VERIFICATION_REQUEST" => f \in Asks
      /\ ~(Answer(f) /\ Opens(k, f))
  BY <1>2, HeardFrame, FrameIsKnown, OpeningAnswer DEF Answer
<1>4. CASE Ignores(k, f) \/ Created(k, f) \/ Counts(k, f)
  <2>1. up' = up /\ cipher'[k] = cipher[k]
    BY <1>4 DEF Ignores, Created, Counts, KeepsKey
  <2>2. ServerKey(r)' = ServerKey(r)
    BY <1>2 DEF ServerKey
  <2>3. roomsHistory'[r] \in Seq(Under(ServerKey(r).n))
    BY <1>2 DEF OwnerOK
  <2> QED
    BY <1>1, <1>2, <2>1, <2>2, <2>3, OwnerGoesOn
<1>5. CASE Confirms(k, f)
  <2>1. PICK token, g : /\ token \in Invites \cup {NoInvite}
                        /\ g = AnswerTo(k, f, token) /\ Submit(c, g)
    BY <1>1, <1>5 DEF Confirms
  <2>2. g \in Sealed /\ Answer(g) /\ ~Posted(g) /\ ~Rotation(g) /\ g.body.content = cipher[k]
    BY <1>2, <1>3, <1>5, <2>1, AnswerFrame DEF Confirms, Asking
  <2>3. Fits(cipher[k], g, TRUE) /\ Switch(cipher[k], g) = cipher[k]
    BY <2>2 DEF Fits, Switch, Rotation
  <2>4. up'[c] = Append(up[c], g)
    BY <1>2, <2>1, NullsOK DEF Submit
  <2>5. cipher'[k] = Switch(cipher[k], g)
    BY <1>5, <2>3 DEF Confirms, KeepsKey
  <2> QED
    BY <1>1, <1>2, <2>2, <2>3, <2>4, <2>5, OwnerSends
<1>6. CASE Rotates(k, f)
  <2>1. PICK g, new : /\ new = cipher'[k] /\ Submit(c, g)
                      /\ g = MessageKeyRotate(data[k].name, Seal(cipher[k], NoInvite, new))
    BY <1>1, <1>6 DEF Rotates
  <2>2. cipher[k].n = draws[k] /\ cipher[k].by = k /\ new = RoomKey(cipher[k].by, cipher[k].n + 1)
    BY <1>2, <1>6, <2>1 DEF Rotates, RoomKey
  <2>3. data[k].name \in Rooms
    BY <1>3, <1>6 DEF Rotates, Readable, Says, Posted
  <2>4. /\ g \in Sealed /\ Rotation(g) /\ Posted(g) /\ ~Answer(g) /\ g.body.seal = cipher[k]
        /\ g.body.content = new
    BY <1>2, <2>1, <2>2, <2>3, RotationFrame
  <2>5. Fits(cipher[k], g, TRUE) /\ Switch(cipher[k], g) = cipher'[k]
    BY <1>2, <2>1, <2>4 DEF Fits, Switch, Rotation, RoomKeys
  <2>6. up'[c] = Append(up[c], g)
    BY <1>2, <2>1, NullsOK DEF Submit
  <2> QED
    BY <1>1, <1>2, <2>4, <2>5, <2>6, OwnerSends
<1>7. ~Admitted(k, f) /\ ~Follows(k, f)
  BY <1>3 DEF Admitted, Follows
<1> QED
  BY <1>4, <1>5, <1>6, <1>7 DEF Reads

LEMMA MemberReads ==
    ASSUME Inv, Told, NEW k \in Keys, NEW f, Takes(k, f), Reads(k, f), MemberOK(k)
    PROVE  MemberOK(k)'
<1>1. PICK c, r : c = conn[k] /\ r = data[k].name
  OBVIOUS
<1>2. /\ UNCHANGED <<owner, roomsHistory, conn>> /\ c \in Conns
      /\ down[c] # << >> /\ down'[c] = Tail(down[c]) /\ f = Head(down[c])
      /\ TypeOK /\ ClientOK(k) /\ data[k] # NoData
  BY <1>1, WhoIsThere, FrameIsKnown DEF Reads, Away, serverVars, Takes, TakeDown, Inv, ServerTypes
<1>3. SUFFICES ASSUME k \notin Creators
               PROVE  MemberOK(k)'
  BY DEF MemberOK
<1>4. ~Created(k, f) /\ ~Confirms(k, f) /\ ~Rotates(k, f)
  <2>1. ~Creating(k) /\ data[k].messageCount = Null
    BY <1>2, <1>3 DEF ClientOK, OriginOK, Creating
  <2>2. ~Created(k, f)
    BY <2>1, FrameIsKnown DEF Created, ReplyCommands, Replies
  <2>3. ASSUME Confirms(k, f)
        PROVE  FALSE
    <3>1. f \in Asks /\ owner[f.room] = k
      BY <2>3, FrameIsKnown DEF Confirms, Asking
    <3>2. f.room \in Rooms
      BY <3>1 DEF Asks
    <3> QED
      BY <1>3, <3>1, <3>2, NullsOK DEF Inv, ServerTypes
  <2> QED
    BY <2>1, <2>2, <2>3 DEF Rotates
<1>5. up' = up /\ data'[k].name = r
  BY <1>1, <1>4 DEF Reads, Ignores, Admitted, Counts, Follows, KeepsRoom
<1>6. PICK K : K = ServerKey(r)
  OBVIOUS
<1>7. ServerKey(data[k].name)' = K /\ (Exists(data[k].name)' <=> Exists(r))
  BY <1>1, <1>2, <1>5, <1>6 DEF ServerKey, Exists
<1>8. SUFFICES ASSUME Exists(r)
               PROVE  Hands(down'[c], K) /\ (Keyed(k)' => Leads(cipher'[k], down'[c], K, FALSE))
  BY <1>1, <1>2, <1>3, <1>5, <1>6, <1>7 DEF MemberOK
<1>9. /\ Hands(down[c], K) /\ (Keyed(k) => Leads(cipher[k], down[c], K, FALSE))
      /\ down[c] \in Seq(Sealed)
  <2>1. Heard(c) \subseteq Sealed
    BY DEF Heard, Known
  <2>2. down[c] \in Seq(Sealed)
    BY <1>2, <2>1, SeqGrows DEF Told, WordOK
  <2> QED
    BY <1>1, <1>2, <1>3, <1>6, <1>8, <2>2, NullsOK DEF MemberOK
<1>10. Hands(down'[c], K) /\ (Answer(f) => Leads(f.body.content, down'[c], K, FALSE))
  <2>1. PICK s : s = down[c]
    OBVIOUS
  <2>2. Hands(Tail(s), K) /\ (Answer(Head(s)) => Leads(Head(s).body.content, Tail(s), K, FALSE))
    BY <1>2, <1>9, <2>1, HandsTail
  <2> QED
    BY <1>2, <2>1, <2>2
<1>11. Keyed(k) => Leads(Switch(cipher[k], f), down'[c], K, FALSE)
  <2>1. PICK s, key : s = down[c] /\ key = cipher[k]
    OBVIOUS
  <2>2. ASSUME Leads(key, s, K, FALSE)
        PROVE  Leads(Switch(key, Head(s)), Tail(s), K, FALSE)
    BY <1>2, <1>9, <2>1, <2>2, LeadsOn
  <2> QED
    BY <1>2, <1>9, <2>1, <2>2
<1>12. CASE Admitted(k, f)
  BY <1>10, <1>12 DEF Admitted
<1>13. CASE Follows(k, f)
  <2>1. Keyed(k) /\ cipher'[k] = Switch(cipher[k], f)
    <3>1. f \in Posts
      BY <1>13, HeardFrame DEF Follows, Posted, Rotation
    <3>2. cipher[k] \in RoomKeys
      BY <1>13, <3>1 DEF Follows, Readable, Posts
    <3> QED
      BY <1>13, <3>2, NullsOK DEF Follows, Readable, Switch, Rotation, Keyed
  <2> QED
    BY <1>10, <1>11, <2>1
<1>14. CASE Ignores(k, f) \/ Counts(k, f)
  <2>1. cipher'[k] = cipher[k]
    BY <1>14 DEF Ignores, Counts, KeepsKey
  <2>2. Keyed(k) => Switch(cipher[k], f) = cipher[k]
    <3>1. CASE Rotation(f) /\ f.body.seal = cipher[k]
      <4>1. ~Readable(k, f) /\ Posted(f)
        BY <1>14, <3>1 DEF Ignores, Counts, Rotation, Says, Posted
      <4>2. f.room \in Rooms /\ k \in users[f.room]
        BY <4>1, HeardFrame, FrameIsKnown DEF Posted, PostsTo
      <4>3. owner[f.room] # k
        BY <1>3, <4>2, NullsOK DEF Inv, ServerTypes
      <4>4. Joins(k, f.room)
        BY <4>2, <4>3 DEF Told, HouseOK
      <4> QED
        BY <1>2, <3>1, <4>1, <4>4 DEF Joins, Readable
    <3> QED
      BY <3>1 DEF Switch, Rotation
  <2> QED
    BY <1>10, <1>11, <2>1, <2>2 DEF Keyed
<1> QED
  BY <1>4, <1>12, <1>13, <1>14 DEF Reads

(* Who does not take part is where it was.                                 *)
LEMMA OthersGoOn ==
    ASSUME Inv, Told, Chained, UNCHANGED <<owner, roomsHistory>>, NEW k \in Keys,
           \A l \in Keys : l # k => SameClient(l),
           \A l \in Keys : l # k /\ conn[l] # NoConn =>
               up'[conn[l]] = up[conn[l]] /\ down'[conn[l]] = down[conn[l]],
           \A r \in Rooms : Exists(r) /\ owner[r] = k => OwnerOK(r)', MemberOK(k)'
    PROVE  Chained'
<1>1. ASSUME NEW r \in Rooms
      PROVE  OwnerOK(r)'
  <2>1. PICK o, c : o = owner[r] /\ c = conn[o]
    OBVIOUS
  <2>2. CASE Exists(r) /\ o # k
    <3>1. o \in Keys /\ conn[o] # NoConn /\ OwnerOK(r)
      BY <2>1, <2>2, OwnerPlace DEF Chained
    <3>2. ServerKey(r)' = ServerKey(r)
      BY DEF ServerKey
    <3>3. roomsHistory'[r] \in Seq(Under(ServerKey(r).n))
      BY <2>2, <3>1 DEF OwnerOK
    <3>4. conn'[o] = c /\ cipher'[o] = cipher[o] /\ up'[c] = up[c] /\ down'[c] = down[c]
      BY <2>1, <2>2, <3>1 DEF SameClient
    <3> QED
      BY <2>1, <3>1, <3>2, <3>3, <3>4, OwnerGoesOn
  <2>3. CASE ~Exists(r)
    BY <2>3 DEF OwnerOK, Exists
  <2> QED
    BY <2>1, <2>2, <2>3
<1>2. ASSUME NEW l \in Keys, l # k
      PROVE  MemberOK(l)'
  <2>1. PICK r, c : r = data[l].name /\ c = conn[l]
    OBVIOUS
  <2>2. ServerKey(r)' = ServerKey(r)
    BY DEF ServerKey
  <2>3. MemberOK(l) /\ SameClient(l) /\ (c # NoConn => up'[c] = up[c] /\ down'[c] = down[c])
    BY <1>2, <2>1 DEF Chained
  <2> QED
    BY <2>1, <2>2, <2>3, MemberGoesOn DEF SameClient
<1> QED
  BY <1>1, <1>2 DEF Chained

LEMMA ReadsKeepsChained ==
    ASSUME Inv, Told, Chained, NEW k \in Keys, NEW f, Takes(k, f), Reads(k, f)
    PROVE  Chained'
<1>1. /\ UNCHANGED <<owner, roomsHistory, conn>> /\ ServerTypes /\ TakeDown(k)
      /\ \A l \in Keys : l # k => SameClient(l)
      /\ conn[k] # NoConn
  BY DEF Reads, Away, serverVars, Inv, Takes
<1>2. up' = up \/ \E g : Submit(conn[k], g)
  BY DEF Reads, Ignores, Created, Confirms, Admitted, Rotates, Counts, Follows
<1>3. ASSUME NEW l \in Keys, l # k, conn[l] # NoConn
      PROVE  up'[conn[l]] = up[conn[l]] /\ down'[conn[l]] = down[conn[l]]
  <2>1. conn[l] # conn[k] /\ conn[l] \in Conns
    BY <1>1, <1>3, ConnsApart, WhoIsThere
  <2> QED
    BY <1>1, <1>2, <2>1 DEF ServerTypes, TakeDown, Submit
<1>4. MemberOK(k)'
  BY MemberReads DEF Chained
<1>5. \A r \in Rooms : Exists(r) /\ owner[r] = k => OwnerOK(r)'
  BY OwnerReads DEF Chained
<1> QED
  BY <1>1, <1>3, <1>4, <1>5, OthersGoOn

LEMMA CrashKeepsChained ==
    ASSUME Inv, Told, Chained, NEW k \in Keys, NEW f, Takes(k, f), CrashOnFrame(k, f)
    PROVE  Chained'
<1>1. PICK c \in Conns : c = conn[k]
  BY WhoIsThere DEF Takes
<1>2. /\ TypeOK /\ ServerTypes /\ ClientOK(k) /\ ~Keyed(k) /\ data[k] # NoData /\ c # NoConn
  BY <1>1, FrameIsKnown DEF Takes, CrashOnFrame, Keyed, Inv
<1>3. k \notin Creators
  BY <1>2 DEF ClientOK
<1>4. /\ up' = [up EXCEPT ![c] = SubSeq(@, 1, Len(@))] /\ down' = [down EXCEPT ![c] = << >>]
      /\ stage' = [stage EXCEPT ![k] = "crashed"]
      /\ conn' = [conn EXCEPT ![k] = NoConn] /\ data' = [data EXCEPT ![k] = NoData]
      /\ cipher' = [cipher EXCEPT ![k] = NoCipher]
      /\ UNCHANGED <<draws, saved, owner, roomsHistory>>
  BY <1>1 DEF CrashOnFrame, Forget, Disconnect, serverVars
<1>5. /\ \A l \in Keys : l # k => SameClient(l)
      /\ conn'[k] = NoConn
  BY <1>2, <1>4 DEF SameClient, TypeOK
<1>6. ASSUME NEW l \in Keys, l # k, conn[l] # NoConn
      PROVE  up'[conn[l]] = up[conn[l]] /\ down'[conn[l]] = down[conn[l]]
  <2>1. conn[l] # c /\ conn[l] \in Conns
    BY <1>1, <1>2, <1>6, ConnsApart, WhoIsThere
  <2> QED
    BY <1>2, <1>4, <2>1 DEF ServerTypes
<1>7. MemberOK(k)'
  BY <1>5 DEF MemberOK
<1>8. \A r \in Rooms : owner[r] # k
  BY <1>2, <1>3, NullsOK DEF ServerTypes
<1> QED
  BY <1>4, <1>5, <1>6, <1>7, <1>8, OthersGoOn

LEMMA ConstructKeepsChained ==
    ASSUME Inv, Once, Told, Chained, NEW k \in Keys, NEW c \in Conns, NEW d, NEW ciph, NEW first,
           Construct(k, c, d, ciph, first), FreshPair(k),
           k \notin Creators => ciph = NoCipher /\ first \in Still
    PROVE  Chained'
<1>1. /\ TypeOK /\ ServerTypes /\ ClientOK(k) /\ LinkOK(c) /\ OnceOK(k)
      /\ draws[k] = 0 /\ draws' = [draws EXCEPT ![k] = 1]
      /\ stage' = [stage EXCEPT ![k] = "waiting"]
      /\ link[c] = "free" /\ up' = [up EXCEPT ![c] = <<PublicKey(k), first>>] /\ down' = down
      /\ conn' = [conn EXCEPT ![k] = c] /\ data' = [data EXCEPT ![k] = d]
      /\ cipher' = [cipher EXCEPT ![k] = ciph]
      /\ UNCHANGED <<saved, owner, roomsHistory>>
  BY DEF Construct, OpenLink, FreshPair, serverVars, Inv, Once
<1>2. \A r \in Rooms : Exists(r) => owner[r] # k
  BY <1>1, OwnerPlace DEF ClientOK
<1>3. \A l \in Keys : l # k => SameClient(l)
  BY <1>1 DEF SameClient, TypeOK, ServerTypes
<1>4. ASSUME NEW l \in Keys, l # k, conn[l] # NoConn
      PROVE  up'[conn[l]] = up[conn[l]] /\ down'[conn[l]] = down[conn[l]]
  <2>1. conn[l] # c /\ conn[l] \in Conns
    BY <1>1, <1>4, WhoIsThere
  <2> QED
    BY <1>1, <2>1 DEF ServerTypes
<1>5. MemberOK(k)'
  <2>1. SUFFICES ASSUME k \notin Creators
                 PROVE  MemberOK(k)'
    BY DEF MemberOK
  <2>2. conn'[k] = c /\ cipher'[k] = NoCipher /\ down'[c] = << >> /\ up'[c] = <<PublicKey(k), first>>
    BY <1>1, <2>1 DEF TypeOK, ServerTypes, LinkOK
  <2>3. PublicKey(k) \in Still
    <3>1. PublicKey(k) \in Frames /\ PublicKey(k).cmd = "PUBKEY"
      BY DEF PublicKey, Frame, Frames, Commands
    <3> QED
      BY <3>1 DEF Still, Sealed, Posted, Rotation, Answer
  <2>4. <<PublicKey(k), first>> \in Seq(Still) /\ << >> \in Seq(Still)
    BY <2>1, <2>3, EmptySeq
  <2>5. up'[c] \in Seq(Still) /\ down'[c] \in Seq(Still)
    BY <2>2, <2>4
  <2>6. \A n : up'[c] \in Seq(Under(n))
    BY <2>5, StillLeads
  <2>7. \A K : Hands(down'[c], K)
    BY <2>5, StillLeads
  <2> QED
    BY <2>2, <2>6, <2>7 DEF MemberOK, Keyed
<1> QED
  BY <1>1, <1>2, <1>3, <1>4, <1>5, OthersGoOn

LEMMA OpensKeepChained ==
    ASSUME Inv, Once, Told, Chained, NEW k \in Keys, NEW c \in Conns,
           NewRoomOf(k, c) \/ \E i \in Invites : OpenByInvite(k, c, i)
    PROVE  Chained'
<1>1. CASE NewRoomOf(k, c)
  BY <1>1, ConstructKeepsChained DEF NewRoomOf
<1>2. CASE \E i \in Invites : OpenByInvite(k, c, i)
  <2>1. PICK i \in Invites : OpenByInvite(k, c, i)
    BY <1>2
  <2>2. PICK d, first, inv :
           /\ inv = issued[i]
           /\ d = RoomData(inv.room, inv.owner, RoomKey(k, 1), Null, {}, i)
           /\ first = Invite(inv.owner, inv.room, k, Seal(NoCipher, i, RoomKey(k, 1)))
    OBVIOUS
  <2>3. FreshPair(k) /\ Construct(k, c, d, NoCipher, first) /\ inv # NoInvite
    BY <2>1, <2>2 DEF OpenByInvite
  <2>4. RoomKey(k, 1) \in RoomKeys /\ inv \in [room : Rooms, owner : Keys]
    BY <2>2, <2>3 DEF RoomKey, RoomKeys, Inv, ServerTypes
  <2>5. Seal(NoCipher, i, RoomKey(k, 1)) \in Seals
    BY <2>4 DEF Seals, Seal
  <2>6. first.cmd = "ROOM.INVITE.VERIFICATION_REQUEST" /\ first \in Frames
    BY <2>2, <2>4, <2>5 DEF Invite, Frame, Frames, Commands
  <2>7. first \in Still
    BY <2>6 DEF Still, Sealed, Posted, Rotation, Answer
  <2> QED
    BY <2>3, <2>7, ConstructKeepsChained
<1> QED
  BY <1>1, <1>2

LEMMA GenerateInviteKeepsChained ==
    ASSUME Inv, Told, Chained, NEW k \in Keys, NEW i \in Invites, GenerateInvite(k, i)
    PROVE  Chained'
<1>1. /\ stage[k] = "open" /\ data' = [data EXCEPT ![k].invites = @ \cup {i}]
      /\ UNCHANGED <<up, down, owner, roomsHistory, stage, conn, cipher, saved, draws>>
      /\ TypeOK /\ ClientOK(k)
  BY DEF GenerateInvite, wireVars, serverVars, Inv
<1>2. \A l \in Keys : l # k => SameClient(l)
  BY <1>1 DEF SameClient, TypeOK
<1>3. data[k] \in Datas
  BY <1>1 DEF ClientOK, TypeOK
<1>4. data'[k].name = data[k].name
  BY <1>1, <1>3 DEF TypeOK, Datas
<1>5. MemberOK(k)'
  <2>1. PICK r, c : r = data[k].name /\ c = conn[k]
    OBVIOUS
  <2>2. ServerKey(r)' = ServerKey(r)
    BY <1>1 DEF ServerKey
  <2> QED
    BY <1>1, <1>4, <2>1, <2>2, MemberGoesOn DEF Chained
<1>6. ASSUME NEW r \in Rooms, Exists(r), owner[r] = k
      PROVE  OwnerOK(r)'
  <2>1. ServerKey(r)' = ServerKey(r)
    BY <1>1 DEF ServerKey
  <2>2. roomsHistory'[r] \in Seq(Under(ServerKey(r).n))
    BY <1>1, <1>6 DEF Chained, OwnerOK
  <2> QED
    BY <1>1, <2>1, <2>2, OwnerGoesOn DEF Chained
<1> QED
  BY <1>1, <1>2, <1>5, <1>6, OthersGoOn

LEMMA SendMessageKeepsChained ==
    ASSUME Inv, Told, Chained, NEW k \in Keys, NEW t \in Texts, SendMessage(k, t)
    PROVE  Chained'
<1>1. PICK c, r, g : c = conn[k] /\ r = data[k].name /\ g = Message(r, Seal(cipher[k], NoInvite, t))
  OBVIOUS
<1>2. /\ stage[k] = "open" /\ Submit(c, g)
      /\ UNCHANGED <<down, owner, roomsHistory, stage, conn, data, cipher, saved, draws>>
      /\ TypeOK /\ ServerTypes /\ ClientOK(k)
  BY <1>1 DEF SendMessage, serverVars, roomVars, Inv
<1>3. \A l \in Keys : SameClient(l)
  BY <1>2 DEF SameClient
<1>4. data[k] # NoData /\ r # NoRoom /\ Keyed(k)
  BY <1>1, <1>2 DEF ClientOK
<1>5. ASSUME NEW l \in Keys, l # k, conn[l] # NoConn
      PROVE  up'[conn[l]] = up[conn[l]] /\ down'[conn[l]] = down[conn[l]]
  <2>1. conn[l] # c /\ conn[l] \in Conns
    BY <1>1, <1>5, ConnsApart, WhoIsThere
  <2> QED
    BY <1>2, <2>1 DEF Submit, ServerTypes
<1>6. c # NoConn =>
         /\ g \in Sealed /\ ~Rotation(g) /\ ~Answer(g) /\ Posted(g) /\ g.body.seal = cipher[k]
         /\ up'[c] = Append(up[c], g) /\ cipher[k] \in RoomKeys
  <2>1. c # NoConn => r \in Rooms /\ cipher[k] \in RoomKeys
    BY <1>1, <1>4, KeyedPlace
  <2>2. c # NoConn => c \in Conns /\ up'[c] = Append(up[c], g)
    BY <1>1, <1>2, WhoIsThere DEF Submit, ServerTypes
  <2> QED
    BY <1>1, <2>1, <2>2, MessageFrame
<1>7. MemberOK(k)'
  <2>1. ServerKey(r)' = ServerKey(r)
    BY <1>2 DEF ServerKey
  <2>2. SUFFICES ASSUME k \notin Creators, c # NoConn, Exists(r)
                 PROVE  MemberOK(k)'
    BY <1>1, <1>2 DEF MemberOK, Exists
  <2>3. PICK K, key : K = ServerKey(r) /\ key = cipher[k]
    OBVIOUS
  <2>4. /\ up[c] \in Seq(Under(K.n)) /\ Hands(down[c], K) /\ Leads(key, down[c], K, FALSE)
    BY <1>1, <1>4, <2>2, <2>3 DEF Chained, MemberOK
  <2>5. down[c] \in Seq(Sealed)
    <3>1. c \in Conns /\ Heard(c) \subseteq Sealed
      BY <1>1, <2>2, WhoIsThere DEF Heard, Known
    <3> QED
      BY <3>1, SeqGrows DEF Told, WordOK
  <2>6. g \in Under(K.n)
    <3>1. K = Follow(key, down[c])
      BY <2>4 DEF Leads
    <3>2. K.n >= key.n /\ K \in RoomKeys
      BY <1>6, <2>2, <2>3, <2>5, <3>1, FollowBounds
    <3>3. key.n <= K.n
      BY <1>6, <2>2, <2>3, <3>2 DEF RoomKeys
    <3> QED
      BY <1>6, <2>2, <2>3, <3>3 DEF Under
  <2>7. up'[c] \in Seq(Under(K.n))
    <3>1. PICK S, s : S = Under(K.n) /\ s = up[c]
      OBVIOUS
    <3>2. s \in Seq(S) /\ g \in S
      BY <2>4, <2>6, <3>1
    <3>3. Append(s, g) \in Seq(S)
      BY <3>2, AppendProperties
    <3> QED
      BY <1>6, <2>2, <3>1, <3>3
  <2>8. ServerKey(data[k].name)' = K /\ conn'[k] = c /\ cipher'[k] = key /\ down'[c] = down[c]
    BY <1>1, <1>2, <2>1, <2>3
  <2> QED
    BY <2>4, <2>7, <2>8 DEF MemberOK
<1>8. ASSUME NEW q \in Rooms, Exists(q), owner[q] = k
      PROVE  OwnerOK(q)'
  <2>1. c # NoConn /\ cipher[k] \in RoomKeys /\ OwnerOK(q)
    BY <1>1, <1>8, OwnerPlace DEF Chained
  <2>2. Fits(cipher[k], g, TRUE) /\ Switch(cipher[k], g) = cipher[k]
    BY <1>6, <2>1 DEF Fits, Switch, Rotation, RoomKeys
  <2> QED
    BY <1>1, <1>2, <1>6, <1>8, <2>1, <2>2, OwnerSends
<1> QED
  BY <1>2, <1>3, <1>5, <1>7, <1>8, OthersGoOn

LEMMA RestartKeepsChained ==
    ASSUME RestartServer
    PROVE  Chained'
<1>1. conn' = [k \in Keys |-> NoConn] /\ owner' = [r \in Rooms |-> NoKey]
  BY DEF RestartServer, Restart
<1>2. \A r \in Rooms : OwnerOK(r)'
  BY <1>1 DEF OwnerOK, Exists
<1>3. \A k \in Keys : MemberOK(k)'
  BY <1>1 DEF MemberOK
<1> QED
  BY <1>2, <1>3 DEF Chained

LEMMA InitHasChained == Init => Chained
<1>1. Init => \A r \in Rooms : ~Exists(r)
  BY DEF Init, ServerInit, Exists
<1>2. Init => \A k \in Keys : conn[k] = NoConn
  BY DEF Init
<1> QED
  BY <1>1, <1>2 DEF Chained, OwnerOK, MemberOK

LEMMA AllGoOn ==
    ASSUME Inv, Told, Chained, UNCHANGED <<conn, data, cipher, owner, roomsHistory>>,
           \A x \in Conns :
               /\ \/ up'[x] = up[x]
                  \/ up[x] # << >> /\ ~Rotation(Head(up[x])) /\ up'[x] = Tail(up[x])
               /\ \/ down'[x] = down[x]
                  \/ \E s \in Seq(Still) : down'[x] = down[x] \o s
    PROVE  Chained'
<1>1. \A r \in Rooms : ServerKey(r)' = ServerKey(r)
  BY DEF ServerKey
<1>2. ASSUME NEW r \in Rooms
      PROVE  OwnerOK(r)'
  <2>1. PICK o, c : o = owner[r] /\ c = conn[o]
    OBVIOUS
  <2>2. ASSUME Exists(r)
        PROVE  /\ \/ up'[c] = up[c]
                  \/ up[c] # << >> /\ ~Rotation(Head(up[c])) /\ up'[c] = Tail(up[c])
               /\ \/ down'[c] = down[c]
                  \/ \E s \in Seq(Under(cipher[o].n)) : down'[c] = down[c] \o s
               /\ roomsHistory'[r] \in Seq(Under(ServerKey(r).n))
    <3>1. c \in Conns
      BY <2>1, <2>2, OwnerPlace
    <3>2. \A s \in Seq(Still) : s \in Seq(Under(cipher[o].n))
      BY StillLeads
    <3>3. roomsHistory'[r] \in Seq(Under(ServerKey(r).n))
      BY <2>2 DEF Chained, OwnerOK
    <3> QED
      BY <3>1, <3>2, <3>3
  <2> QED
    BY <1>1, <2>1, <2>2, OwnerGoesOn DEF Chained
<1>3. ASSUME NEW k \in Keys
      PROVE  MemberOK(k)'
  <2>1. PICK r, c, K : r = data[k].name /\ c = conn[k] /\ K = ServerKey(r)
    OBVIOUS
  <2>2. K = ServerKey(r)'
    BY <2>1 DEF ServerKey
  <2>3. \A s \in Seq(Still) : s \in Seq(Sealed) /\ Leads(K, s, K, FALSE) /\ Hands(s, K)
    BY StillLeads, SeqGrows DEF Still
  <2>4. c # NoConn => c \in Conns
    BY <2>1, WhoIsThere
  <2> QED
    BY <2>1, <2>2, <2>3, <2>4, MemberGoesOn DEF Chained
<1> QED
  BY <1>2, <1>3 DEF Chained

LEMMA PassesKeepsChained ==
    ASSUME Inv, Told, Chained, UNCHANGED <<conn, data, cipher>>, NEW c \in Conns, NEW f,
           Passes(c, f)
    PROVE  Chained'
<1>1. PICK fs : SendDown(fs) /\ \A x \in Conns : fs[x] \in Seq(Plain)
  BY DEF Passes
<1>2. TakesUp(c, f) /\ ~Rotation(f) /\ f = Head(up[c]) /\ UNCHANGED <<owner, roomsHistory>>
  BY DEF Passes, Posted, Rotation, TakesUp
<1>3. ASSUME NEW x \in Conns
      PROVE  down'[x] = down[x] \/ \E s \in Seq(Still) : down'[x] = down[x] \o s
  <2>1. fs[x] \in Seq(Still)
    BY <1>1, SeqGrows DEF Plain, Still, Known
  <2> QED
    BY <1>1, <2>1, SentDown
<1> QED
  BY <1>2, <1>3, TakenUp, AllGoOn

LEMMA AdmitsKeepsChained ==
    ASSUME Inv, Told, Chained, UNCHANGED <<conn, data, cipher>>, NEW c \in Conns,
           NEW f \in SaidOn(c), NEW m \in Keys, Admits(c, f, m)
    PROVE  Chained'
<1>1. /\ f \in Known /\ f \in Sealed /\ f.room \in Rooms /\ Joins(f.key, f.room) /\ f.key \in Keys
      /\ f.key \notin Creators /\ Exists(f.room) /\ Answer(f) /\ ~Posted(f) /\ ~Rotation(f)
  BY DEF SaidOn, Known, Sealed, Admits, Joins, Answer, Posted, Rotation, Opened
<1>2. PICK j, d, q, log, s : /\ j = f.key /\ d = online[j] /\ q = f.room /\ log = roomsHistory[q]
                             /\ s = <<f>> \o log
  OBVIOUS
<1>3. /\ TakesUp(c, f) /\ d # NoConn /\ SendTo(d, s) /\ UNCHANGED <<owner, roomsHistory>>
      /\ conn[m] = c /\ m = owner[q] /\ up[c] # << >> /\ f = Head(up[c])
      /\ down \in [Conns -> Seq(Frames)]
  BY <1>2 DEF Admits, TakesUp, Inv, ServerTypes
<1>4. ASSUME NEW x \in Conns
      PROVE  /\ \/ up'[x] = up[x]
                \/ up[x] # << >> /\ ~Rotation(Head(up[x])) /\ up'[x] = Tail(up[x])
             /\ x # d => down'[x] = down[x]
             /\ down'[x] = down[x] \/ down'[x] = down[x] \o s
  <2>1. down'[x] = IF link[x] = "open" THEN down[x] \o (IF x = d THEN s ELSE << >>) ELSE down[x]
    BY <1>3, SentTo
  <2>2. down[x] \o << >> = down[x]
    BY <1>3, ConcatEmptySeq
  <2> QED
    BY <1>1, <1>3, <2>1, <2>2, TakenUp
<1>5. \A l \in Creators : conn[l] # d
  BY <1>1, <1>2, <1>3, Listener, ConstantsOK
<1>6. ASSUME NEW r \in Rooms
      PROVE  OwnerOK(r)'
  <2>1. PICK o, b : o = owner[r] /\ b = conn[o]
    OBVIOUS
  <2>2. ASSUME Exists(r)
        PROVE  b \in Conns /\ b # d /\ roomsHistory'[r] \in Seq(Under(ServerKey(r).n))
    <3>1. b \in Conns /\ b # d
      BY <1>5, <2>1, <2>2, OwnerPlace
    <3> QED
      BY <1>3, <2>2, <3>1 DEF Chained, OwnerOK
  <2>3. ServerKey(r)' = ServerKey(r)
    BY <1>3 DEF ServerKey
  <2> QED
    <3>1. Exists(r) =>
             /\ conn'[o] = b /\ cipher'[o] = cipher[o] /\ down'[b] = down[b]
             /\ \/ up'[b] = up[b]
                \/ up[b] # << >> /\ ~Rotation(Head(up[b])) /\ up'[b] = Tail(up[b])
             /\ ServerKey(r)' = ServerKey(r)
             /\ roomsHistory'[r] \in Seq(Under(ServerKey(r).n))
      BY <1>4, <2>1, <2>2, <2>3
    <3>2. OwnerOK(r) /\ owner'[r] = owner[r]
      BY <1>3 DEF Chained
    <3> QED
      BY <2>1, <3>1, <3>2, OwnerGoesOn
<1>7. PICK K : K = ServerKey(q)
  OBVIOUS
<1>8. Leads(K, s, K, FALSE) /\ Hands(s, K) /\ s \in Seq(Sealed)
  <2>1. /\ K \in RoomKeys /\ log \in Seq(Under(K.n)) /\ Leads(K, up[c], cipher[m], TRUE)
        /\ up[c] \in Seq(Under(cipher[m].n))
    BY <1>1, <1>2, <1>3, <1>7, ServerKeyIsKey DEF Chained, OwnerOK
  <2>2. Fits(K, f, TRUE)
    <3>1. PICK u, l : u = up[c] /\ l = cipher[m]
      OBVIOUS
    <3>2. u \in Seq(Under(l.n)) /\ u # << >> /\ Leads(K, u, l, TRUE) /\ f = Head(u)
      BY <1>3, <2>1, <3>1
    <3>3. Fits(K, Head(u), TRUE)
      BY <3>2, LeadsOn
    <3> QED
      BY <3>2, <3>3
  <2>3. f.body.content = K /\ Switch(K, f) = K /\ Fits(K, f, FALSE)
    BY <1>1, <2>2 DEF Fits, Switch, Rotation
  <2>4. PICK one : one = <<f>>
    OBVIOUS
  <2>5. one \in Seq(Sealed) /\ Leads(K, one, K, FALSE) /\ Hands(one, K)
    <3>1. one \in Seq(Sealed)
      BY <1>1, <2>4
    <3>2. Leads(K, one, K, FALSE)
      <4>1. Leads(K, <<f>>, K, FALSE) <=> Switch(K, f) = K /\ Fits(K, f, FALSE)
        BY <1>1, LeadsOne, Zenon
      <4> QED
        BY <2>3, <2>4, <4>1
    <3>3. Hands(<<f>>, K)
      BY <1>1, <2>3, HandsOne
    <3> QED
      BY <2>4, <3>1, <3>2, <3>3
  <2>6. log \in Seq(Sealed) /\ Leads(K, log, K, FALSE) /\ Hands(log, K)
    <3>1. Leads(K, log, K, FALSE)
      BY <2>1, UnderLeads
    <3>2. log \in Seq({g \in Known : Posted(g) /\ g.room = q})
      BY <1>1, <1>2, LogIsKnown
    <3>3. Hands(log, K)
      <4>1. \A g \in {h \in Known : Posted(h) /\ h.room = q} : ~Answer(g)
        BY DEF Posted, Answer
      <4> QED
        BY <3>2, <4>1, HandsNothing
    <3>4. log \in Seq(Sealed)
      BY <2>1, SeqGrows DEF Under
    <3> QED
      BY <3>1, <3>3, <3>4
  <2>7. Leads(K, one \o log, K, FALSE) /\ Hands(one \o log, K) /\ one \o log \in Seq(Sealed)
    BY <2>5, <2>6, LeadsFurther, HandsConcat, ConcatProperties
  <2> QED
    BY <1>2, <2>4, <2>7
<1>9. ASSUME NEW k \in Keys
      PROVE  MemberOK(k)'
  <2>1. PICK r, b : r = data[k].name /\ b = conn[k]
    OBVIOUS
  <2>2. ServerKey(r)' = ServerKey(r)
    BY <1>3 DEF ServerKey
  <2>3. b # NoConn => b \in Conns
    BY <2>1, WhoIsThere
  <2>4. CASE b = d
    <3>1. k = j
      BY <1>1, <1>2, <1>3, <2>1, <2>4, Listener
    <3>2. r = q
      BY <1>1, <1>2, <1>3, <2>1, <2>4, <3>1 DEF Joins, Inv, ClientOK
    <3> QED
      BY <1>3, <1>4, <1>7, <1>8, <2>1, <2>2, <2>3, <3>2, MemberGoesOn DEF Chained
  <2>5. CASE b # d
    BY <1>3, <1>4, <2>1, <2>2, <2>3, <2>5, MemberGoesOn DEF Chained
  <2> QED
    BY <2>4, <2>5
<1> QED
  BY <1>6, <1>9 DEF Chained

(* ... and whom: all members present, each member of that room only.       *)
LEMMA RelayReaches ==
    ASSUME NEW f, NEW r, NEW m, FanOut(r, m, f), NEW u \in users[r], u # m, online[u] \in Conns,
           online[u] # NoConn, link[online[u]] = "open"
    PROVE  down'[online[u]] = down[online[u]] \o <<f>>
<1>1. PICK present, x : present = Present(r, m) /\ x = online[u]
  OBVIOUS
<1>2. u \in present /\ online[u] = x /\ x \in Conns
  BY <1>1 DEF Present
<1> DEFINE fs == [y \in Conns |-> IF \E v \in present : online[v] = y THEN <<f>> ELSE << >>]
<1>3. SendDown(fs)
  BY <1>1 DEF FanOut
<1>4. fs[x] = <<f>>
  BY <1>2
<1> HIDE DEF fs
<1> QED
  BY <1>1, <1>2, <1>3, <1>4 DEF SendDown

LEMMA ReceiverIsMember ==
    ASSUME Inv, Told, NEW r \in Rooms, NEW u \in users[r], NEW l \in Keys, conn[l] # NoConn,
           conn[l] = online[u]
    PROVE  /\ l = u
           /\ l \in Creators => l = owner[r]
           /\ l \notin Creators => data[l].name = r
<1>1. u \in Keys /\ online[u] # NoConn
  BY DEF Inv, ServerTypes
<1>2. l = u
  BY <1>1, Listener
<1>3. u = owner[r] \/ Joins(u, r)
  BY DEF Told, HouseOK
<1>4. data[l] # NoData
  BY DEF Inv, ClientOK
<1>5. l \notin Creators => owner[r] # l
  BY NullsOK DEF Inv, ServerTypes
<1> QED
  BY <1>2, <1>3, <1>4, <1>5 DEF Joins

(* What is relayed fits the server's key; a rotation is sealed with it.    *)
LEMMA RelaysFitting ==
    ASSUME Inv, Told, Chained, NEW c \in Conns, NEW f \in SaidOn(c), NEW m \in Keys,
           Relays(c, f, m), NEW K, K = ServerKey(f.room)
    PROVE  /\ f \in Known /\ f \in Sealed /\ f.room \in Rooms /\ Exists(f.room) /\ Posted(f)
           /\ conn[m] = c /\ m \in users[f.room] /\ f.body.seal \in RoomKeys
           /\ K \in RoomKeys /\ K.n \in Nat /\ f.body.seal.n <= K.n
           /\ Rotation(f) => /\ m = owner[f.room] /\ f.body.seal = K
                             /\ f.body.content \in RoomKeys /\ f.body.content.n = K.n + 1
                             /\ f.body.content # K
           /\ ~Rotation(f) => f \in Under(K.n)
           /\ m \in Creators => m = owner[f.room]
<1>1. /\ f \in Known /\ f \in Sealed /\ f.room \in Rooms /\ Exists(f.room) /\ Posted(f)
      /\ f.body.seal \in RoomKeys /\ f = Head(up[c]) /\ up[c] # << >>
      /\ conn[m] = c /\ SaidBy(m, f) /\ (Rotation(f) => m = owner[f.room])
  BY DEF SaidOn, Known, Sealed, Relays, Posts, Opened, TakesUp
<1>2. K \in RoomKeys /\ K.n \in Nat
  BY <1>1, ServerKeyIsKey
<1>3. c # NoConn /\ Keyed(m) /\ f.room = data[m].name /\ f.room # NoRoom
  BY <1>1, NullsOK DEF SaidBy
<1>4. m \in users[f.room] /\ (m \in Creators => m = owner[f.room])
  BY <1>1, <1>3, KeyedPlace
<1>5. CASE m = owner[f.room]
  <2>1. PICK u, l : u = up[c] /\ l = cipher[m]
    OBVIOUS
  <2>2. u \in Seq(Under(l.n)) /\ Leads(K, u, l, TRUE) /\ f = Head(u) /\ u # << >>
    BY <1>1, <1>5, <2>1 DEF Chained, OwnerOK
  <2>3. Fits(K, f, TRUE)
    BY <2>2, LeadsOn
  <2> QED
    BY <1>1, <1>2, <1>4, <1>5, <2>3 DEF Fits, Under, Sealed, RoomKey, RoomKeys
<1>6. CASE m # owner[f.room]
  <2>1. m \notin Creators
    BY <1>4, <1>6
  <2>2. up[c] \in Seq(Under(K.n))
    BY <1>1, <1>3, <2>1 DEF Chained, MemberOK
  <2>3. f \in Under(K.n)
    BY <1>1, <2>2, HeadTailProperties
  <2> QED
    BY <1>1, <1>2, <1>4, <1>6, <2>1, <2>3 DEF Under
<1> QED
  BY <1>5, <1>6

(* The room's owner when something is relayed.                             *)
LEMMA RelaysOwner ==
    ASSUME Inv, Told, Chained, UNCHANGED <<conn, data, cipher>>, NEW c \in Conns,
           NEW f \in SaidOn(c), NEW m \in Keys, Relays(c, f, m), NEW r \in Rooms
    PROVE  OwnerOK(r)'
<1>1. PICK q, K, o, b : q = f.room /\ K = ServerKey(q) /\ o = owner[r] /\ b = conn[o]
  OBVIOUS
<1>2. /\ q \in Rooms /\ Exists(q) /\ Posted(f) /\ conn[m] = c /\ m \in users[q]
      /\ f.body.seal \in RoomKeys /\ f \in Sealed
      /\ K \in RoomKeys /\ K.n \in Nat /\ f.body.seal.n <= K.n
      /\ Rotation(f) => /\ m = owner[q] /\ f.body.seal = K
                        /\ f.body.content \in RoomKeys /\ f.body.content.n = K.n + 1
                        /\ f.body.content # K
      /\ ~Rotation(f) => f \in Under(K.n)
  BY <1>1, RelaysFitting
<1>3. /\ TakesUp(c, f) /\ FanOut(q, m, f) /\ UNCHANGED <<owner, users>>
      /\ up[c] # << >> /\ f = Head(up[c]) /\ roomsHistory \in [Rooms -> Seq(Posts)]
      /\ roomsHistory' = [roomsHistory EXCEPT ![q] = IF Rotation(f) THEN <<f>> ELSE Append(@, f)]
  BY <1>1 DEF Relays, TakesUp, Inv, ServerOK
<1>4. SUFFICES ASSUME Exists(r)
               PROVE  OwnerOK(r)'
  BY <1>3 DEF OwnerOK, Exists
<1>5. /\ OwnerOK(r) /\ o \in Creators /\ o \in Keys /\ b \in Conns /\ b # NoConn
      /\ cipher[o] \in RoomKeys /\ cipher[o].n \in Nat /\ o = owner[r]
      /\ \A p \in Rooms : owner[p] = o => p = r
      /\ up[b] \in Seq(Sealed)
  BY <1>1, <1>4, OwnerPlace DEF Chained
<1>6. down'[b] = down[b] \/ (q = r /\ o # m /\ down'[b] = down[b] \o <<f>>)
  <2>1. CASE \E u \in users[q] : u # m /\ online[u] = b
    <3>1. PICK u \in users[q] : u # m /\ online[u] = b
      BY <2>1
    <3>2. o = u /\ o = owner[q]
      BY <1>1, <1>2, <1>5, <3>1, ReceiverIsMember
    <3>3. q = r
      BY <1>2, <1>5, <3>2
    <3> QED
      BY <1>2, <1>3, <1>5, <3>1, <3>2, <3>3, RelayedTo
  <2>2. CASE ~\E u \in users[q] : u # m /\ online[u] = b
    BY <1>3, <1>5, <2>2, RelayedTo
  <2> QED
    BY <2>1, <2>2
<1>7. q = r => K.n <= cipher[o].n
  <2>1. ASSUME q = r
        PROVE  Follow(K, up[b]) = cipher[o]
    BY <1>1, <1>4, <2>1 DEF OwnerOK, Leads, Chained
  <2>2. ASSUME q = r
        PROVE  cipher[o].n >= K.n
    BY <1>2, <1>5, <2>1, <2>2, FollowBounds
  <2> QED
    BY <1>2, <1>5, <2>2
<1>8. CASE ~Rotation(f) \/ q # r
  <2>1. ServerKey(r)' = ServerKey(r)
    <3>1. CASE q # r
      BY <1>3, <3>1 DEF ServerKey
    <3>2. CASE q = r
      <4>1. PICK log, new : log = roomsHistory[r] /\ new = roomsHistory'[r]
        OBVIOUS
      <4>2. new = Append(log, f) /\ log \in Seq(Posts) /\ f \in Posts
        BY <1>2, <1>3, <1>8, <3>2, <4>1 DEF Sealed
      <4>3. /\ new # << >>
            /\ log = << >> => Head(new) = f
            /\ log # << >> => Head(new) = Head(log)
        BY <4>2
      <4> QED
        BY <1>3, <1>8, <3>2, <4>1, <4>3 DEF ServerKey
    <3> QED
      BY <3>1, <3>2
  <2>2. roomsHistory'[r] \in Seq(Under(ServerKey(r).n))
    <3>1. PICK log, S : log = roomsHistory[r] /\ S = Under(ServerKey(r).n)
      OBVIOUS
    <3>2. log \in Seq(S)
      BY <1>4, <1>5, <3>1 DEF OwnerOK
    <3>3. q = r => f \in S
      BY <1>1, <1>2, <1>8, <3>1
    <3>4. f \in S => Append(log, f) \in Seq(S)
      BY <3>2, AppendProperties
    <3> QED
      BY <1>3, <1>8, <3>1, <3>2, <3>3, <3>4
  <2>3. \/ up'[b] = up[b]
        \/ up[b] # << >> /\ ~Rotation(Head(up[b])) /\ up'[b] = Tail(up[b])
    <3>1. CASE b = c
      <4>1. m = o
        BY <1>1, <1>2, <1>5, <3>1, ConnsApart
      <4>2. ~Rotation(f)
        BY <1>2, <1>5, <1>8, <4>1
      <4> QED
        BY <1>3, <3>1, <4>2, TakenUp
    <3>2. CASE b # c
      BY <1>3, <1>5, <3>2, TakenUp
    <3> QED
      BY <3>1, <3>2
  <2>4. down'[b] = down[b] \/ \E s \in Seq(Under(cipher[o].n)) : down'[b] = down[b] \o s
    <3>1. ASSUME q = r, o # m, down'[b] = down[b] \o <<f>>
          PROVE  <<f>> \in Seq(Under(cipher[o].n))
      <4>1. f \in Under(K.n)
        BY <1>2, <1>8, <3>1
      <4>2. f \in Under(cipher[o].n)
        BY <1>2, <1>5, <1>7, <3>1, <4>1, UnderGrows
      <4> QED
        BY <4>2
    <3> QED
      BY <1>6, <3>1
  <2>5. Exists(r) =>
           /\ conn'[o] = b /\ cipher'[o] = cipher[o]
           /\ \/ up'[b] = up[b]
              \/ up[b] # << >> /\ ~Rotation(Head(up[b])) /\ up'[b] = Tail(up[b])
           /\ down'[b] = down[b] \/ \E s \in Seq(Under(cipher[o].n)) : down'[b] = down[b] \o s
           /\ ServerKey(r)' = ServerKey(r)
           /\ roomsHistory'[r] \in Seq(Under(ServerKey(r).n))
    BY <1>1, <2>1, <2>2, <2>3, <2>4
  <2>6. OwnerOK(r) /\ owner'[r] = owner[r]
    BY <1>3, <1>5
  <2> QED
    BY <1>1, <2>5, <2>6, OwnerGoesOn
<1>9. CASE Rotation(f) /\ q = r
  <2>1. m = o /\ b = c /\ down'[b] = down[b]
    BY <1>1, <1>2, <1>6, <1>9
  <2>2. PICK new : new = f.body.content
    OBVIOUS
  <2>3. /\ up[c] \in Seq(Under(cipher[o].n)) /\ down[c] \in Seq(Under(cipher[o].n))
        /\ Leads(K, up[c], cipher[o], TRUE)
    BY <1>1, <1>4, <1>5, <1>9, <2>1 DEF OwnerOK
  <2>4. Leads(new, Tail(up[c]), cipher[o], TRUE)
    <3>1. PICK u, l : u = up[c] /\ l = cipher[o]
      OBVIOUS
    <3>2. u \in Seq(Under(l.n)) /\ u # << >> /\ Leads(K, u, l, TRUE) /\ f = Head(u)
      BY <1>3, <2>3, <3>1
    <3>3. Leads(Switch(K, f), Tail(u), l, TRUE)
      BY <3>2, LeadsOn
    <3>4. Switch(K, f) = new
      BY <1>2, <1>9, <2>2 DEF Switch, Rotation
    <3> QED
      BY <3>1, <3>3, <3>4
  <2>5. up'[c] = Tail(up[c]) /\ up'[c] \in Seq(Under(cipher[o].n))
    <3>1. Tail(up[c]) \in Seq(Under(cipher[o].n))
      BY <1>3, <2>3, HeadTailProperties
    <3> QED
      BY <1>3, <3>1, TakenUp
  <2>6. roomsHistory'[r] = <<f>> /\ ServerKey(r)' = new
    <3>1. roomsHistory'[r] = <<f>>
      BY <1>3, <1>9
    <3> QED
      BY <1>9, <2>2, <3>1 DEF ServerKey
  <2>7. <<f>> \in Seq(Under(new.n))
    <3>1. f \in Under(new.n)
      BY <1>2, <1>9, <2>2 DEF Under
    <3> QED
      BY <3>1
  <2> QED
    BY <1>1, <1>3, <2>1, <2>3, <2>4, <2>5, <2>6, <2>7 DEF OwnerOK
<1> QED
  BY <1>8, <1>9

(* A member when something is relayed.                                     *)
LEMMA RelaysMember ==
    ASSUME Inv, Once, Told, Chained, UNCHANGED <<conn, data, cipher>>, NEW c \in Conns,
           NEW f \in SaidOn(c), NEW m \in Keys, Relays(c, f, m), NEW k \in Keys
    PROVE  MemberOK(k)'
<1>1. PICK q, K, r, b : q = f.room /\ K = ServerKey(q) /\ r = data[k].name /\ b = conn[k]
  OBVIOUS
<1>2. /\ q \in Rooms /\ Exists(q) /\ Posted(f) /\ conn[m] = c /\ m \in users[q]
      /\ f.body.seal \in RoomKeys /\ f \in Sealed
      /\ K \in RoomKeys /\ K.n \in Nat /\ f.body.seal.n <= K.n
      /\ Rotation(f) => /\ m = owner[q] /\ f.body.seal = K
                        /\ f.body.content \in RoomKeys /\ f.body.content.n = K.n + 1
                        /\ f.body.content # K
      /\ ~Rotation(f) => f \in Under(K.n)
      /\ m \in Creators => m = owner[q]
  BY <1>1, RelaysFitting
<1>3. /\ TakesUp(c, f) /\ FanOut(q, m, f) /\ UNCHANGED <<owner, users>>
      /\ up[c] # << >> /\ f = Head(up[c]) /\ roomsHistory \in [Rooms -> Seq(Posts)]
      /\ roomsHistory' = [roomsHistory EXCEPT ![q] = IF Rotation(f) THEN <<f>> ELSE Append(@, f)]
  BY <1>1 DEF Relays, TakesUp, Inv, ServerOK
<1>4. SUFFICES ASSUME k \notin Creators, b # NoConn, Exists(r)
               PROVE  MemberOK(k)'
  BY <1>1, <1>3 DEF MemberOK, Exists
<1>5. /\ b \in Conns /\ link[b] = "open" /\ MemberOK(k) /\ data[k] # NoData
      /\ (pubKey[b] = k => online[k] = b)
      /\ \A p \in Rooms : k \in users[p] => pubKey[b] = k /\ p = r
  <2>1. b \in Conns /\ link[b] = "open" /\ MemberOK(k) /\ data[k] # NoData /\ OnceOK(k)
    BY <1>1, <1>4, WhoIsThere DEF Chained, Once, Inv, ClientOK
  <2>2. ASSUME NEW p \in Rooms, k \in users[p]
        PROVE  p = r
    <3>1. owner[p] # k
      BY <1>4, NullsOK DEF Inv, ServerTypes
    <3>2. Joins(k, p)
      BY <2>2, <3>1 DEF Told, HouseOK
    <3> QED
      BY <1>1, <2>1, <3>2 DEF Joins
  <2> QED
    BY <1>1, <1>4, <2>1, <2>2 DEF OnceOK
<1>6. down'[b] = down[b] \/ (q = r /\ k \in users[q] /\ down'[b] = down[b] \o <<f>>)
  <2>1. CASE \E u \in users[q] : u # m /\ online[u] = b
    <3>1. PICK u \in users[q] : u # m /\ online[u] = b
      BY <2>1
    <3>2. k = u
      BY <1>1, <1>2, <1>4, <3>1, ReceiverIsMember
    <3> QED
      BY <1>2, <1>3, <1>5, <3>1, <3>2, RelayedTo
  <2>2. CASE ~\E u \in users[q] : u # m /\ online[u] = b
    BY <1>3, <1>5, <2>2, RelayedTo
  <2> QED
    BY <2>1, <2>2
<1>7. up'[b] = up[b] \/ (up[b] # << >> /\ up'[b] = Tail(up[b]))
  BY <1>3, <1>5, TakenUp
<1>8. PICK one : one = <<f>>
  OBVIOUS
<1>9. one \in Seq(Sealed) /\ \A L : Hands(one, L)
  <2>1. one \in Seq(Sealed) /\ one \in Seq({f})
    BY <1>2, <1>8
  <2>2. ASSUME NEW L
        PROVE  Hands(one, L)
    <3>1. \A g \in {f} : ~Answer(g)
      BY <1>2 DEF Posted, Answer
    <3> QED
      BY <2>1, <3>1, HandsNothing
  <2> QED
    BY <2>1, <2>2
<1>10. CASE ~Rotation(f) \/ q # r
  <2>1. ServerKey(r)' = ServerKey(r)
    <3>1. CASE q # r
      BY <1>3, <3>1 DEF ServerKey
    <3>2. CASE q = r
      <4>1. PICK log, new : log = roomsHistory[r] /\ new = roomsHistory'[r]
        OBVIOUS
      <4>2. new = Append(log, f) /\ log \in Seq(Posts) /\ f \in Posts
        BY <1>2, <1>3, <1>10, <3>2, <4>1 DEF Sealed
      <4>3. /\ new # << >>
            /\ log = << >> => Head(new) = f
            /\ log # << >> => Head(new) = Head(log)
        BY <4>2
      <4> QED
        BY <1>3, <1>10, <3>2, <4>1, <4>3 DEF ServerKey
    <3> QED
      BY <3>1, <3>2
  <2>2. q = r => Leads(K, one, K, FALSE)
    <3>1. ASSUME q = r
          PROVE  one \in Seq(Under(K.n))
      <4>1. f \in Under(K.n)
        BY <1>2, <1>10, <3>1
      <4> QED
        BY <1>8, <4>1
    <3> QED
      BY <1>2, <3>1, UnderLeads
  <2>3. \/ down'[b] = down[b]
        \/ \E s \in Seq(Sealed) : /\ Leads(ServerKey(r), s, ServerKey(r), FALSE)
                                  /\ Hands(s, ServerKey(r))
                                  /\ down'[b] = down[b] \o s
    BY <1>1, <1>6, <1>8, <1>9, <2>2
  <2>4. owner'[r] = owner[r] /\ data'[k].name = r /\ conn'[k] = b /\ cipher'[k] = cipher[k]
    BY <1>1, <1>3
  <2> QED
    BY <1>1, <1>5, <1>7, <2>1, <2>3, <2>4, MemberGoesOn
<1>11. CASE Rotation(f) /\ q = r
  <2>1. PICK new : new = f.body.content
    OBVIOUS
  <2>2. new \in RoomKeys /\ new.n = K.n + 1 /\ new.n \in Nat /\ Switch(K, f) = new /\ Fits(K, f, FALSE)
    BY <1>2, <1>11, <2>1 DEF Switch, Rotation, Fits
  <2>3. ServerKey(r)' = new /\ Exists(r)'
    <3>1. roomsHistory'[r] = <<f>>
      BY <1>2, <1>3, <1>11
    <3> QED
      BY <1>3, <1>4, <1>11, <2>1, <3>1 DEF ServerKey, Exists
  <2>4. /\ up[b] \in Seq(Under(K.n)) /\ Hands(down[b], K)
        /\ Keyed(k) => Leads(cipher[k], down[b], K, FALSE)
    BY <1>1, <1>4, <1>5, <1>11 DEF MemberOK
  <2>5. up'[b] \in Seq(Under(new.n))
    <3>1. Under(K.n) \subseteq Under(new.n)
      BY <1>2, <2>2, UnderGrows
    <3>2. up'[b] \in Seq(Under(K.n))
      <4>1. up[b] # << >> => Tail(up[b]) \in Seq(Under(K.n))
        BY <2>4, HeadTailProperties
      <4> QED
        BY <1>7, <2>4, <4>1
    <3> QED
      BY <3>1, <3>2, SeqGrows
  <2>6. Leads(K, one, new, FALSE)
    <3>1. Leads(K, <<f>>, new, FALSE) <=> Switch(K, f) = new /\ Fits(K, f, FALSE)
      BY <1>2, LeadsOne, Zenon
    <3> QED
      BY <1>8, <2>2, <3>1
  <2>7. down[b] \in Seq(Sealed)
    <3>1. Heard(b) \subseteq Sealed
      BY DEF Heard, Known
    <3> QED
      BY <1>5, <3>1, SeqGrows DEF Told, WordOK
  <2>8. CASE k \in users[q]
    <3>1. online[k] = b /\ k # m
      BY <1>2, <1>4, <1>5, <1>11, <2>8, ConstantsOK DEF Inv, ServerTypes, Exists
    <3>2. down'[b] = down[b] \o one
      BY <1>3, <1>4, <1>5, <1>8, <2>8, <3>1, RelayReaches
    <3>3. Hands(down[b] \o one, new)
      BY <1>9, <2>4, <2>6, <2>7, HandsConcat
    <3>4. Keyed(k) => Leads(cipher[k], down[b] \o one, new, FALSE)
      BY <1>9, <2>4, <2>6, <2>7, LeadsFurther
    <3> QED
      BY <1>1, <1>4, <2>3, <2>5, <3>2, <3>3, <3>4 DEF MemberOK, Keyed
  <2>9. CASE k \notin users[q]
    <3>1. ~Keyed(k)
      <4>1. r # NoRoom
        BY <1>2, <1>11, NullsOK
      <4> QED
        BY <1>1, <1>4, <1>11, <2>9, <4>1, KeyedPlace
    <3>2. down'[b] = down[b]
      BY <1>6, <2>9
    <3>3. down[b] \in Seq(Still)
      BY <1>1, <1>4, <1>5, <1>11, <2>9, OutsideDown
    <3>4. Hands(down'[b], new)
      BY <3>2, <3>3, StillLeads
    <3> QED
      BY <1>1, <1>4, <2>3, <2>5, <3>1, <3>4 DEF MemberOK, Keyed
  <2> QED
    BY <2>8, <2>9
<1> QED
  BY <1>10, <1>11

(* A room begins: its owner's key is the first, and nobody else has one.   *)
LEMMA FoundsKeepsChained ==
    ASSUME Inv, Told, Chained, UNCHANGED <<conn, data, cipher>>, NEW c \in Conns, NEW f,
           NEW r \in Rooms, NEW m \in Keys, Founds(c, f, r, m)
    PROVE  Chained'
<1>1. /\ TakesUp(c, f) /\ f.cmd = "ROOM.CREATE" /\ ~Exists(r) /\ f = Head(up[c]) /\ up[c] # << >>
      /\ conn[m] = c /\ SaidBy(m, f) /\ data[m] # NoData /\ data[m].name = NoRoom
      /\ owner' = [owner EXCEPT ![r] = m]
      /\ SendTo(c, <<RoomCreated(r)>>) /\ roomsHistory' = roomsHistory
      /\ ServerTypes /\ c # NoConn
  BY NullsOK DEF Founds, TakesUp, Inv
<1>2. /\ owner'[r] = m /\ m \in Creators /\ \A q \in Rooms : owner[q] # m
      /\ \A q \in Rooms : q # r => owner'[q] = owner[q]
  BY <1>1 DEF ServerTypes, SaidBy
<1>3. ~Rotation(f)
  BY <1>1 DEF Rotation
<1>4. ASSUME NEW x \in Conns
      PROVE  /\ \/ up'[x] = up[x]
                \/ up[x] # << >> /\ ~Rotation(Head(up[x])) /\ up'[x] = Tail(up[x])
             /\ \/ down'[x] = down[x]
                \/ \E s \in Seq(Still) : down'[x] = down[x] \o s
  <2>1. RoomCreated(r) \in Still
    <3>1. RoomCreated(r) \in Plain
      BY FrameTypes, PlainReply DEF RoomCreated, Frame, ReplyCommands
    <3> QED
      BY <3>1 DEF Plain, Still, Known
  <2>2. <<RoomCreated(r)>> \in Seq(Still) /\ << >> \in Seq(Still)
    BY <2>1, EmptySeq
  <2>3. down'[x] = IF link[x] = "open" THEN down[x] \o (IF x = c THEN <<RoomCreated(r)>> ELSE << >>)
                   ELSE down[x]
    BY <1>1, SentTo
  <2> QED
    BY <1>1, <1>3, <2>2, <2>3, TakenUp
<1>5. ASSUME NEW q \in Rooms, q # r
      PROVE  OwnerOK(q)'
  <2>1. PICK o, b : o = owner[q] /\ b = conn[o]
    OBVIOUS
  <2>2. OwnerOK(q) /\ owner'[q] = owner[q]
    BY <1>2, <1>5 DEF Chained
  <2>3. Exists(q) =>
           /\ conn'[o] = b /\ cipher'[o] = cipher[o]
           /\ \/ up'[b] = up[b]
              \/ up[b] # << >> /\ ~Rotation(Head(up[b])) /\ up'[b] = Tail(up[b])
           /\ down'[b] = down[b] \/ \E s \in Seq(Under(cipher[o].n)) : down'[b] = down[b] \o s
           /\ ServerKey(q)' = ServerKey(q)
           /\ roomsHistory'[q] \in Seq(Under(ServerKey(q).n))
    <3>1. Exists(q) => b \in Conns
      BY <2>1, OwnerPlace
    <3>2. \A s \in Seq(Still) : s \in Seq(Under(cipher[o].n))
      BY StillLeads
    <3>3. Exists(q) => roomsHistory'[q] \in Seq(Under(ServerKey(q).n))
      BY <1>1, <2>2 DEF OwnerOK
    <3>4. ServerKey(q)' = ServerKey(q)
      BY <1>1, <2>2 DEF ServerKey
    <3> QED
      BY <1>4, <2>1, <3>1, <3>2, <3>3, <3>4
  <2> QED
    BY <2>1, <2>2, <2>3, OwnerGoesOn
<1>6. PICK K : K = RoomKey(m, 1)
  OBVIOUS
<1>7. roomsHistory'[r] = << >> /\ ServerKey(r)' = K /\ cipher[m] = K
  <2>1. roomsHistory'[r] = << >>
    BY <1>1, LogIsKnown
  <2>2. cipher[m] = K
    BY <1>1, <1>2, <1>6 DEF Told, PlaceOK, CreatorOK
  <2> QED
    BY <1>2, <1>6, <2>1, <2>2 DEF ServerKey
<1>8. up'[c] \in Seq(Still) /\ down'[c] \in Seq(Still)
  <2>1. up[c] \in Seq(Still)
    BY <1>1, UnkeyedUp
  <2>2. ASSUME NEW q \in Rooms, m \in users[q]
        PROVE  FALSE
    BY <1>2, <2>2 DEF Told, HouseOK, Joins
  <2>3. down[c] \in Seq(Still)
    BY <1>1, <2>2, OutsideDown
  <2>4. up'[c] \in Seq(Still)
    <3>1. up[c] # << >> => Tail(up[c]) \in Seq(Still)
      BY <2>1, HeadTailProperties
    <3> QED
      BY <1>4, <2>1, <3>1
  <2>5. down'[c] \in Seq(Still)
    BY <1>4, <2>3, ConcatProperties
  <2> QED
    BY <2>4, <2>5
<1>9. OwnerOK(r)'
  <2>1. /\ \A n : up'[c] \in Seq(Under(n)) /\ down'[c] \in Seq(Under(n))
        /\ Leads(K, up'[c], K, TRUE)
    BY <1>8, StillLeads
  <2>2. \A n : << >> \in Seq(Under(n))
    BY EmptySeq
  <2> QED
    BY <1>1, <1>2, <1>7, <2>1, <2>2 DEF OwnerOK
<1>10. ASSUME NEW k \in Keys
       PROVE  MemberOK(k)'
  <2>1. PICK q, b : q = data[k].name /\ b = conn[k]
    OBVIOUS
  <2>2. CASE q # r
    <3>1. owner'[q] = owner[q] /\ MemberOK(k)
      BY <1>1, <2>2 DEF Chained
    <3>2. ServerKey(q)' = ServerKey(q)
      BY <1>1, <3>1 DEF ServerKey
    <3>3. \A s \in Seq(Still) : /\ s \in Seq(Sealed) /\ Hands(s, ServerKey(q))
                                /\ Leads(ServerKey(q), s, ServerKey(q), FALSE)
      BY StillLeads, SeqGrows DEF Still
    <3>4. b # NoConn => b \in Conns
      BY <2>1, WhoIsThere
    <3> QED
      BY <1>4, <2>1, <3>1, <3>2, <3>3, <3>4, MemberGoesOn
  <2>3. CASE q = r
    <3>1. SUFFICES ASSUME b # NoConn, k \notin Creators
                   PROVE  MemberOK(k)'
      BY <2>1 DEF MemberOK
    <3>2. ~Keyed(k) /\ b \in Conns /\ data[k] # NoData
      <4>1. q # NoRoom
        BY <2>3, NullsOK
      <4>2. b \in Conns /\ data[k] # NoData
        BY <2>1, <3>1, WhoIsThere DEF Inv, ClientOK
      <4>3. ~Opened(q)
        BY <1>1, <2>3, NullsOK DEF Opened, Exists
      <4>4. ~Keyed(k)
        BY <2>1, <3>1, <4>1, <4>3, KeyedPlace
      <4> QED
        BY <4>2, <4>4
    <3>3. ASSUME NEW p \in Rooms, Exists(p), k \in users[p]
          PROVE  FALSE
      <4>1. owner[p] # k
        BY <1>1, <3>1, NullsOK DEF ServerTypes
      <4>2. Joins(k, p)
        BY <3>3, <4>1 DEF Told, HouseOK
      <4> QED
        BY <1>1, <2>1, <2>3, <3>2, <3>3, <4>2 DEF Joins
    <3>4. up[b] \in Seq(Still) /\ down[b] \in Seq(Still)
      BY <2>1, <3>1, <3>2, <3>3, UnkeyedUp, OutsideDown
    <3>5. up'[b] \in Seq(Still) /\ down'[b] \in Seq(Still)
      <4>1. up[b] # << >> => Tail(up[b]) \in Seq(Still)
        BY <3>4, HeadTailProperties
      <4>2. \A s \in Seq(Still) : down[b] \o s \in Seq(Still)
        BY <3>4, ConcatProperties
      <4> QED
        BY <1>4, <3>2, <3>4, <4>1, <4>2
    <3>6. \A n : up'[b] \in Seq(Under(n)) /\ Hands(down'[b], n)
      BY <3>5, StillLeads
    <3> QED
      BY <2>1, <3>2, <3>6 DEF MemberOK, Keyed
  <2> QED
    BY <2>2, <2>3
<1> QED
  BY <1>5, <1>9, <1>10 DEF Chained

LEMMA NextKeepsChained ==
    ASSUME Leavers = {}, Inv, Once, Told, Chained, [Next]_vars
    PROVE  Chained'
<1>1. ASSUME NEW k \in Keys, UserStep(k)
      PROVE  Chained'
  <2>1. ~Leave(k)
    BY DEF Leave
  <2>2. \A c \in Conns : ~OpenExisting(k, c)
    BY NothingReopens
  <2> QED
    BY <1>1, <2>1, <2>2, OpensKeepChained, GenerateInviteKeepsChained, SendMessageKeepsChained
       DEF UserStep
<1>2. ASSUME NEW k \in Keys, OnReceive(k)
      PROVE  Chained'
  BY <1>2, ReadsFrame, ReadsKeepsChained, CrashKeepsChained
<1>3. ASSUME NEW c \in Conns, Serve(c)
      PROVE  Chained'
  <2>1. UNCHANGED <<conn, data, cipher>>
    BY <1>3, ServeSteady
  <2>2. CASE Closes
    BY <2>1, <2>2, AllGoOn DEF Closes
  <2>3. CASE \E f \in SaidOn(c), m \in Keys : Relays(c, f, m)
    BY <2>1, <2>3, RelaysOwner, RelaysMember DEF Chained
  <2> QED
    BY <1>3, <2>1, <2>2, <2>3, ServeCases, PassesKeepsChained, FoundsKeepsChained,
       AdmitsKeepsChained
<1>4. CASE UNCHANGED vars
  <2>1. UNCHANGED <<conn, data, cipher, owner, roomsHistory, up, down>>
    BY <1>4 DEF vars, wireVars, serverVars, roomVars
  <2> QED
    BY <2>1, AllGoOn
<1> QED
  BY <1>1, <1>2, <1>3, <1>4, RestartKeepsChained DEF Next

(* An owner finds nothing on its connection that changes its key.          *)
LEMMA OwnersWords ==
    ASSUME Inv, Told, Chained, NEW k \in Keys, k \in Creators, Keyed(k), conn[k] # NoConn
    PROVE  up[conn[k]] \in Seq(Under(cipher[k].n)) /\ down[conn[k]] \in Seq(Under(cipher[k].n))
<1>1. CASE \E r \in Rooms : Exists(r) /\ owner[r] = k
  BY <1>1 DEF Chained, OwnerOK
<1>2. CASE ~\E r \in Rooms : Exists(r) /\ owner[r] = k
  <2>1. data[k].name = NoRoom
    BY <1>2, KeyedPlace DEF Opened
  <2>2. ASSUME NEW r \in Rooms, Exists(r), k \in users[r]
        PROVE  FALSE
    BY <1>2, <2>2 DEF Told, HouseOK, Joins
  <2>3. up[conn[k]] \in Seq(Still) /\ down[conn[k]] \in Seq(Still)
    BY <2>1, <2>2, UnkeyedUp, OutsideDown
  <2> QED
    BY <2>3, StillLeads
<1> QED
  BY <1>1, <1>2

LEMMA MembersWords ==
    ASSUME Inv, Told, Chained, NEW k \in Keys, k \notin Creators, Keyed(k), conn[k] # NoConn
    PROVE  \E r \in Rooms :
              /\ Exists(r) /\ owner[r] = data[k].owner
              /\ Leads(cipher[k], down[conn[k]], ServerKey(r), FALSE)
<1>1. ClientOK(k) /\ MemberOK(k)
  BY DEF Inv, Chained
<1>2. data[k].name # NoRoom
  BY <1>1 DEF ClientOK, OriginOK
<1>3. data[k].name \in Rooms /\ Opened(data[k].name) /\ owner[data[k].name] = data[k].owner
  BY <1>2, KeyedPlace
<1> QED
  BY <1>1, <1>3 DEF MemberOK, Opened

LEMMA KeyedWords ==
    ASSUME Inv, Told, NEW k \in Keys, Keyed(k), conn[k] # NoConn
    PROVE  /\ cipher[k] \in RoomKeys /\ data[k] \in Datas /\ data[k] # NoData
           /\ k \in Creators => data[k].owner = k
           /\ up[conn[k]] \in Seq(Sealed) /\ down[conn[k]] \in Seq(Sealed)
<1>1. PICK c \in Conns : c = conn[k]
  BY WhoIsThere
<1>2. TypeOK /\ ClientOK(k) /\ WordOK(c) /\ Heard(c) \subseteq Sealed /\ SaidOn(c) \subseteq Sealed
  BY DEF Inv, Told, Heard, SaidOn, Known
<1>3. up[c] \in Seq(Sealed) /\ down[c] \in Seq(Sealed)
  BY <1>2, SeqGrows DEF WordOK
<1>4. cipher[k] \in RoomKeys /\ data[k] \in Datas /\ data[k] # NoData
  BY <1>2 DEF TypeOK, ClientOK, Keyed
<1> QED
  BY <1>1, <1>2, <1>3, <1>4 DEF ClientOK, OriginOK

LEMMA ChainedLeads ==
    ASSUME Inv, Told, Chained
    PROVE  KeyChain
<1>1. SUFFICES ASSUME NEW k \in Keys, NEW o, o = data[k].owner, Keyed(k), conn[k] # NoConn,
                      Keyed(o), conn[o] # NoConn
               PROVE  Follow(cipher[k], down[conn[k]] \o up[conn[o]]) = cipher[o]
  BY DEF KeyChain, OwnerOf, Reached
<1>2. PICK key, s, t : key = cipher[k] /\ s = down[conn[k]] /\ t = up[conn[o]]
  OBVIOUS
<1>3. o \in Keys
  BY <1>1, KeyedWords DEF Datas
<1>4. s \in Seq(Sealed) /\ t \in Seq(Sealed) /\ key \in RoomKeys
  BY <1>1, <1>2, <1>3, KeyedWords
<1>5. CASE k \notin Creators
  <2>1. PICK r \in Rooms : Exists(r) /\ owner[r] = o /\ Leads(key, s, ServerKey(r), FALSE)
    BY <1>1, <1>2, <1>5, MembersWords
  <2>2. Leads(ServerKey(r), t, cipher[o], TRUE)
    BY <1>2, <2>1 DEF Chained, OwnerOK
  <2>3. Follow(key, s) = ServerKey(r) /\ Follow(ServerKey(r), t) = cipher[o]
    BY <2>1, <2>2 DEF Leads
  <2> QED
    BY <1>2, <1>4, <2>3, FollowConcats
<1>6. CASE k \in Creators
  <2>1. o = k /\ s \in Seq(Under(key.n)) /\ t \in Seq(Under(key.n))
    BY <1>1, <1>2, <1>6, KeyedWords, OwnersWords
  <2>2. s \o t \in Seq(Under(key.n))
    BY <2>1, ConcatProperties
  <2>3. Leads(key, s \o t, key, FALSE)
    BY <1>4, <2>2, UnderLeads
  <2> QED
    BY <1>2, <2>1, <2>3 DEF Leads
<1> QED
  BY <1>5, <1>6

LEMMA ChainedFits ==
    ASSUME Inv, Told, Chained
    PROVE  KeyBeforeUse
<1>1. SUFFICES ASSUME NEW k \in Keys, Keyed(k), conn[k] # NoConn, NEW i \in DOMAIN down[conn[k]],
                      Says(down[conn[k]][i])
               PROVE  down[conn[k]][i].body.seal.n
                          <= Follow(cipher[k], Before(down[conn[k]], i)).n
  BY DEF KeyBeforeUse, Reached, Says, Before
<1>2. PICK key, s, f : key = cipher[k] /\ s = down[conn[k]] /\ f = s[i]
  OBVIOUS
<1>3. s \in Seq(Sealed) /\ key \in RoomKeys /\ Posted(f) /\ i \in DOMAIN s
  BY <1>1, <1>2, KeyedWords DEF Says, Posted
<1>4. CASE k \notin Creators
  <2>1. \E S : Leads(key, s, S, FALSE)
    BY <1>1, <1>2, <1>4, MembersWords
  <2>2. Fits(Follow(key, Before(s, i)), f, FALSE)
    BY <1>2, <1>3, <2>1 DEF Leads
  <2> QED
    BY <1>2, <1>3, <2>2 DEF Fits
<1>5. CASE k \in Creators
  <2>1. s \in Seq(Under(key.n))
    BY <1>1, <1>2, <1>5, OwnersWords
  <2>2. Leads(key, s, key, FALSE)
    BY <1>3, <2>1, UnderLeads
  <2>3. Fits(Follow(key, Before(s, i)), f, FALSE)
    BY <1>2, <1>3, <2>2 DEF Leads
  <2> QED
    BY <1>2, <1>3, <2>3 DEF Fits
<1> QED
  BY <1>4, <1>5

-----------------------------------------------------------------------------
(* What the owner has read and counted under its key, and what is still on *)
(* its way to it, is what others have posted under that key.               *)

Count(s, S) == Cardinality({i \in DOMAIN s : s[i] \in S})

Tallied(o) ==
    {f \in Sealed : Says(f) /\ said[f.body.content] # o /\ f.body.seal = cipher[o]}

CountOK(r) ==
    LET o == owner[r]
    IN  Exists(r) => data[o].messageCount + Count(down[conn[o]], Tallied(o))
                         = Count(roomsHistory[r], Tallied(o))

Counted == \A r \in Rooms : CountOK(r)

LEMMA CountIsNumber ==
    ASSUME NEW T, NEW s \in Seq(T), NEW S
    PROVE  /\ IsFiniteSet({i \in DOMAIN s : s[i] \in S})
           /\ Count(s, S) \in Nat
<1>1. Len(s) \in Nat /\ DOMAIN s = 1 .. Len(s)
  BY LenProperties
<1>2. IsFiniteSet(1 .. Len(s))
  BY <1>1, FS_Interval
<1>3. IsFiniteSet({i \in DOMAIN s : s[i] \in S})
  BY <1>1, <1>2, FS_Subset
<1> QED
  BY <1>3, FS_CardinalityType DEF Count

(* Nothing that counts.                                                    *)
LEMMA CountsNothing ==
    ASSUME NEW T, NEW s \in Seq(T), NEW S, \A f \in T : f \notin S
    PROVE  Count(s, S) = 0
<1>1. \A i \in DOMAIN s : s[i] \in T
  BY LenProperties, ElementOfSeq
<1>2. {i \in DOMAIN s : s[i] \in S} = {}
  BY <1>1
<1> QED
  BY <1>2, FS_EmptySet DEF Count

LEMMA CountsAlike ==
    ASSUME NEW T, NEW s \in Seq(T), NEW S, NEW R, \A f \in T : f \in S <=> f \in R
    PROVE  Count(s, S) = Count(s, R)
<1>1. \A i \in DOMAIN s : s[i] \in T
  BY LenProperties, ElementOfSeq
<1>2. {i \in DOMAIN s : s[i] \in S} = {i \in DOMAIN s : s[i] \in R}
  BY <1>1
<1> QED
  BY <1>2 DEF Count

LEMMA CountOfAppend ==
    ASSUME NEW T, NEW s \in Seq(T), NEW f \in T, NEW S
    PROVE  Count(Append(s, f), S) = IF f \in S THEN Count(s, S) + 1 ELSE Count(s, S)
<1>1. PICK n, t : n = Len(s) /\ t = Append(s, f)
  OBVIOUS
<1>2. /\ n \in Nat /\ DOMAIN s = 1 .. n /\ t \in Seq(T) /\ Len(t) = n + 1
      /\ \A i \in 1 .. n : t[i] = s[i]
      /\ t[n + 1] = f
  BY <1>1, LenProperties, AppendProperties
<1>3. DOMAIN t = 1 .. n + 1
  BY <1>2, LenProperties
<1>4. PICK A, B : A = {i \in DOMAIN s : s[i] \in S} /\ B = {i \in DOMAIN t : t[i] \in S}
  OBVIOUS
<1>5. IsFiniteSet(A) /\ Cardinality(A) = Count(s, S) /\ Cardinality(B) = Count(t, S)
  BY <1>4, CountIsNumber DEF Count
<1>6. n + 1 \notin A
  BY <1>2, <1>4
<1>7. CASE f \in S
  <2>1. B = A \cup {n + 1}
    BY <1>2, <1>3, <1>4, <1>7
  <2>2. Cardinality(A \cup {n + 1}) = Cardinality(A) + 1
    BY <1>5, <1>6, FS_AddElement
  <2> QED
    BY <1>1, <1>5, <1>7, <2>1, <2>2
<1>8. CASE f \notin S
  <2>1. B = A
    BY <1>2, <1>3, <1>4, <1>8
  <2> QED
    BY <1>1, <1>5, <1>8, <2>1
<1> QED
  BY <1>7, <1>8

LEMMA CountOfConcat ==
    ASSUME NEW T, NEW s \in Seq(T), NEW U, NEW t \in Seq(U), U \subseteq T, NEW S,
           \A f \in U : f \notin S
    PROVE  Count(s \o t, S) = Count(s, S)
<1>1. PICK m, n, w : m = Len(s) /\ n = Len(t) /\ w = s \o t
  OBVIOUS
<1>2. /\ m \in Nat /\ n \in Nat /\ DOMAIN s = 1 .. m /\ DOMAIN w = 1 .. m + n
      /\ \A i \in 1 .. m : w[i] = s[i]
      /\ \A i \in 1 .. n : w[m + i] = t[i]
  <2>1. t \in Seq(T)
    BY SeqGrows
  <2>2. Joined(w, s, t)
    BY <1>1, <2>1, PartsOfConcat
  <2> QED
    BY <1>1, <2>2 DEF Joined
<1>3. \A i \in 1 .. n : t[i] \in U
  BY <1>1, ElementOfSeq
<1>4. ASSUME NEW i \in 1 .. m + n, w[i] \in S
      PROVE  i \in 1 .. m
  <2>1. SUFFICES ASSUME i > m
                 PROVE  FALSE
    BY <1>2
  <2>2. i - m \in 1 .. n /\ i = m + (i - m)
    BY <1>2, <2>1
  <2>3. w[i] = t[i - m]
    BY <1>2, <2>2
  <2> QED
    BY <1>3, <1>4, <2>2, <2>3
<1>5. {i \in DOMAIN w : w[i] \in S} = {i \in DOMAIN s : s[i] \in S}
  BY <1>2, <1>4
<1> QED
  BY <1>1, <1>5 DEF Count

LEMMA CountOfTail ==
    ASSUME NEW T, NEW s \in Seq(T), s # << >>, NEW S
    PROVE  Count(s, S) = IF Head(s) \in S THEN Count(Tail(s), S) + 1 ELSE Count(Tail(s), S)
<1>1. PICK n, t, f : n = Len(s) - 1 /\ t = Tail(s) /\ f = Head(s)
  OBVIOUS
<1>2. /\ n \in Nat /\ t \in Seq(T) /\ Len(t) = n /\ \A i \in 1 .. n : t[i] = s[i + 1]
      /\ s[1] = f /\ DOMAIN s = 1 .. n + 1 /\ DOMAIN t = 1 .. n
  <2>1. t \in Seq(T) /\ Len(t) = n /\ \A i \in 1 .. n : t[i] = s[i + 1]
    BY <1>1, HeadTailProperties
  <2>2. Len(s) \in Nat /\ Len(s) # 0 /\ DOMAIN s = 1 .. Len(s) /\ DOMAIN t = 1 .. Len(t)
    BY <2>1, EmptySeq, LenProperties
  <2> QED
    BY <1>1, <2>1, <2>2
<1>3. PICK A, B, C : /\ A = {i \in 1 .. n + 1 : s[i] \in S} /\ B = {i \in 1 .. n : t[i] \in S}
                     /\ C = {i \in 2 .. n + 1 : s[i] \in S}
  OBVIOUS
<1>4. /\ IsFiniteSet(A) /\ IsFiniteSet(B) /\ Cardinality(A) = Count(s, S)
      /\ Cardinality(B) = Count(t, S)
  BY <1>2, <1>3, CountIsNumber DEF Count
<1>5. IsFiniteSet(C) /\ Cardinality(C) = Cardinality(B)
  <2> DEFINE shift == [i \in B |-> i + 1]
  <2>1. shift \in [B -> C]
    BY <1>2, <1>3
  <2>2. \A i, j \in B : shift[i] = shift[j] => i = j
    BY <1>2, <1>3
  <2>3. ASSUME NEW j \in C
        PROVE  \E i \in B : shift[i] = j
    <3>1. j - 1 \in B
      BY <1>2, <1>3
    <3>2. shift[j - 1] = j
      BY <1>2, <1>3, <3>1
    <3> QED
      BY <3>1, <3>2
  <2> HIDE DEF shift
  <2>4. shift \in Bijection(B, C)
    BY <2>1, <2>2, <2>3, Fun_IsBij
  <2>5. ExistsBijection(B, C)
    BY <2>4 DEF ExistsBijection
  <2> QED
    BY <1>4, <2>5, FS_Bijection
<1>6. CASE f \in S
  <2>1. A = C \cup {1} /\ 1 \notin C
    BY <1>2, <1>3, <1>6
  <2>2. Cardinality(C \cup {1}) = Cardinality(C) + 1
    BY <1>5, <2>1, FS_AddElement
  <2> QED
    BY <1>1, <1>4, <1>5, <1>6, <2>1, <2>2
<1>7. CASE f \notin S
  <2>1. A = C
    BY <1>2, <1>3, <1>7
  <2> QED
    BY <1>1, <1>4, <1>5, <1>7, <2>1
<1> QED
  BY <1>6, <1>7

(* Nobody unsays what was said.                                            *)
SaidStays == \A t \in Texts : said[t] # NoKey => said'[t] = said[t]

LEMMA TalliedAlike ==
    ASSUME SaidStays, NEW o, cipher'[o] = cipher[o], NEW f \in Known
    PROVE  f \in Tallied(o) <=> f \in Tallied(o)'
<1>1. f \in Sealed /\ (Says(f) => said[f.body.content] # NoKey)
  BY DEF Known
<1>2. Says(f) => f.body.content \in Texts
  BY <1>1 DEF Sealed, Says, Posted, Posts
<1>3. Says(f) => said'[f.body.content] = said[f.body.content]
  BY <1>1, <1>2 DEF SaidStays
<1> QED
  BY <1>3 DEF Tallied

LEMMA StillUntallied ==
    ASSUME NEW f \in Still, NEW o
    PROVE  f \notin Tallied(o) /\ f \notin Tallied(o)'
<1>1. ~Says(f)
  BY DEF Still, Posted, Says
<1> QED
  BY <1>1 DEF Tallied

LEMMA CountFollows ==
    ASSUME NEW r, NEW o, NEW c, owner'[r] = o, o # NoKey => conn'[o] = c,
           o # NoKey => data'[o].messageCount + Count(down'[c], Tallied(o)')
                            = Count(roomsHistory'[r], Tallied(o)')
    PROVE  CountOK(r)'
<1>1. PICK S : S = Tallied(o)'
  OBVIOUS
<1>2. Tallied(owner[r])' = S
  BY <1>1 DEF Tallied
<1>3. o # NoKey => data'[o].messageCount + Count(down'[c], S) = Count(roomsHistory'[r], S)
  BY <1>1
<1> QED
  BY <1>2, <1>3 DEF CountOK, Exists, Count

(* The words an owner finds on its connection, and those kept of its room. *)
LEMMA OwnersBooks ==
    ASSUME Inv, Told, NEW r \in Rooms, Exists(r)
    PROVE  /\ down[conn[owner[r]]] \in Seq(Known) /\ roomsHistory[r] \in Seq(Known)
           /\ data[owner[r]].messageCount \in Nat
<1>1. PICK o, c : o = owner[r] /\ c = conn[o]
  OBVIOUS
<1>2. c \in Conns /\ data[o] \in Datas /\ data[o].messageCount # Null
  BY <1>1, OwnerPlace
<1>3. down[c] \in Seq(Known)
  <2>1. WordOK(c) /\ Heard(c) \subseteq Known
    BY <1>2 DEF Told, Heard
  <2> QED
    BY <2>1, SeqGrows DEF WordOK
<1>4. data[o].messageCount \in Nat
  <2>1. data[o].messageCount \in Null .. KeyRotationLimit - 1
    BY <1>2 DEF Datas
  <2> QED
    BY <1>2, <2>1, ConstantsOK DEF Null
<1> QED
  BY <1>1, <1>3, <1>4 DEF Told, HouseOK

(* The owner's count stays while only what does not count comes.           *)
LEMMA CountGoesOn ==
    ASSUME Inv, Told, SaidStays, NEW r \in Rooms, CountOK(r), owner'[r] = owner[r],
           NEW o, o = owner[r], NEW c, c = conn[o],
           Exists(r) =>
               /\ conn'[o] = c /\ cipher'[o] = cipher[o]
               /\ data'[o].messageCount = data[o].messageCount
               /\ roomsHistory'[r] = roomsHistory[r]
               /\ down'[c] = down[c] \/ \E s \in Seq(Still) : down'[c] = down[c] \o s
    PROVE  CountOK(r)'
<1>1. SUFFICES ASSUME Exists(r)
               PROVE  CountOK(r)'
  BY DEF CountOK, Exists
<1>2. PICK d, h, S, R : d = down[c] /\ h = roomsHistory[r] /\ S = Tallied(o) /\ R = Tallied(o)'
  OBVIOUS
<1>3. d \in Seq(Known) /\ h \in Seq(Known)
  BY <1>1, <1>2, OwnersBooks
<1>4. \A f \in Known : f \in S <=> f \in R
  BY <1>1, <1>2, TalliedAlike
<1>5. Count(d, S) = Count(d, R) /\ Count(h, S) = Count(h, R)
  BY <1>3, <1>4, CountsAlike
<1>6. Count(down'[c], R) = Count(d, R)
  <2>1. ASSUME NEW s \in Seq(Still)
        PROVE  Count(d \o s, R) = Count(d, R)
    <3>1. d \in Seq(Sealed) /\ Still \subseteq Sealed
      BY <1>3, SeqGrows DEF Known, Still
    <3>2. \A f \in Still : f \notin R
      BY <1>2, StillUntallied
    <3> QED
      BY <3>1, <3>2, CountOfConcat
  <2> QED
    BY <1>1, <1>2, <2>1
<1>7. data[o].messageCount + Count(d, S) = Count(h, S)
  BY <1>1, <1>2 DEF CountOK
<1>8. data'[o].messageCount + Count(down'[c], Tallied(o)') = Count(roomsHistory'[r], Tallied(o)')
  BY <1>1, <1>2, <1>5, <1>6, <1>7
<1> QED
  BY <1>1, <1>8, CountFollows

LEMMA OthersCount ==
    ASSUME Inv, Told, Counted, SaidStays, UNCHANGED <<owner, roomsHistory>>, NEW k \in Keys,
           \A l \in Keys : l # k => SameClient(l),
           \A l \in Keys : l # k /\ conn[l] # NoConn => down'[conn[l]] = down[conn[l]],
           \A r \in Rooms : Exists(r) /\ owner[r] = k => CountOK(r)'
    PROVE  Counted'
<1> SUFFICES ASSUME NEW r \in Rooms
             PROVE  CountOK(r)'
  BY DEF Counted
<1>1. PICK o, c : o = owner[r] /\ c = conn[o]
  OBVIOUS
<1>2. CASE Exists(r) /\ o # k
  <2>1. o \in Keys /\ conn[o] # NoConn
    BY <1>1, <1>2, OwnerPlace
  <2>2. conn'[o] = c /\ cipher'[o] = cipher[o] /\ data'[o] = data[o] /\ down'[c] = down[c]
    BY <1>1, <1>2, <2>1 DEF SameClient
  <2> QED
    BY <1>1, <2>2, CountGoesOn DEF Counted
<1>3. CASE ~Exists(r)
  BY <1>3 DEF CountOK, Exists
<1> QED
  BY <1>1, <1>2, <1>3

LEMMA AllCount ==
    ASSUME Inv, Told, Counted, SaidStays,
           UNCHANGED <<conn, cipher, owner, roomsHistory>>,
           \A k \in Keys : Keyed(k) => data'[k].messageCount = data[k].messageCount,
           \A x \in Conns : down'[x] = down[x] \/ \E s \in Seq(Still) : down'[x] = down[x] \o s
    PROVE  Counted'
<1> SUFFICES ASSUME NEW r \in Rooms
             PROVE  CountOK(r)'
  BY DEF Counted
<1>1. PICK o, c : o = owner[r] /\ c = conn[o]
  OBVIOUS
<1>2. ASSUME Exists(r)
      PROVE  c \in Conns /\ o \in Keys /\ Keyed(o)
  BY <1>1, <1>2, OwnerPlace, NullsOK DEF Keyed
<1> QED
  BY <1>1, <1>2, CountGoesOn DEF Counted

(* No frame of keys gone by counts under a key drawn later.                *)
LEMMA UnderUntallied ==
    ASSUME NEW n \in Nat, NEW o, NEW key \in RoomKeys, key.n > n, NEW f \in Under(n)
    PROVE  /\ cipher[o] = key => f \notin Tallied(o)
           /\ cipher'[o] = key => f \notin Tallied(o)'
<1>1. Says(f) => f.body.seal.n <= n /\ f.body.seal.n \in Nat
  BY DEF Under, Says, Posted, Sealed, Posts, RoomKeys
<1>2. key.n \in Nat
  BY DEF RoomKeys
<1>3. Says(f) => f.body.seal # key
  BY <1>1, <1>2
<1> QED
  BY <1>3 DEF Tallied

(* What counts, the owner can read.                                        *)
LEMMA TalliedIsReadable ==
    ASSUME Inv, Told, NEW k \in Keys, NEW f, Takes(k, f), k \in Creators, f \in Tallied(k)
    PROVE  Says(f) /\ Readable(k, f)
<1>1. Says(f) /\ Posted(f) /\ f \in PostsTo(k) /\ f \in Known /\ f.room \in Rooms
      /\ f.body.seal = cipher[k]
  BY HeardFrame, FrameIsKnown DEF Tallied, Says, Posted
<1>2. Opened(f.room) /\ k \in users[f.room]
  BY <1>1 DEF Known, PostsTo
<1>3. owner[f.room] = k
  BY <1>1, <1>2 DEF Told, HouseOK, Joins
<1> QED
  BY <1>1, <1>2, <1>3 DEF Opened, Readable

LEMMA OwnerCounts ==
    ASSUME Inv, Told, Chained, Counted, NEW k \in Keys, NEW f, Takes(k, f), Reads(k, f),
           NEW r \in Rooms, Exists(r), owner[r] = k
    PROVE  CountOK(r)'
<1>1. PICK c, d, h, S, R : /\ c = conn[k] /\ d = down[c] /\ h = roomsHistory[r]
                           /\ S = Tallied(k) /\ R = Tallied(k)'
  OBVIOUS
<1>2. /\ UNCHANGED <<owner, roomsHistory, conn, said>> /\ k \in Creators /\ c \in Conns
      /\ d # << >> /\ down'[c] = Tail(d) /\ f = Head(d)
      /\ cipher[k] \in RoomKeys /\ cipher[k].n \in Nat /\ cipher[k] = RoomKey(k, draws[k])
      /\ data[k].messageCount # Null
  BY <1>1, OwnerPlace DEF Reads, Away, serverVars, Takes, TakeDown, Inv, ServerTypes
<1>3. d \in Seq(Known) /\ h \in Seq(Known) /\ data[k].messageCount \in Nat
  BY <1>1, OwnersBooks
<1>4. /\ f \in Known /\ f \in Sealed /\ ~Rotation(f) /\ (Says(f) => said[f.body.content] # k)
      /\ ~(Answer(f) /\ Opens(k, f))
  <2>1. f \in Known /\ f \in Sealed /\ ~Rotation(f) /\ (Says(f) => said[f.body.content] # k)
    BY <1>2, HeardFrame
  <2>2. Answer(f) => ~Opens(k, f)
    BY <1>2, OpeningAnswer DEF Answer
  <2> QED
    BY <2>1, <2>2
<1>5. f \in S <=> Says(f) /\ Readable(k, f)
  <2>1. Says(f) /\ Readable(k, f) => f \in S
    BY <1>1, <1>4 DEF Readable, Tallied
  <2> QED
    BY <1>1, <1>2, <2>1, TalliedIsReadable
<1>6. /\ Count(d, S) = IF f \in S THEN Count(Tail(d), S) + 1 ELSE Count(Tail(d), S)
      /\ Count(Tail(d), S) \in Nat /\ Count(h, S) \in Nat
  BY <1>2, <1>3, CountOfTail, CountIsNumber, HeadTailProperties
<1>7. data[k].messageCount + Count(d, S) = Count(h, S)
  BY <1>1 DEF Counted, CountOK
<1>8. data'[k].messageCount + Count(Tail(d), R) = Count(h, R)
  <2>1. CASE Rotates(k, f)
    <3>1. PICK n, key : n = cipher[k].n /\ key = cipher'[k]
      OBVIOUS
    <3>2. key \in RoomKeys /\ n \in Nat /\ key.n > n /\ data'[k].messageCount = 0
      BY <1>2, <2>1, <3>1 DEF Rotates, RoomKey, RoomKeys
    <3>3. d \in Seq(Under(n)) /\ h \in Seq(Under(n))
      <4>1. PICK K, u : K = ServerKey(r) /\ u = up[c]
        OBVIOUS
      <4>2. /\ d \in Seq(Under(n)) /\ h \in Seq(Under(K.n)) /\ Follow(K, u) = cipher[k]
        BY <1>1, <3>1, <4>1 DEF Chained, OwnerOK, Leads
      <4>3. K \in RoomKeys /\ K.n \in Nat /\ u \in Seq(Sealed)
        BY <1>1, <4>1, ServerKeyIsKey, OwnerPlace
      <4>4. cipher[k].n >= K.n
        BY <4>2, <4>3, FollowBounds
      <4>5. K.n <= n
        BY <3>1, <3>2, <4>3, <4>4
      <4> QED
        BY <3>2, <4>2, <4>3, <4>5, UnderGrows, SeqGrows
    <3>4. \A g \in Under(n) : g \notin R
      BY <1>1, <3>1, <3>2, UnderUntallied
    <3>5. Tail(d) \in Seq(Under(n))
      BY <1>2, <3>3, HeadTailProperties
    <3>6. Count(Tail(d), R) = 0 /\ Count(h, R) = 0
      BY <3>3, <3>4, <3>5, CountsNothing
    <3> QED
      BY <3>2, <3>6
  <2>2. CASE ~Rotates(k, f)
    <3>1. cipher'[k] = cipher[k]
      BY <1>4, <2>2 DEF Reads, Ignores, Created, Confirms, Counts, Admitted, Follows, KeepsKey
    <3>2. R = S
      BY <1>1, <1>2, <3>1 DEF Tallied
    <3>3. CASE f \in S
      <4>1. Counts(k, f)
        BY <1>5, <2>2, <3>3 DEF Reads, Ignores, Created, Confirms, Admitted, Follows, Says,
                                Posted, Asking, Answer, Rotation
      <4>2. data'[k].messageCount = data[k].messageCount + 1
        BY <1>2, <4>1 DEF Counts
      <4> QED
        BY <1>3, <1>6, <1>7, <3>2, <3>3, <4>2
    <3>4. CASE f \notin S
      <4>1. data'[k].messageCount = data[k].messageCount
        BY <1>4, <1>5, <2>2, <3>4 DEF Reads, Ignores, Created, Confirms, Counts, Admitted, Follows,
                                      KeepsCount
      <4> QED
        BY <1>6, <1>7, <3>2, <3>4, <4>1
    <3> QED
      BY <3>3, <3>4
  <2> QED
    BY <2>1, <2>2
<1>9. data'[k].messageCount + Count(down'[c], Tallied(k)') = Count(roomsHistory'[r], Tallied(k)')
  BY <1>1, <1>2, <1>8
<1>10. owner'[r] = k /\ conn'[k] = c
  BY <1>1, <1>2
<1> QED
  BY <1>9, <1>10, CountFollows

LEMMA ReadsKeepsCounted ==
    ASSUME Inv, Told, Chained, Counted, NEW k \in Keys, NEW f, Takes(k, f), Reads(k, f)
    PROVE  Counted'
<1>1. /\ UNCHANGED <<owner, roomsHistory, conn, said>> /\ ServerTypes /\ TakeDown(k)
      /\ \A l \in Keys : l # k => SameClient(l)
      /\ conn[k] # NoConn
  BY DEF Reads, Away, serverVars, Inv, Takes
<1>2. ASSUME NEW l \in Keys, l # k, conn[l] # NoConn
      PROVE  down'[conn[l]] = down[conn[l]]
  <2>1. conn[l] # conn[k] /\ conn[l] \in Conns
    BY <1>1, <1>2, ConnsApart, WhoIsThere
  <2> QED
    BY <1>1, <2>1 DEF ServerTypes, TakeDown
<1>3. \A r \in Rooms : Exists(r) /\ owner[r] = k => CountOK(r)'
  BY OwnerCounts
<1>4. SaidStays
  BY <1>1 DEF SaidStays
<1> QED
  BY <1>1, <1>2, <1>3, <1>4, OthersCount

LEMMA CrashKeepsCounted ==
    ASSUME Inv, Told, Counted, NEW k \in Keys, NEW f, Takes(k, f), CrashOnFrame(k, f)
    PROVE  Counted'
<1>1. PICK c \in Conns : c = conn[k]
  BY WhoIsThere DEF Takes
<1>2. /\ TypeOK /\ ServerTypes /\ ClientOK(k) /\ ~Keyed(k) /\ data[k] # NoData /\ c # NoConn
  BY <1>1, FrameIsKnown DEF Takes, CrashOnFrame, Keyed, Inv
<1>3. k \notin Creators
  BY <1>2 DEF ClientOK
<1>4. /\ down' = [down EXCEPT ![c] = << >>]
      /\ stage' = [stage EXCEPT ![k] = "crashed"]
      /\ conn' = [conn EXCEPT ![k] = NoConn] /\ data' = [data EXCEPT ![k] = NoData]
      /\ cipher' = [cipher EXCEPT ![k] = NoCipher]
      /\ UNCHANGED <<draws, saved, owner, roomsHistory, said>>
  BY <1>1 DEF CrashOnFrame, Forget, Disconnect, serverVars, usageVars
<1>5. \A l \in Keys : l # k => SameClient(l)
  BY <1>2, <1>4 DEF SameClient, TypeOK
<1>6. ASSUME NEW l \in Keys, l # k, conn[l] # NoConn
      PROVE  down'[conn[l]] = down[conn[l]]
  <2>1. conn[l] # c /\ conn[l] \in Conns
    BY <1>1, <1>2, <1>6, ConnsApart, WhoIsThere
  <2> QED
    BY <1>2, <1>4, <2>1 DEF ServerTypes
<1>7. \A r \in Rooms : owner[r] # k
  BY <1>2, <1>3, NullsOK DEF ServerTypes
<1>8. SaidStays
  BY <1>4 DEF SaidStays
<1> QED
  BY <1>4, <1>5, <1>6, <1>7, <1>8, OthersCount

LEMMA ConstructKeepsCounted ==
    ASSUME Inv, Told, Counted, NEW k \in Keys, NEW c \in Conns, NEW d, NEW ciph, NEW first,
           Construct(k, c, d, ciph, first), FreshPair(k)
    PROVE  Counted'
<1>1. /\ TypeOK /\ ServerTypes /\ ClientOK(k) /\ draws[k] = 0
      /\ draws' = [draws EXCEPT ![k] = 1] /\ stage' = [stage EXCEPT ![k] = "waiting"]
      /\ down' = down
      /\ conn' = [conn EXCEPT ![k] = c] /\ data' = [data EXCEPT ![k] = d]
      /\ cipher' = [cipher EXCEPT ![k] = ciph]
      /\ UNCHANGED <<saved, owner, roomsHistory, said>>
  BY DEF Construct, OpenLink, FreshPair, serverVars, Inv
<1>2. \A r \in Rooms : Exists(r) => owner[r] # k
  BY <1>1, OwnerPlace DEF ClientOK
<1>3. \A l \in Keys : l # k => SameClient(l)
  BY <1>1 DEF SameClient, TypeOK, ServerTypes
<1>4. SaidStays
  BY <1>1 DEF SaidStays
<1> QED
  BY <1>1, <1>2, <1>3, <1>4, OthersCount

LEMMA UserStepKeepsCounted ==
    ASSUME Leavers = {}, Inv, Once, Told, Counted, NEW k \in Keys, UserStep(k)
    PROVE  Counted'
<1>1. CASE \E c \in Conns : NewRoomOf(k, c)
  BY <1>1, ConstructKeepsCounted DEF NewRoomOf
<1>2. CASE \E c \in Conns, i \in Invites : OpenByInvite(k, c, i)
  BY <1>2, ConstructKeepsCounted DEF OpenByInvite
<1>3. CASE \E i \in Invites : GenerateInvite(k, i)
  <2>1. PICK i \in Invites : GenerateInvite(k, i)
    BY <1>3
  <2>2. /\ data' = [data EXCEPT ![k].invites = @ \cup {i}] /\ TypeOK
        /\ UNCHANGED <<down, owner, roomsHistory, conn, cipher, said>>
        /\ stage[k] = "open" /\ ClientOK(k)
    BY <2>1 DEF GenerateInvite, wireVars, serverVars, Inv
  <2>3. data[k] \in Datas
    BY <2>2 DEF ClientOK, TypeOK
  <2>4. \A l \in Keys : data'[l].messageCount = data[l].messageCount
    BY <2>2, <2>3 DEF TypeOK, Datas
  <2> QED
    BY <2>2, <2>4, AllCount DEF SaidStays
<1>4. CASE \E t \in Texts : SendMessage(k, t)
  <2>1. PICK t \in Texts : SendMessage(k, t)
    BY <1>4
  <2>2. /\ UNCHANGED <<down, owner, roomsHistory, conn, data, cipher>> /\ TypeOK
        /\ said[t] = NoKey /\ said' = [said EXCEPT ![t] = k]
    BY <2>1 DEF SendMessage, serverVars, roomVars, Inv
  <2>3. SaidStays
    BY <2>2 DEF SaidStays, TypeOK
  <2> QED
    BY <2>2, <2>3, AllCount
<1>5. ~Leave(k)
  BY DEF Leave
<1>6. \A c \in Conns : ~OpenExisting(k, c)
  BY NothingReopens
<1> QED
  BY <1>1, <1>2, <1>3, <1>4, <1>5, <1>6 DEF UserStep

LEMMA RestartKeepsCounted ==
    ASSUME RestartServer
    PROVE  Counted'
<1>1. owner' = [r \in Rooms |-> NoKey]
  BY DEF RestartServer, Restart
<1> QED
  BY <1>1 DEF Counted, CountOK, Exists

LEMMA InitHasCounted == Init => Counted
  BY DEF Init, ServerInit, Counted, CountOK, Exists

LEMMA PassesKeepsCounted ==
    ASSUME Inv, Told, Counted, UNCHANGED <<conn, data, cipher, said>>, NEW c \in Conns, NEW f,
           Passes(c, f)
    PROVE  Counted'
<1>1. PICK fs : SendDown(fs) /\ \A x \in Conns : fs[x] \in Seq(Plain)
  BY DEF Passes
<1>2. UNCHANGED <<owner, roomsHistory>> /\ SaidStays
  BY DEF Passes, SaidStays
<1>3. ASSUME NEW x \in Conns
      PROVE  down'[x] = down[x] \/ \E s \in Seq(Still) : down'[x] = down[x] \o s
  <2>1. fs[x] \in Seq(Still)
    BY <1>1, SeqGrows DEF Plain, Still, Known
  <2> QED
    BY <1>1, <2>1, SentDown
<1> QED
  BY <1>2, <1>3, AllCount

LEMMA FoundsKeepsCounted ==
    ASSUME Inv, Told, Counted, UNCHANGED <<conn, data, cipher, said>>, NEW c \in Conns, NEW f,
           NEW r \in Rooms, NEW m \in Keys, Founds(c, f, r, m)
    PROVE  Counted'
<1>1. /\ f.cmd = "ROOM.CREATE" /\ ~Exists(r)
      /\ conn[m] = c /\ SaidBy(m, f) /\ data[m] # NoData /\ data[m].name = NoRoom
      /\ owner' = [owner EXCEPT ![r] = m]
      /\ SendTo(c, <<RoomCreated(r)>>) /\ roomsHistory' = roomsHistory
      /\ ServerTypes /\ c # NoConn
  BY NullsOK DEF Founds, Inv
<1>2. /\ owner'[r] = m /\ m \in Creators /\ \A q \in Rooms : owner[q] # m
      /\ \A q \in Rooms : q # r => owner'[q] = owner[q]
  BY <1>1 DEF ServerTypes, SaidBy
<1>3. ASSUME NEW x \in Conns
      PROVE  down'[x] = down[x] \/ \E s \in Seq(Still) : down'[x] = down[x] \o s
  <2>1. RoomCreated(r) \in Still
    <3>1. RoomCreated(r) \in Plain
      BY FrameTypes, PlainReply DEF RoomCreated, Frame, ReplyCommands
    <3> QED
      BY <3>1 DEF Plain, Still, Known
  <2>2. <<RoomCreated(r)>> \in Seq(Still) /\ << >> \in Seq(Still)
    BY <2>1, EmptySeq
  <2>3. down'[x] = IF link[x] = "open" THEN down[x] \o (IF x = c THEN <<RoomCreated(r)>> ELSE << >>)
                   ELSE down[x]
    BY <1>1, SentTo
  <2> QED
    BY <2>2, <2>3
<1>4. ASSUME NEW q \in Rooms, q # r
      PROVE  CountOK(q)'
  <2>1. PICK o, b : o = owner[q] /\ b = conn[o]
    OBVIOUS
  <2>2. Exists(q) => b \in Conns
    BY <2>1, OwnerPlace
  <2>3. SaidStays /\ owner'[q] = owner[q]
    BY <1>2, <1>4 DEF SaidStays
  <2> QED
    BY <1>1, <1>3, <2>1, <2>2, <2>3, CountGoesOn DEF Counted
<1>5. CountOK(r)'
  <2>1. data[m].messageCount = 0
    BY <1>1, <1>2 DEF Told, PlaceOK, CreatorOK
  <2>2. roomsHistory[r] = << >>
    BY <1>1, LogIsKnown
  <2>3. down'[c] \in Seq(Still)
    <3>1. ASSUME NEW q \in Rooms, Exists(q), m \in users[q]
          PROVE  FALSE
      BY <1>2, <3>1 DEF Told, HouseOK, Joins
    <3>2. down[c] \in Seq(Still)
      BY <1>1, <3>1, OutsideDown
    <3> QED
      BY <1>3, <3>2, ConcatProperties
  <2>4. PICK R : R = Tallied(m)'
    OBVIOUS
  <2>5. Count(down'[c], R) = 0 /\ Count(<< >>, R) = 0
    <3>1. \A g \in Still : g \notin R
      BY <2>4, StillUntallied
    <3>2. << >> \in Seq(Still)
      BY EmptySeq
    <3> QED
      BY <2>3, <3>1, <3>2, CountsNothing
  <2>6. data'[m].messageCount + Count(down'[c], Tallied(m)') = Count(roomsHistory'[r], Tallied(m)')
    BY <1>1, <2>1, <2>2, <2>4, <2>5
  <2> QED
    BY <1>1, <1>2, <2>6, CountFollows
<1> QED
  BY <1>4, <1>5 DEF Counted

LEMMA AdmitsKeepsCounted ==
    ASSUME Inv, Told, Counted, UNCHANGED <<conn, data, cipher, said>>, NEW c \in Conns,
           NEW f \in SaidOn(c), NEW m \in Keys, Admits(c, f, m)
    PROVE  Counted'
<1>1. /\ f.key \in Keys /\ f.key \notin Creators
  BY DEF SaidOn, Known, Admits, Joins
<1>2. PICK j, d, s : j = f.key /\ d = online[j] /\ s = <<f>> \o roomsHistory[f.room]
  OBVIOUS
<1>3. /\ d # NoConn /\ SendTo(d, s) /\ UNCHANGED <<owner, roomsHistory>>
      /\ down \in [Conns -> Seq(Frames)] /\ SaidStays
  BY <1>2 DEF Admits, Inv, ServerTypes, SaidStays
<1>4. ASSUME NEW x \in Conns, x # d
      PROVE  down'[x] = down[x]
  <2>1. down'[x] = IF link[x] = "open" THEN down[x] \o (IF x = d THEN s ELSE << >>) ELSE down[x]
    BY <1>3, SentTo
  <2>2. down[x] \o << >> = down[x]
    BY <1>3, ConcatEmptySeq
  <2> QED
    BY <1>4, <2>1, <2>2
<1>5. \A l \in Creators : conn[l] # d
  BY <1>1, <1>2, <1>3, Listener, ConstantsOK
<1>6. ASSUME NEW r \in Rooms
      PROVE  CountOK(r)'
  <2>1. PICK o, b : o = owner[r] /\ b = conn[o]
    OBVIOUS
  <2>2. Exists(r) => b \in Conns /\ b # d
    BY <1>5, <2>1, OwnerPlace
  <2> QED
    BY <1>3, <1>4, <2>1, <2>2, CountGoesOn DEF Counted
<1> QED
  BY <1>6 DEF Counted

(* A message is sent to the owner, and counts, unless it is its own; a     *)
(* rotation is the owner's own and counts nothing, nor does what it        *)
(* replaces under the key it brings, or a later one.                       *)
LEMMA RelaysCounted ==
    ASSUME Inv, Once, Told, Chained, Counted, UNCHANGED <<conn, data, cipher, said>>,
           NEW c \in Conns, NEW f \in SaidOn(c), NEW m \in Keys, Relays(c, f, m),
           NEW r \in Rooms
    PROVE  CountOK(r)'
<1>1. PICK q, K, o, b : q = f.room /\ K = ServerKey(q) /\ o = owner[r] /\ b = conn[o]
  OBVIOUS
<1>2. /\ q \in Rooms /\ Posted(f) /\ conn[m] = c /\ f \in Sealed /\ f \in Known
      /\ K \in RoomKeys /\ K.n \in Nat
      /\ Rotation(f) => /\ m = owner[q] /\ f.body.seal = K
                        /\ f.body.content \in RoomKeys /\ f.body.content.n = K.n + 1
  BY <1>1, RelaysFitting
<1>3. /\ FanOut(q, m, f) /\ UNCHANGED <<owner, users>> /\ SaidBy(m, f)
      /\ up[c] # << >> /\ f = Head(up[c]) /\ roomsHistory \in [Rooms -> Seq(Posts)]
      /\ roomsHistory' = [roomsHistory EXCEPT ![q] = IF Rotation(f) THEN <<f>> ELSE Append(@, f)]
      /\ SaidStays
  BY <1>1 DEF Relays, TakesUp, Inv, ServerOK, SaidStays
<1>4. SUFFICES ASSUME Exists(r)
               PROVE  CountOK(r)'
  BY <1>3 DEF CountOK, Exists
<1>5. /\ CountOK(r) /\ OwnerOK(r) /\ o \in Creators /\ o \in Keys /\ b \in Conns /\ b # NoConn
      /\ cipher[o] \in RoomKeys /\ cipher[o].n \in Nat /\ o \in users[r] /\ link[b] = "open"
      /\ \A p \in Rooms : owner[p] = o => p = r
      /\ up[b] \in Seq(Sealed)
  BY <1>1, <1>4, OwnerPlace DEF Chained, Counted
<1>6. online[o] = b
  BY <1>1, <1>5 DEF Once, OnceOK
<1>7. down'[b] = down[b] \/ (q = r /\ o # m)
  <2>1. ASSUME NEW u \in users[q], u # m, online[u] = b
        PROVE  q = r /\ o # m
    <3>1. o = u /\ o = owner[q]
      BY <1>1, <1>2, <1>5, <2>1, ReceiverIsMember
    <3> QED
      BY <1>2, <1>5, <2>1, <3>1
  <2>2. CASE \E u \in users[q] : u # m /\ online[u] = b
    BY <2>1, <2>2
  <2>3. CASE ~\E u \in users[q] : u # m /\ online[u] = b
    <3>1. FanOut(q, m, f) /\ b \in Conns
      BY <1>3, <1>5
    <3>2. \/ down'[b] = down[b]
          \/ (\E u \in users[q] : u # m /\ online[u] = b) /\ down'[b] = down[b] \o <<f>>
      BY <3>1, RelayedTo
    <3> QED
      BY <2>3, <3>2
  <2> QED
    BY <2>2, <2>3
<1>8. PICK d, h, S, R : d = down[b] /\ h = roomsHistory[r] /\ S = Tallied(o) /\ R = Tallied(o)'
  OBVIOUS
<1>9. /\ d \in Seq(Known) /\ h \in Seq(Known) /\ R = S
      /\ data[o].messageCount + Count(d, S) = Count(h, S)
      /\ Count(d, S) \in Nat /\ Count(h, S) \in Nat /\ data[o].messageCount \in Nat
  <2>1. d \in Seq(Known) /\ h \in Seq(Known) /\ data[o].messageCount \in Nat
    BY <1>1, <1>4, <1>8, OwnersBooks
  <2>2. R = S
    BY <1>8 DEF Tallied
  <2>3. data[o].messageCount + Count(d, S) = Count(h, S)
    BY <1>1, <1>4, <1>5, <1>8 DEF CountOK
  <2> QED
    BY <2>1, <2>2, <2>3, CountIsNumber
<1>10. data[o].messageCount + Count(down'[b], S) = Count(roomsHistory'[r], S)
  <2>1. CASE q # r
    BY <1>3, <1>7, <1>8, <1>9, <2>1
  <2>2. CASE q = r /\ Rotation(f)
    <3>1. m = o /\ b = c /\ down'[b] = d /\ roomsHistory'[r] = <<f>>
      BY <1>1, <1>2, <1>3, <1>7, <1>8, <2>2
    <3>2. cipher[o].n > K.n
      <4>1. PICK u, l, new : u = up[c] /\ l = cipher[o] /\ new = f.body.content
        OBVIOUS
      <4>2. u \in Seq(Sealed) /\ u # << >> /\ Leads(K, u, l, TRUE) /\ f = Head(u)
        BY <1>1, <1>3, <1>4, <1>5, <2>2, <3>1, <4>1 DEF OwnerOK
      <4>3. Leads(Switch(K, f), Tail(u), l, TRUE)
        BY <4>2, LeadsOn
      <4>4. Switch(K, f) = new
        BY <1>2, <2>2, <4>1 DEF Switch, Rotation
      <4>5. Follow(new, Tail(u)) = l /\ Tail(u) \in Seq(Sealed) /\ new \in RoomKeys
        BY <1>2, <2>2, <4>1, <4>2, <4>3, <4>4, HeadTailProperties DEF Leads
      <4>6. l.n >= new.n
        BY <4>5, FollowBounds
      <4> QED
        BY <1>2, <1>5, <2>2, <4>1, <4>6
    <3>3. h \in Seq(Under(K.n))
      BY <1>1, <1>4, <1>5, <1>8, <2>2 DEF OwnerOK
    <3>4. Count(h, S) = 0
      <4>1. \A g \in Under(K.n) : g \notin S
        BY <1>2, <1>5, <1>8, <3>2, UnderUntallied
      <4> QED
        BY <3>3, <4>1, CountsNothing
    <3>5. Count(<<f>>, S) = 0
      <4>1. f \notin S
        BY <1>8, <2>2 DEF Tallied, Says, Rotation
      <4>2. PICK one : one = <<f>>
        OBVIOUS
      <4>3. one \in Seq({f}) /\ \A g \in {f} : g \notin S
        BY <4>1, <4>2
      <4>4. Count(one, S) = 0
        BY <4>3, CountsNothing
      <4> QED
        BY <4>2, <4>4
    <3> QED
      BY <1>9, <3>1, <3>4, <3>5
  <2>3. CASE q = r /\ ~Rotation(f)
    <3>1. /\ roomsHistory'[r] = Append(h, f)
          /\ Count(Append(h, f), S) = IF f \in S THEN Count(h, S) + 1 ELSE Count(h, S)
      BY <1>2, <1>3, <1>8, <1>9, <2>3, CountOfAppend
    <3>2. CASE o = m
      <4>1. f \notin S
        BY <1>3, <1>8, <3>2 DEF SaidBy, Tallied
      <4> QED
        BY <1>7, <1>8, <1>9, <3>1, <3>2, <4>1
    <3>3. CASE o # m
      <4>1. down'[b] = Append(d, f)
        <5>1. down'[b] = d \o <<f>>
          BY <1>3, <1>5, <1>6, <1>8, <2>3, <3>3, RelayReaches
        <5>2. Append(d, f) = d \o <<f>>
          BY <1>2, <1>9, AppendIsConcat, Zenon
        <5> QED
          BY <5>1, <5>2
      <4>2. Count(Append(d, f), S) = IF f \in S THEN Count(d, S) + 1 ELSE Count(d, S)
        BY <1>2, <1>9, CountOfAppend
      <4> QED
        BY <1>9, <3>1, <4>1, <4>2
    <3> QED
      BY <3>2, <3>3
  <2> QED
    BY <2>1, <2>2, <2>3
<1>11. data'[o].messageCount + Count(down'[b], Tallied(o)') = Count(roomsHistory'[r], Tallied(o)')
  BY <1>8, <1>9, <1>10
<1> QED
  BY <1>1, <1>3, <1>11, CountFollows

LEMMA NextKeepsCounted ==
    ASSUME Leavers = {}, Inv, Once, Told, Chained, Counted, [Next]_vars
    PROVE  Counted'
<1>1. ASSUME NEW k \in Keys, OnReceive(k)
      PROVE  Counted'
  BY <1>1, ReadsFrame, ReadsKeepsCounted, CrashKeepsCounted
<1>2. ASSUME NEW c \in Conns, Serve(c)
      PROVE  Counted'
  <2>1. UNCHANGED <<conn, data, cipher, said>>
    BY <1>2, ServeSteady
  <2>2. CASE Closes
    BY <2>1, <2>2, AllCount DEF Closes, SaidStays
  <2>3. CASE \E f \in SaidOn(c), m \in Keys : Relays(c, f, m)
    BY <2>1, <2>3, RelaysCounted DEF Counted
  <2> QED
    BY <1>2, <2>1, <2>2, <2>3, ServeCases, PassesKeepsCounted, FoundsKeepsCounted,
       AdmitsKeepsCounted
<1>3. CASE UNCHANGED vars
  <2>1. UNCHANGED <<conn, data, cipher, owner, roomsHistory, down, said>>
    BY <1>3 DEF vars, wireVars, serverVars, roomVars, usageVars
  <2> QED
    BY <2>1, AllCount DEF SaidStays
<1> QED
  BY <1>1, <1>2, <1>3, UserStepKeepsCounted, RestartKeepsCounted DEF Next

LEMMA CountedIsOthers ==
    ASSUME Inv, Told, Counted, restarts = 0
    PROVE  CountsOthers
<1>1. SUFFICES ASSUME Quiet, NEW o \in Creators, Keyed(o), NEW r, r = data[o].name, r # NoRoom
               PROVE  data[o].messageCount =
                        Cardinality({i \in DOMAIN roomsHistory[r] :
                                       /\ roomsHistory[r][i].cmd = "ROOM.MESSAGE"
                                       /\ said[roomsHistory[r][i].body.content] # o
                                       /\ roomsHistory[r][i].body.seal = cipher[o]})
  BY DEF CountsOthers
<1>2. PICK h, S : h = roomsHistory[r] /\ S = Tallied(o)
  OBVIOUS
<1>3. r \in Rooms /\ Exists(r) /\ owner[r] = o
  <2>1. o \in Keys /\ TypeOK /\ ClientOK(o) /\ ServerOK
    BY ConstantsOK DEF Inv
  <2>2. data[o] # NoData /\ data[o] \in Datas /\ RoomOK(o, data[o]) /\ OriginOK(o, data[o])
    BY <1>1, <2>1 DEF ClientOK, TypeOK
  <2>3. r \in Rooms /\ r \in taken /\ data[o].owner = o
    BY <1>1, <2>2 DEF RoomOK, OriginOK, Datas
  <2>4. Exists(r)
    BY <2>1, <2>3 DEF ServerOK
  <2> QED
    BY <1>1, <2>2, <2>3, <2>4 DEF RoomOK
<1>4. h \in Seq(Known) /\ data[o].messageCount \in Nat
  BY <1>2, <1>3, OwnersBooks
<1>5. Count(down[conn[o]], S) = 0
  <2>1. down[conn[o]] = << >>
    BY <1>1, <1>3, OwnerPlace DEF Quiet
  <2>2. PICK s, T : s = << >> /\ T = {}
    OBVIOUS
  <2>3. s \in Seq(T) /\ \A f \in T : f \notin S
    BY <2>2, EmptySeq
  <2>4. Count(s, S) = 0
    BY <2>3, CountsNothing
  <2> QED
    BY <2>1, <2>2, <2>4
<1>6. data[o].messageCount = Count(h, S)
  <2>1. data[o].messageCount + Count(down[conn[o]], S) = Count(h, S)
    BY <1>2, <1>3 DEF Counted, CountOK
  <2> QED
    BY <1>4, <1>5, <2>1
<1>7. ASSUME NEW i \in DOMAIN h
      PROVE  h[i] \in S <=> /\ h[i].cmd = "ROOM.MESSAGE"
                            /\ said[h[i].body.content] # o
                            /\ h[i].body.seal = cipher[o]
  <2>1. h[i] \in Sealed
    BY <1>4, LenProperties, ElementOfSeq DEF Known
  <2> QED
    BY <1>2, <2>1 DEF Tallied, Says
<1>8. {i \in DOMAIN h : h[i] \in S} =
        {i \in DOMAIN h : /\ h[i].cmd = "ROOM.MESSAGE"
                          /\ said[h[i].body.content] # o
                          /\ h[i].body.seal = cipher[o]}
  BY <1>7
<1> QED
  BY <1>2, <1>6, <1>8 DEF Count

-----------------------------------------------------------------------------
(* While nobody leaves, however often the server is restarted: what is     *)
(* kept of who opened which room, of what is said, of which key leads to   *)
(* which and of what is counted.                                           *)
Orderly == Inv /\ Once /\ Told /\ Chained /\ Counted

LEMMA OrderStays ==
    ASSUME Leavers = {}
    PROVE  Spec => []Orderly
<1>1. Init => Orderly
  BY InitHasInv, InitHasOnce, InitHasTold, InitHasChained, InitHasCounted DEF Orderly
<1>2. Orderly /\ [Next]_vars => Orderly'
  BY NextKeepsInv, NextKeepsOnce, NextKeepsTold, NextKeepsChained, NextKeepsCounted DEF Orderly
<1> QED
  BY <1>1, <1>2, PTL DEF Spec

(* While nobody leaves, no member misses or misreads a rotation: the key   *)
(* it holds leads, through the rotations on their way to it and then       *)
(* through those on their way to the server, to its owner's key            *)
(* (secure_chat_room.hpp:203-217 against 226-241 and server.py:121-127).   *)
THEOREM KeysFollow ==
    ASSUME Leavers = {}
    PROVE  Spec => []KeyChain
<1>1. Orderly => KeyChain
  BY ChainedLeads DEF Orderly
<1> QED
  BY <1>1, OrderStays, PTL

(* While nobody leaves, no message overtakes the rotation to the key it is *)
(* sealed with (server.py:101-132, one relay order for both).              *)
THEOREM KeysComeFirst ==
    ASSUME Leavers = {}
    PROVE  Spec => []KeyBeforeUse
<1>1. Orderly => KeyBeforeUse
  BY ChainedFits DEF Orderly
<1> QED
  BY <1>1, OrderStays, PTL

(* While nobody leaves and the server is not restarted, the owner's count  *)
(* is, once nothing is under way, the number of messages that others       *)
(* posted under the current key (secure_chat_room.hpp:201-203;             *)
(* server.py:109-110 never sends the owner its own live).                  *)
THEOREM OwnersCount ==
    ASSUME Leavers = {}
    PROVE  Spec => [](restarts = 0 => CountsOthers)
<1>1. Orderly /\ restarts = 0 => CountsOthers
  BY CountedIsOthers DEF Orderly
<1> QED
  BY <1>1, OrderStays, PTL

=============================================================================
