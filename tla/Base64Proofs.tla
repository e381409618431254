---------------------------- MODULE Base64Proofs ----------------------------
(***************************************************************************)
(* Theorems about Base64, for bytes and texts of every length: the loops   *)
(* over the groups are FlattenSeq, and what they make is argued by         *)
(* induction on the number of groups.                                      *)
(***************************************************************************)
EXTENDS Base64, Induction

(* What a group of three bytes, or the last one or two with their fill,    *)
(* is encoded to is decoded to the same bytes, whatever npos fills in      *)
(* (base64.hpp:46-49, 62-68 against 94-96, 105-115).                       *)
THEOREM GroupRoundTrip ==
    ASSUME NEW a \in Bytes, NEW b \in Bytes, NEW c \in Bytes
    PROVE  LET e == EncodeGroup(a, b, c)
           IN  /\ DecodeGroup(e[1], e[2], e[3], e[4]) = <<a, b, c>>
               /\ c = 0 => /\ DecodeGroup(e[1], e[2], e[3], Npos)[1] = a
                           /\ DecodeGroup(e[1], e[2], e[3], Npos)[2] = b
               /\ b = 0 => DecodeGroup(e[1], e[2], Npos, Npos)[1] = a
  BY DEF EncodeGroup, DecodeGroup, Bytes, Npos

(* An encoded group is four digits, never '=' or a foreign character.      *)
THEOREM GroupDigits ==
    ASSUME NEW a \in Bytes, NEW b \in Bytes, NEW c \in Bytes, NEW j \in 1 .. 4
    PROVE  EncodeGroup(a, b, c)[j] \in Digits
<1>1. /\ a \div 4 \in Digits
      /\ (a % 4) * 16 + b \div 16 \in Digits
      /\ (b % 16) * 4 + c \div 64 \in Digits
      /\ c % 64 \in Digits
  BY DEF Bytes, Digits
<1>2. j = 1 \/ j = 2 \/ j = 3 \/ j = 4
  OBVIOUS
<1> QED
  BY <1>1, <1>2 DEF EncodeGroup

-----------------------------------------------------------------------------
(* FlattenSeq of sequences that are all m long, three or four: what stands  *)
(* where.                                                                   *)
At(q, m, j) == q[(j - 1) \div m + 1][((j - 1) % m) + 1]
Part(q, m, i) == [j \in 1 .. m * i |-> At(q, m, j)]

(* What the function inside FlattenSeq satisfies.                           *)
Flattens(f, q) ==
    f = [i \in 1 .. Len(q) |-> IF i = 1 THEN q[i] ELSE f[i - 1] \o q[i]]

Rows(q, S, m, n) == \A g \in 1 .. n : q[g] \in Seq(S) /\ Len(q[g]) = m

Grows(q, m, i) ==
    Part(q, m, i) = IF i = 1 THEN q[i] ELSE Part(q, m, i - 1) \o q[i]

(* The first i sequences are the first i - 1 and the next one, ...          *)
LEMMA PartGrows ==
    ASSUME NEW S, NEW m \in {3, 4}, NEW n \in Nat, NEW q,
           Rows(q, S, m, n),
           NEW i \in 1 .. n
    PROVE  Grows(q, m, i)
<1>1. \A g \in 1 .. n : /\ q[g] \in Seq(S) /\ Len(q[g]) = m
                        /\ q[g] = [k \in 1 .. m |-> q[g][k]]
                        /\ \A k \in 1 .. m : q[g][k] \in S
  BY LenProperties, ElementOfSeq DEF Rows
<1>2. ASSUME NEW j \in Nat, j \in 1 .. m * n
      PROVE  /\ (j - 1) \div m + 1 \in 1 .. n /\ ((j - 1) % m) + 1 \in 1 .. m
             /\ At(q, m, j) \in S
  <2>1. (j - 1) \div m + 1 \in 1 .. n /\ ((j - 1) % m) + 1 \in 1 .. m
    <3>1. CASE m = 3
      BY <1>2, <3>1
    <3>2. CASE m = 4
      BY <1>2, <3>2
    <3> QED
      BY <3>1, <3>2
  <2> QED
    BY <1>1, <2>1 DEF At
<1>3. ASSUME NEW p \in 0 .. n
      PROVE  /\ Part(q, m, p) \in Seq(S)
             /\ Len(Part(q, m, p)) = m * p
             /\ \A j \in 1 .. m * p : Part(q, m, p)[j] = At(q, m, j)
  <2>1. m * p \in Nat /\ m * p <= m * n
    <3>1. CASE m = 3
      BY <3>1
    <3>2. CASE m = 4
      BY <3>2
    <3> QED
      BY <3>1, <3>2
  <2>2. \A j \in 1 .. m * p : At(q, m, j) \in S
    BY <1>2, <2>1
  <2> QED
    BY <2>1, <2>2 DEF Part
<1>4. Part(q, m, 1) = q[1]
  <2>1. \A j \in 1 .. m : At(q, m, j) = q[1][j]
    <3>1. CASE m = 3
      BY <3>1 DEF At
    <3>2. CASE m = 4
      BY <3>2 DEF At
    <3> QED
      BY <3>1, <3>2
  <2>2. m * 1 = m /\ 1 \in 0 .. n /\ 1 \in 1 .. n
    OBVIOUS
  <2>3. Len(Part(q, m, 1)) = Len(q[1]) /\ \A j \in 1 .. Len(q[1]) : Part(q, m, 1)[j] = q[1][j]
    BY <1>1, <1>3, <2>1, <2>2
  <2> QED
    BY <1>1, <1>3, <2>2, <2>3, SeqEqual
<1>5. ASSUME i # 1
      PROVE  Part(q, m, i) = Part(q, m, i - 1) \o q[i]
  <2> DEFINE s == Part(q, m, i)
             t == Part(q, m, i - 1)
             u == q[i]
  <2>1. i \in 0 .. n /\ i - 1 \in 0 .. n
    BY <1>5
  <2>2. /\ s \in Seq(S) /\ Len(s) = m * i /\ \A j \in 1 .. m * i : s[j] = At(q, m, j)
        /\ t \in Seq(S) /\ Len(t) = m * (i - 1) /\ \A j \in 1 .. m * (i - 1) : t[j] = At(q, m, j)
        /\ u \in Seq(S) /\ Len(u) = m
    BY <1>1, <1>3, <2>1
  <2>3. m * i = m * (i - 1) + m /\ m * (i - 1) \in Nat
    <3>1. CASE m = 3
      BY <3>1
    <3>2. CASE m = 4
      BY <3>2
    <3> QED
      BY <3>1, <3>2
  <2>4. ASSUME NEW k \in 1 .. m
        PROVE  At(q, m, m * (i - 1) + k) = u[k]
    <3>1. (m * (i - 1) + k - 1) \div m + 1 = i /\ ((m * (i - 1) + k - 1) % m) + 1 = k
      <4>1. CASE m = 3
        BY <4>1
      <4>2. CASE m = 4
        BY <4>2
      <4> QED
        BY <4>1, <4>2
    <3> QED
      BY <3>1 DEF At
  <2> HIDE DEF s, t, u
  <2>5. t \o u \in Seq(S) /\ Len(t \o u) = m * (i - 1) + m
        /\ \A j \in 1 .. m * (i - 1) + m : (t \o u)[j] = IF j <= m * (i - 1) THEN t[j] ELSE u[j - m * (i - 1)]
    <3>1. t \in Seq(S) /\ u \in Seq(S)
      BY <2>2
    <3>2. t \o u \in Seq(S) /\ Len(t \o u) = Len(t) + Len(u)
      BY <3>1, ConcatProperties
    <3>3. \A j \in 1 .. Len(t) + Len(u) : (t \o u)[j] = IF j <= Len(t) THEN t[j] ELSE u[j - Len(t)]
      BY <3>1, ConcatProperties
    <3> QED
      BY <2>2, <3>2, <3>3
  <2> DEFINE b == m * (i - 1)
  <2>6. b \in Nat /\ m \in Nat
    BY <2>3
  <2>7. ASSUME NEW j \in 1 .. b + m
        PROVE  s[j] = (t \o u)[j]
    <3>1. CASE j \in 1 .. b
      <4>1. j \in 1 .. m * i /\ j <= b
        BY <2>3, <2>6, <3>1
      <4> QED
        BY <2>2, <2>5, <3>1, <4>1
    <3>2. CASE j - b \in 1 .. m
      <4>1. j \in 1 .. m * i /\ ~(j <= b) /\ b + (j - b) = j
        BY <2>3, <2>6, <3>2
      <4>2. At(q, m, j) = u[j - b]
        BY <2>4, <3>2, <4>1
      <4> QED
        BY <2>2, <2>5, <4>1, <4>2
    <3>3. j \in 1 .. b \/ j - b \in 1 .. m
      <4> HIDE DEF b
      <4> QED
        BY <2>6
    <3> QED
      BY <3>1, <3>2, <3>3
  <2> DEFINE v == t \o u
  <2>8. /\ v \in Seq(S) /\ Len(s) = Len(v)
        /\ \A j \in 1 .. Len(s) : s[j] = v[j]
    BY <2>2, <2>3, <2>5, <2>7
  <2> HIDE DEF v
  <2>9. s = v
    BY <2>2, <2>8, SeqEqual
  <2> QED
    BY <2>9 DEF s, t, u, v
<1> QED
  BY <1>4, <1>5 DEF Grows

(* ... so that all of them are what FlattenSeq makes, by induction on i.    *)
LEMMA FlattenEqual ==
    ASSUME NEW S, NEW m \in {3, 4}, NEW n \in Nat, NEW q,
           q \in Seq(Seq(S)), Len(q) = n, Rows(q, S, m, n)
    PROVE  FlattenSeq(q) = Part(q, m, n)
<1> DEFINE W == [i \in 1 .. n |-> Part(q, m, i)]
           K == [i \in 1 .. n |-> IF i = 1 THEN q[i] ELSE W[i - 1] \o q[i]]
<1>0. ASSUME NEW i \in 1 .. n
      PROVE  Part(q, m, i) = IF i = 1 THEN q[i] ELSE Part(q, m, i - 1) \o q[i]
  <2>1. Grows(q, m, i)
    BY PartGrows
  <2> QED
    BY <2>1 DEF Grows
<1>1. CASE n = 0
  <2>1. FlattenSeq(q) = q
    BY <1>1 DEF FlattenSeq
  <2>2. q = << >>
    BY <1>1, EmptySeq
  <2>3. Part(q, m, 0) = << >>
    BY DEF Part
  <2> QED
    BY <1>1, <2>1, <2>2, <2>3
<1>2. CASE n # 0
  <2>1. Flattens(W, q)
    <3>1. ASSUME NEW i \in 1 .. n
          PROVE  W[i] = K[i]
      <4>1. CASE i = 1
        BY <4>1, <1>0
      <4>2. CASE i # 1
        <5>1. i - 1 \in 1 .. n
          BY <4>2
        <5> QED
          BY <4>2, <5>1, <1>0
      <4> QED
        BY <4>1, <4>2
    <3>2. W = [i \in 1 .. n |-> W[i]] /\ K = [i \in 1 .. n |-> K[i]]
      OBVIOUS
    <3>3. W = K
      <4> HIDE DEF W, K
      <4> QED
        BY <3>1, <3>2
    <3> QED
      BY <3>3 DEF Flattens
  <2>2. ASSUME NEW f, Flattens(f, q)
        PROVE  f[n] = Part(q, m, n)
    <3> DEFINE T == {i \in Nat : i \in 1 .. n => f[i] = Part(q, m, i)}
    <3>1. \A i \in 1 .. n : f[i] = IF i = 1 THEN q[i] ELSE f[i - 1] \o q[i]
      BY <2>2 DEF Flattens
    <3>2. 0 \in T
      OBVIOUS
    <3>3. ASSUME NEW i \in Nat, i \in T
          PROVE  i + 1 \in T
      <4>1. SUFFICES ASSUME i + 1 \in 1 .. n
                     PROVE  f[i + 1] = Part(q, m, i + 1)
        OBVIOUS
      <4>2. CASE i = 0
        BY <3>1, <4>1, <4>2, <1>0
      <4>3. CASE i # 0
        <5>1. i \in 1 .. n /\ (i + 1) - 1 = i /\ i + 1 # 1
          BY <4>1, <4>3
        <5>2. f[i + 1] = f[i] \o q[i + 1]
          BY <3>1, <4>1, <5>1
        <5>3. f[i] = Part(q, m, i)
          BY <3>3, <5>1
        <5>4. Part(q, m, i + 1) = Part(q, m, i) \o q[i + 1]
          BY <4>1, <5>1, <1>0
        <5> QED
          BY <5>2, <5>3, <5>4
      <4> QED
        BY <4>2, <4>3
    <3>4. Nat \subseteq T
      <4> HIDE DEF T
      <4> QED
        BY <3>2, <3>3, NumberInduction
    <3>5. n \in 1 .. n
      BY <1>2
    <3> QED
      BY <3>4, <3>5
  <2>3. FlattenSeq(q) = (CHOOSE f : Flattens(f, q))[n]
    BY <1>2, Zenon DEF FlattenSeq, Flattens
  <2>4. Flattens(CHOOSE f : Flattens(f, q), q)
    BY <2>1
  <2> QED
    BY <2>2, <2>3, <2>4
<1> QED
  BY <1>1, <1>2

-----------------------------------------------------------------------------
(* Encoding.                                                                *)
LEMMA GroupIsDigits ==
    ASSUME NEW a \in Bytes, NEW b \in Bytes, NEW c \in Bytes
    PROVE  /\ EncodeGroup(a, b, c) \in Seq(Digits)
           /\ Len(EncodeGroup(a, b, c)) = 4
<1>1. /\ a \div 4 \in Digits
      /\ (a % 4) * 16 + b \div 16 \in Digits
      /\ (b % 16) * 4 + c \div 64 \in Digits
      /\ c % 64 \in Digits
  BY DEF Bytes, Digits
<1> QED
  BY <1>1 DEF EncodeGroup

(* The g-th group of a text of bytes, and all whole groups.                 *)
EncodedGroup(buf, g) == EncodeGroup(buf[3 * g - 2], buf[3 * g - 1], buf[3 * g])

LEMMA EncodedGroups ==
    ASSUME NEW buf \in Seq(Bytes), NEW n \in Nat, 3 * n <= Len(buf), NEW q,
           q = [g \in 1 .. n |-> EncodedGroup(buf, g)]
    PROVE  /\ EncodeGroups(buf, n) \in Seq(Digits)
           /\ Len(EncodeGroups(buf, n)) = 4 * n
           /\ \A j \in 1 .. 4 * n :
                EncodeGroups(buf, n)[j] = EncodedGroup(buf, (j - 1) \div 4 + 1)[((j - 1) % 4) + 1]
<1>1. ASSUME NEW g \in 1 .. n
      PROVE  EncodedGroup(buf, g) \in Seq(Digits) /\ Len(EncodedGroup(buf, g)) = 4
  <2>1. buf[3 * g - 2] \in Bytes /\ buf[3 * g - 1] \in Bytes /\ buf[3 * g] \in Bytes
    <3>1. 3 * g - 2 \in 1 .. Len(buf) /\ 3 * g - 1 \in 1 .. Len(buf) /\ 3 * g \in 1 .. Len(buf)
      BY LenProperties
    <3> QED
      BY <3>1, ElementOfSeq
  <2> QED
    BY <2>1, GroupIsDigits DEF EncodedGroup
<1>2. Rows(q, Digits, 4, n)
  BY <1>1 DEF Rows
<1>3. q \in Seq(Seq(Digits)) /\ Len(q) = n
  BY <1>1
<1>4. 4 \in {3, 4}
  OBVIOUS
<1>5. FlattenSeq(q) = Part(q, 4, n)
  BY <1>2, <1>3, <1>4, FlattenEqual
<1>6. EncodeGroups(buf, n) = FlattenSeq(q)
  BY DEF EncodeGroups, EncodedGroup
<1>7. ASSUME NEW j \in 1 .. 4 * n
      PROVE  /\ At(q, 4, j) = EncodedGroup(buf, (j - 1) \div 4 + 1)[((j - 1) % 4) + 1]
             /\ At(q, 4, j) \in Digits
  <2>1. (j - 1) \div 4 + 1 \in 1 .. n /\ ((j - 1) % 4) + 1 \in 1 .. 4
    OBVIOUS
  <2>2. q[(j - 1) \div 4 + 1] = EncodedGroup(buf, (j - 1) \div 4 + 1)
    BY <2>1
  <2>3. EncodedGroup(buf, (j - 1) \div 4 + 1)[((j - 1) % 4) + 1] \in Digits
    BY <1>1, <2>1, ElementOfSeq
  <2> QED
    BY <2>2, <2>3 DEF At
<1> QED
  BY <1>5, <1>6, <1>7 DEF Part

-----------------------------------------------------------------------------
(* Decoding group by group; the last one is filled up with npos.            *)
GroupRange == Digits \cup {Npos}

LEMMA GroupBytes ==
    ASSUME NEW w \in GroupRange, NEW x \in GroupRange, NEW y \in GroupRange, NEW z \in GroupRange
    PROVE  /\ DecodeGroup(w, x, y, z) \in Seq(Bytes)
           /\ Len(DecodeGroup(w, x, y, z)) = 3
<1>1. /\ (w * 4 + (x % 64) \div 16) % 256 \in Bytes
      /\ ((x % 16) * 16 + (y % 64) \div 4) % 256 \in Bytes
      /\ ((y % 4) * 64 + z) % 256 \in Bytes
  BY DEF GroupRange, Bytes, Digits, Npos
<1> QED
  BY <1>1 DEF DecodeGroup

DecodedGroup(s, g) == DecodeGroup(s[4 * g - 3], s[4 * g - 2], s[4 * g - 1], s[4 * g])

LEMMA DecodedGroups ==
    ASSUME NEW s \in Seq(Digits), NEW n \in Nat, 4 * n <= Len(s), NEW q,
           q = [g \in 1 .. n |-> DecodedGroup(s, g)]
    PROVE  /\ DecodeGroups(s, n) \in Seq(Bytes)
           /\ Len(DecodeGroups(s, n)) = 3 * n
           /\ \A p \in 1 .. 3 * n :
                DecodeGroups(s, n)[p] = DecodedGroup(s, (p - 1) \div 3 + 1)[((p - 1) % 3) + 1]
<1>1. ASSUME NEW g \in 1 .. n
      PROVE  DecodedGroup(s, g) \in Seq(Bytes) /\ Len(DecodedGroup(s, g)) = 3
  <2>1. /\ s[4 * g - 3] \in Digits /\ s[4 * g - 2] \in Digits
        /\ s[4 * g - 1] \in Digits /\ s[4 * g] \in Digits
    <3>1. /\ 4 * g - 3 \in 1 .. Len(s) /\ 4 * g - 2 \in 1 .. Len(s)
          /\ 4 * g - 1 \in 1 .. Len(s) /\ 4 * g \in 1 .. Len(s)
      BY LenProperties
    <3> QED
      BY <3>1, ElementOfSeq
  <2> QED
    BY <2>1, GroupBytes DEF DecodedGroup, GroupRange
<1>2. Rows(q, Bytes, 3, n)
  BY <1>1 DEF Rows
<1>3. q \in Seq(Seq(Bytes)) /\ Len(q) = n
  BY <1>1
<1>4. 3 \in {3, 4}
  OBVIOUS
<1>5. FlattenSeq(q) = Part(q, 3, n)
  BY <1>2, <1>3, <1>4, FlattenEqual
<1>6. DecodeGroups(s, n) = FlattenSeq(q)
  BY DEF DecodeGroups, DecodedGroup
<1>7. ASSUME NEW p \in 1 .. 3 * n
      PROVE  /\ At(q, 3, p) = DecodedGroup(s, (p - 1) \div 3 + 1)[((p - 1) % 3) + 1]
             /\ At(q, 3, p) \in Bytes
  <2>1. (p - 1) \div 3 + 1 \in 1 .. n /\ ((p - 1) % 3) + 1 \in 1 .. 3
    OBVIOUS
  <2>2. q[(p - 1) \div 3 + 1] = DecodedGroup(s, (p - 1) \div 3 + 1)
    BY <2>1
  <2>3. DecodedGroup(s, (p - 1) \div 3 + 1)[((p - 1) % 3) + 1] \in Bytes
    BY <1>1, <2>1, ElementOfSeq
  <2> QED
    BY <2>2, <2>3 DEF At
<1> QED
  BY <1>5, <1>6, <1>7 DEF Part

-----------------------------------------------------------------------------
(* The p-th byte, and zero after the last one (base64.hpp:59-60).           *)
Byte(buf, p) == IF p <= Len(buf) THEN buf[p] ELSE 0

(* The j-th digit of the encoding, and how many there are.                  *)
Digit(buf, j) ==
    LET g == (j - 1) \div 4
    IN  EncodeGroup(Byte(buf, 3 * g + 1), Byte(buf, 3 * g + 2), Byte(buf, 3 * g + 3))[((j - 1) % 4) + 1]

Count(buf) == (8 * Len(buf) + 5) \div 6

(* What base64_encode adds for the bytes after the last whole group.        *)
Tail3(buf) ==
    LET n == Len(buf) \div 3
        i == Len(buf) % 3
        rest == SubSeq(buf, 3 * n + 1, Len(buf)) \o <<0, 0>>
    IN  IF i = 0 THEN << >>
           ELSE SubSeq(EncodeGroup(rest[1], rest[2], rest[3]), 1, i + 1)
                \o SubSeq(<<Pad, Pad>>, 1, 3 - i)

LEMMA EncodedRest ==
    ASSUME NEW buf \in Seq(Bytes), NEW n \in Nat, NEW i \in {1, 2}, Len(buf) = 3 * n + i,
           NEW e, e = EncodeGroup(Byte(buf, 3 * n + 1), Byte(buf, 3 * n + 2), Byte(buf, 3 * n + 3))
    PROVE  /\ Tail3(buf) \in Seq(Chars)
           /\ Len(Tail3(buf)) = 4
           /\ \A j \in 1 .. i + 1 : Tail3(buf)[j] = e[j] /\ e[j] \in Digits
           /\ \A j \in i + 2 .. 4 : Tail3(buf)[j] = Pad
<1> DEFINE rest == SubSeq(buf, 3 * n + 1, Len(buf)) \o <<0, 0>>
<1>1. Len(buf) \div 3 = n /\ Len(buf) % 3 = i
  OBVIOUS
<1> DEFINE b1 == Byte(buf, 3 * n + 1)
           b2 == Byte(buf, 3 * n + 2)
           b3 == Byte(buf, 3 * n + 3)
<1>0. /\ b1 = buf[3 * n + 1] /\ b2 = (IF i = 2 THEN buf[3 * n + 2] ELSE 0) /\ b3 = 0
      /\ b1 \in Bytes /\ b2 \in Bytes /\ b3 \in Bytes
  <2>1. b1 = buf[3 * n + 1] /\ b2 = (IF i = 2 THEN buf[3 * n + 2] ELSE 0) /\ b3 = 0
    BY DEF Byte
  <2>2. 3 * n + 1 \in 1 .. Len(buf) /\ (i = 2 => 3 * n + 2 \in 1 .. Len(buf))
    OBVIOUS
  <2>3. buf[3 * n + 1] \in Bytes /\ (i = 2 => buf[3 * n + 2] \in Bytes)
    BY <2>2, ElementOfSeq
  <2>4. 0 \in Bytes
    BY DEF Bytes
  <2> HIDE DEF b1, b2, b3
  <2> QED
    BY <2>1, <2>3, <2>4
<1>2. /\ rest[1] = Byte(buf, 3 * n + 1) /\ rest[2] = Byte(buf, 3 * n + 2)
      /\ rest[3] = Byte(buf, 3 * n + 3)
  <2> DEFINE u == SubSeq(buf, 3 * n + 1, Len(buf))
             z == <<0, 0>>
  <2>1. /\ u \in Seq(Bytes) /\ Len(u) = i
        /\ \A j \in 1 .. i : u[j] = buf[3 * n + j]
    <3>1. 3 * n + 1 \in 1 .. Len(buf) + 1 /\ Len(buf) \in 3 * n .. Len(buf)
      OBVIOUS
    <3> QED
      BY <3>1, SubSeqProperties
  <2>2. z \in Seq(Bytes) /\ Len(z) = 2 /\ z[1] = 0 /\ z[2] = 0
    BY DEF Bytes
  <2> HIDE DEF u, z
  <2> DEFINE v == u \o z
  <2>3. \A j \in 1 .. Len(u) + Len(z) : v[j] = IF j <= Len(u) THEN u[j] ELSE z[j - Len(u)]
    <3>1. u \in Seq(Bytes) /\ z \in Seq(Bytes)
      BY <2>1, <2>2
    <3>2. \A j \in 1 .. Len(u) + Len(z) : (u \o z)[j] = IF j <= Len(u) THEN u[j] ELSE z[j - Len(u)]
      BY <3>1, ConcatProperties
    <3> QED
      BY <3>2
  <2>4. rest = v
    BY DEF u, z
  <2> HIDE DEF rest
  <2> HIDE DEF v
  <2>5. CASE i = 1
    <3>1. v[1] = u[1] /\ v[2] = z[1] /\ v[3] = z[2]
      BY <2>1, <2>2, <2>3, <2>5
    <3>2. v[1] = b1 /\ v[2] = b2 /\ v[3] = b3
      <4>1. u[1] = buf[3 * n + 1]
        BY <2>1, <2>5
      <4> HIDE DEF b1, b2, b3
      <4> QED
        BY <1>0, <2>2, <2>5, <3>1, <4>1
    <3> QED
      BY <2>4, <3>2
  <2>6. CASE i = 2
    <3>1. v[1] = u[1] /\ v[2] = u[2] /\ v[3] = z[1]
      BY <2>1, <2>2, <2>3, <2>6
    <3>2. v[1] = b1 /\ v[2] = b2 /\ v[3] = b3
      <4>1. u[1] = buf[3 * n + 1] /\ u[2] = buf[3 * n + 2]
        BY <2>1, <2>6
      <4> HIDE DEF b1, b2, b3
      <4> QED
        BY <1>0, <2>2, <2>6, <3>1, <4>1
    <3> QED
      BY <2>4, <3>2
  <2> QED
    BY <2>5, <2>6
<1>3. e = EncodeGroup(rest[1], rest[2], rest[3])
  BY <1>2
<1> DEFINE l == Len(buf) % 3
           end == SubSeq(buf, 3 * (Len(buf) \div 3) + 1, Len(buf)) \o <<0, 0>>
           pads == <<Pad, Pad>>
<1>4. Tail3(buf) = SubSeq(e, 1, i + 1) \o SubSeq(pads, 1, 3 - i)
  <2>1. Tail3(buf) = IF l = 0 THEN << >>
                     ELSE SubSeq(EncodeGroup(end[1], end[2], end[3]), 1, l + 1)
                          \o SubSeq(pads, 1, 3 - l)
    BY DEF Tail3
  <2>2. end = rest
    BY <1>1, Zenon
  <2>3. l = i /\ i # 0
    <3> HIDE DEF end, rest, b1, b2, b3
    <3> QED
      BY <1>1
  <2> HIDE DEF end, rest, l, pads, b1, b2, b3
  <2> QED
    BY <1>3, <2>1, <2>2, <2>3
<1>5. e \in Seq(Digits) /\ Len(e) = 4
  BY <1>0, GroupIsDigits
<1> HIDE DEF rest
<1>6. /\ SubSeq(e, 1, i + 1) \in Seq(Digits) /\ Len(SubSeq(e, 1, i + 1)) = i + 1
      /\ \A j \in 1 .. i + 1 : SubSeq(e, 1, i + 1)[j] = e[j] /\ e[j] \in Digits
  <2>1. \A j \in 1 .. 4 : e[j] \in Digits
    <3> HIDE DEF b1, b2, b3
    <3> QED
      BY <1>5, ElementOfSeq
  <2>2. \A j \in 1 .. i + 1 : e[j] \in Digits
    BY <2>1
  <2> QED
    BY <2>2, SubSeqProperties
<1> DEFINE p == SubSeq(<<Pad, Pad>>, 1, 3 - i)
<1>7. p \in Seq(Chars) /\ Len(p) = 3 - i /\ \A j \in 1 .. 3 - i : p[j] = Pad
  <2>1. CASE i = 1
    BY <2>1 DEF Chars
  <2>2. CASE i = 2
    BY <2>2 DEF Chars
  <2> QED
    BY <2>1, <2>2
<1> DEFINE f == SubSeq(e, 1, i + 1)
<1>8. f \in Seq(Chars)
  BY <1>6 DEF Chars
<1> HIDE DEF p
<1>9. /\ f \o p \in Seq(Chars) /\ Len(f \o p) = 4
      /\ \A j \in 1 .. 4 : (f \o p)[j] = IF j <= i + 1 THEN f[j] ELSE p[j - (i + 1)]
  <2> HIDE DEF f
  <2>0. f \in Seq(Chars) /\ p \in Seq(Chars)
    BY <1>7, <1>8
  <2>1. f \o p \in Seq(Chars) /\ Len(f \o p) = Len(f) + Len(p)
    BY <2>0, ConcatProperties
  <2>2. \A j \in 1 .. Len(f) + Len(p) : (f \o p)[j] = IF j <= Len(f) THEN f[j] ELSE p[j - Len(f)]
    BY <2>0, ConcatProperties
  <2> QED
    BY <1>6, <1>7, <2>1, <2>2 DEF f
<1>10. Tail3(buf) = f \o p
  BY <1>4 DEF p
<1> HIDE DEF f
<1> QED
  BY <1>6, <1>7, <1>9, <1>10 DEF f

(* The encoding is these digits and then only '=', to a whole group.        *)
LEMMA Encoded ==
    ASSUME NEW buf \in Seq(Bytes), NEW code, code = base64_encode(buf)
    PROVE  /\ code \in Seq(Chars)
           /\ Len(code) = 4 * ((Len(buf) + 2) \div 3)
           /\ Count(buf) \in 0 .. Len(code)
           /\ \A j \in 1 .. Count(buf) : code[j] = Digit(buf, j) /\ code[j] \in Digits
           /\ \A j \in Count(buf) + 1 .. Len(code) : code[j] = Pad
<1> DEFINE n == Len(buf) \div 3
           i == Len(buf) % 3
           G == EncodeGroups(buf, n)
           t == Tail3(buf)
           q == [g \in 1 .. n |-> EncodedGroup(buf, g)]
<1>1. n \in Nat /\ i \in 0 .. 2 /\ Len(buf) = 3 * n + i
  BY LenProperties
<1>2. code = G \o t
  BY DEF base64_encode, Tail3
<1> HIDE DEF n, i
<1>3. /\ G \in Seq(Digits) /\ Len(G) = 4 * n
      /\ \A j \in 1 .. 4 * n : G[j] = EncodedGroup(buf, (j - 1) \div 4 + 1)[((j - 1) % 4) + 1]
  <2>1. 3 * n <= Len(buf)
    BY <1>1
  <2> HIDE DEF G
  <2>2. q = [g \in 1 .. n |-> EncodedGroup(buf, g)]
    OBVIOUS
  <2> HIDE DEF q
  <2> QED
    BY <1>1, <2>1, <2>2, EncodedGroups DEF G
<1> HIDE DEF G, q, t
<1>4. G \in Seq(Chars) /\ \A j \in 1 .. 4 * n : G[j] \in Digits
  BY <1>1, <1>3, ElementOfSeq DEF Chars
<1>5. ASSUME NEW j \in 1 .. 4 * n
      PROVE  G[j] = Digit(buf, j)
  <2> DEFINE g == (j - 1) \div 4
  <2>1. g \in 0 .. n - 1 /\ ((j - 1) % 4) + 1 \in 1 .. 4
    BY <1>1
  <2> HIDE DEF g
  <2>2. /\ Byte(buf, 3 * g + 1) = buf[3 * (g + 1) - 2]
        /\ Byte(buf, 3 * g + 2) = buf[3 * (g + 1) - 1]
        /\ Byte(buf, 3 * g + 3) = buf[3 * (g + 1)]
    <3>1. /\ 3 * g + 1 <= Len(buf) /\ 3 * g + 2 <= Len(buf) /\ 3 * g + 3 <= Len(buf)
          /\ 3 * g + 1 = 3 * (g + 1) - 2 /\ 3 * g + 2 = 3 * (g + 1) - 1
          /\ 3 * g + 3 = 3 * (g + 1)
      BY <1>1, <2>1
    <3> QED
      BY <3>1 DEF Byte
  <2>3. Digit(buf, j) = EncodedGroup(buf, g + 1)[((j - 1) % 4) + 1]
    BY <2>2 DEF Digit, EncodedGroup, g
  <2> QED
    BY <1>3, <2>3 DEF g
<1>6. CASE i = 0
  <2>1. t = << >>
    BY <1>6 DEF t, Tail3, i
  <2>2. code = G
    BY <1>2, <1>4, <2>1, ConcatEmptySeq
  <2>3. Count(buf) = 4 * n /\ 4 * ((Len(buf) + 2) \div 3) = 4 * n
    BY <1>1, <1>6 DEF Count
  <2>4. 4 * n \in 0 .. Len(code)
    BY <1>1, <1>3, <2>2
  <2>5. 4 * n + 1 .. Len(code) = {}
    BY <1>1, <1>3, <2>2
  <2> QED
    BY <1>3, <1>4, <1>5, <2>2, <2>3, <2>4, <2>5
<1>7. CASE i \in {1, 2}
  <2> DEFINE e == EncodeGroup(Byte(buf, 3 * n + 1), Byte(buf, 3 * n + 2), Byte(buf, 3 * n + 3))
  <2>1. /\ t \in Seq(Chars) /\ Len(t) = 4
        /\ \A j \in 1 .. i + 1 : t[j] = e[j] /\ e[j] \in Digits
        /\ \A j \in i + 2 .. 4 : t[j] = Pad
    BY <1>1, <1>7, EncodedRest DEF t
  <2>2. /\ code \in Seq(Chars) /\ Len(code) = Len(G) + Len(t)
    <3>1. G \in Seq(Chars) /\ t \in Seq(Chars)
      BY <1>4, <2>1
    <3>2. G \o t \in Seq(Chars) /\ Len(G \o t) = Len(G) + Len(t)
      BY <3>1, ConcatProperties
    <3> QED
      BY <1>2, <3>2
  <2>3. \A j \in 1 .. Len(G) + Len(t) : code[j] = IF j <= Len(G) THEN G[j] ELSE t[j - Len(G)]
    <3>1. G \in Seq(Chars) /\ t \in Seq(Chars)
      BY <1>4, <2>1
    <3>2. \A j \in 1 .. Len(G) + Len(t) : (G \o t)[j] = IF j <= Len(G) THEN G[j] ELSE t[j - Len(G)]
      BY <3>1, ConcatProperties
    <3> QED
      BY <1>2, <3>2
  <2>4. /\ Count(buf) = 4 * n + i + 1 /\ 4 * ((Len(buf) + 2) \div 3) = 4 * n + 4
    BY <1>1, <1>7 DEF Count
  <2>5. Len(code) = 4 * n + 4
    BY <1>3, <2>1, <2>2
  <2>6. ASSUME NEW j \in 1 .. 4 * n + i + 1
        PROVE  code[j] = Digit(buf, j) /\ code[j] \in Digits
    <3>1. CASE j <= 4 * n
      <4>1. code[j] = G[j]
        <5> HIDE DEF e
        <5>1. j <= Len(G) /\ j \in 1 .. Len(G) + Len(t)
          BY <1>1, <1>3, <1>7, <2>1, <3>1
        <5> QED
          BY <2>3, <5>1
      <4> QED
        BY <1>4, <1>5, <3>1, <4>1
    <3>2. CASE ~(j <= 4 * n)
      <4> DEFINE k == j - 4 * n
      <4>1. k \in 1 .. i + 1 /\ (j - 1) \div 4 = n /\ ((j - 1) % 4) + 1 = k
        BY <1>1, <1>7, <3>2
      <4>2. code[j] = t[k]
        <5> HIDE DEF e
        <5>1. ~(j <= Len(G)) /\ j \in 1 .. Len(G) + Len(t) /\ k = j - Len(G)
          BY <1>1, <1>3, <1>7, <2>1, <3>2
        <5> HIDE DEF k
        <5> QED
          BY <2>3, <5>1
      <4>3. Digit(buf, j) = e[k]
        BY <4>1 DEF Digit
      <4> HIDE DEF k, e
      <4> QED
        BY <2>1, <4>1, <4>2, <4>3
    <3> QED
      BY <3>1, <3>2
  <2>7. ASSUME NEW j \in 4 * n + i + 2 .. 4 * n + 4
        PROVE  code[j] = Pad
    <3>1. j - 4 * n \in i + 2 .. 4 /\ ~(j <= 4 * n) /\ j \in 1 .. 4 * n + 4
      BY <1>1, <1>7
    <3>2. code[j] = t[j - 4 * n]
      <4> HIDE DEF e
      <4> QED
        BY <1>3, <2>1, <2>3, <3>1
    <3> QED
      BY <2>1, <3>1, <3>2
  <2> HIDE DEF e
  <2>8. Count(buf) \in 0 .. Len(code) /\ Count(buf) + 1 = 4 * n + i + 2
    BY <1>1, <1>7, <2>4, <2>5
  <2> QED
    BY <2>2, <2>4, <2>5, <2>6, <2>7, <2>8
<1> QED
  BY <1>1, <1>6, <1>7

-----------------------------------------------------------------------------
(* The p-th digit read, and npos after the last one (base64.hpp:105-109).   *)
Char(w, p) == IF p <= Len(w) THEN w[p] ELSE Npos

(* The p-th byte that the digits w decode to.                               *)
ByteAt(w, p) ==
    LET g == (p - 1) \div 3
    IN  DecodeGroup(Char(w, 4 * g + 1), Char(w, 4 * g + 2),
                    Char(w, 4 * g + 3), Char(w, 4 * g + 4))[((p - 1) % 3) + 1]

(* What base64_decode adds for the digits after the last whole group.       *)
Part3(w) ==
    LET n == Len(w) \div 4
        i == Len(w) % 4
        rest == SubSeq(w, 4 * n + 1, Len(w)) \o <<Npos, Npos, Npos>>
    IN  IF i = 0 THEN << >>
        ELSE SubSeq(DecodeGroup(rest[1], rest[2], rest[3], rest[4]), 1, i - 1)

LEMMA DecodedRest ==
    ASSUME NEW w \in Seq(Digits), NEW n \in Nat, NEW i \in {1, 2, 3}, Len(w) = 4 * n + i,
           NEW e, e = DecodeGroup(Char(w, 4 * n + 1), Char(w, 4 * n + 2),
                                  Char(w, 4 * n + 3), Char(w, 4 * n + 4))
    PROVE  /\ Part3(w) \in Seq(Bytes)
           /\ Len(Part3(w)) = i - 1
           /\ \A j \in 1 .. i - 1 : Part3(w)[j] = e[j]
<1> DEFINE rest == SubSeq(w, 4 * n + 1, Len(w)) \o <<Npos, Npos, Npos>>
           c1 == Char(w, 4 * n + 1)
           c2 == Char(w, 4 * n + 2)
           c3 == Char(w, 4 * n + 3)
           c4 == Char(w, 4 * n + 4)
<1>1. Len(w) \div 4 = n /\ Len(w) % 4 = i
  OBVIOUS
<1>2. /\ c1 = w[4 * n + 1] /\ c2 = (IF i >= 2 THEN w[4 * n + 2] ELSE Npos)
      /\ c3 = (IF i >= 3 THEN w[4 * n + 3] ELSE Npos) /\ c4 = Npos
      /\ c1 \in GroupRange /\ c2 \in GroupRange /\ c3 \in GroupRange /\ c4 \in GroupRange
  <2>1. /\ c1 = w[4 * n + 1] /\ c2 = (IF i >= 2 THEN w[4 * n + 2] ELSE Npos)
        /\ c3 = (IF i >= 3 THEN w[4 * n + 3] ELSE Npos) /\ c4 = Npos
    BY DEF Char
  <2>2. /\ 4 * n + 1 \in 1 .. Len(w)
        /\ i >= 2 => 4 * n + 2 \in 1 .. Len(w)
        /\ i >= 3 => 4 * n + 3 \in 1 .. Len(w)
    OBVIOUS
  <2>3. /\ w[4 * n + 1] \in Digits
        /\ i >= 2 => w[4 * n + 2] \in Digits
        /\ i >= 3 => w[4 * n + 3] \in Digits
    BY <2>2, ElementOfSeq
  <2> HIDE DEF c1, c2, c3, c4
  <2> QED
    BY <2>1, <2>3 DEF GroupRange
<1>3. rest[1] = c1 /\ rest[2] = c2 /\ rest[3] = c3 /\ rest[4] = c4
  <2> DEFINE u == SubSeq(w, 4 * n + 1, Len(w))
             z == <<Npos, Npos, Npos>>
  <2>1. /\ u \in Seq(Digits) /\ Len(u) = i
        /\ \A j \in 1 .. i : u[j] = w[4 * n + j]
    <3>1. \A j \in 4 * n + 1 .. Len(w) : w[j] \in Digits
      <4>1. \A j \in 1 .. Len(w) : w[j] \in Digits
        <5> HIDE DEF c1, c2, c3, c4, rest, u
        <5> QED
          BY ElementOfSeq
      <4> QED
        BY <4>1
    <3> DEFINE m == 4 * n + 1
               l == Len(w)
    <3>2. m \in Int /\ l \in Int /\ l - m + 1 = i /\ m <= l /\ u = SubSeq(w, m, l)
          /\ \A j \in 1 .. i : m + j - 1 = 4 * n + j
      OBVIOUS
    <3> HIDE DEF m, l, u, rest, c1, c2, c3, c4
    <3>3. /\ SubSeq(w, m, l) \in Seq(Digits)
          /\ Len(SubSeq(w, m, l)) = IF m <= l THEN l - m + 1 ELSE 0
          /\ \A j \in 1 .. l - m + 1 : SubSeq(w, m, l)[j] = w[m + j - 1]
      <4>1. \A j \in m .. l : w[j] \in Digits
        BY <3>1 DEF m, l
      <4> QED
        BY <3>2, <4>1, SubSeqProperties
    <3> QED
      BY <3>2, <3>3
  <2>2. z \in Seq({Npos}) /\ Len(z) = 3 /\ z[1] = Npos /\ z[2] = Npos /\ z[3] = Npos
    OBVIOUS
  <2> HIDE DEF u, z
  <2> DEFINE v == u \o z
  <2>3. \A j \in 1 .. Len(u) + Len(z) : v[j] = IF j <= Len(u) THEN u[j] ELSE z[j - Len(u)]
    <3>1. u \in Seq(GroupRange) /\ z \in Seq(GroupRange)
      BY <2>1, <2>2 DEF GroupRange
    <3> QED
      BY <3>1, ConcatProperties
  <2>4. rest = v
    BY DEF u, z
  <2> HIDE DEF rest, v
  <2>5. CASE i = 1
    <3>1. v[1] = u[1] /\ v[2] = z[1] /\ v[3] = z[2] /\ v[4] = z[3]
      BY <2>1, <2>2, <2>3, <2>5
    <3>2. u[1] = w[4 * n + 1]
      BY <2>1, <2>5
    <3> HIDE DEF c1, c2, c3, c4
    <3> QED
      BY <1>2, <2>2, <2>4, <2>5, <3>1, <3>2
  <2>6. CASE i = 2
    <3>1. v[1] = u[1] /\ v[2] = u[2] /\ v[3] = z[1] /\ v[4] = z[2]
      BY <2>1, <2>2, <2>3, <2>6
    <3>2. u[1] = w[4 * n + 1] /\ u[2] = w[4 * n + 2]
      BY <2>1, <2>6
    <3> HIDE DEF c1, c2, c3, c4
    <3> QED
      BY <1>2, <2>2, <2>4, <2>6, <3>1, <3>2
  <2>7. CASE i = 3
    <3>1. v[1] = u[1] /\ v[2] = u[2] /\ v[3] = u[3] /\ v[4] = z[1]
      BY <2>1, <2>2, <2>3, <2>7
    <3>2. u[1] = w[4 * n + 1] /\ u[2] = w[4 * n + 2] /\ u[3] = w[4 * n + 3]
      BY <2>1, <2>7
    <3> HIDE DEF c1, c2, c3, c4
    <3> QED
      BY <1>2, <2>2, <2>4, <2>7, <3>1, <3>2
  <2> QED
    BY <2>5, <2>6, <2>7
<1>4. e = DecodeGroup(rest[1], rest[2], rest[3], rest[4])
  BY <1>3
<1> DEFINE l == Len(w) % 4
           end == SubSeq(w, 4 * (Len(w) \div 4) + 1, Len(w)) \o <<Npos, Npos, Npos>>
<1>5. Part3(w) = SubSeq(e, 1, i - 1)
  <2>1. Part3(w) = IF l = 0 THEN << >>
                   ELSE SubSeq(DecodeGroup(end[1], end[2], end[3], end[4]), 1, l - 1)
    BY DEF Part3
  <2>2. end = rest
    BY <1>1, Zenon
  <2>3. l = i /\ i # 0
    <3> HIDE DEF end, rest, c1, c2, c3, c4
    <3> QED
      BY <1>1
  <2> HIDE DEF end, rest, l, c1, c2, c3, c4
  <2> QED
    BY <1>4, <2>1, <2>2, <2>3
<1>6. e \in Seq(Bytes) /\ Len(e) = 3
  BY <1>2, GroupBytes
<1> HIDE DEF rest, c1, c2, c3, c4
<1>7. \A j \in 1 .. i - 1 : e[j] \in Bytes
  <2>1. \A j \in 1 .. 3 : e[j] \in Bytes
    BY <1>6, ElementOfSeq
  <2> QED
    BY <2>1
<1> QED
  BY <1>5, <1>7, SubSeqProperties

LEMMA LeastIsMin ==
    ASSUME NEW T \in SUBSET Nat, NEW m \in T, \A x \in T : m <= x
    PROVE  Min(T) = m
<1>1. Min(T) \in T /\ \A x \in T : Min(T) <= x
  BY DEF Min
<1>2. Min(T) <= m /\ m <= Min(T) /\ Min(T) \in Nat
  BY <1>1
<1> QED
  BY <1>2

(* The first k characters are digits and the next one, if any, is not.      *)
Stops(s, k) ==
    /\ \A j \in 1 .. k : s[j] \in Digits
    /\ k < Len(s) => s[k + 1] \notin Digits

LEMMA ReadableIs ==
    ASSUME NEW s \in Seq(Chars), NEW k \in 0 .. Len(s), Stops(s, k),
           NEW w, w = Readable(s)
    PROVE  /\ w \in Seq(Digits)
           /\ Len(w) = k
           /\ \A j \in 1 .. k : w[j] = s[j]
<1> DEFINE stops == {j \in DOMAIN s : s[j] \notin Digits}
<1>1. DOMAIN s = 1 .. Len(s) /\ Len(s) \in Nat
  BY LenProperties
<1>4. k # Len(s) => k < Len(s) /\ k + 1 \in 1 .. Len(s)
  <2> DEFINE l == Len(s)
  <2>1. l \in Nat /\ k \in 0 .. l
    BY <1>1
  <2> HIDE DEF l
  <2>2. k # l => k < l /\ k + 1 \in 1 .. l
    BY <2>1
  <2> QED
    BY <2>2 DEF l
<1>2. CASE k = Len(s)
  <2>1. stops = {}
    BY <1>1, <1>2 DEF Stops
  <2>2. w = s
    BY <2>1 DEF Readable
  <2>3. s \in Seq(Digits)
    BY <1>1, <1>2, IsASeq DEF Stops
  <2> QED
    BY <1>2, <2>2, <2>3
<1>3. CASE k # Len(s)
  <2>1. k + 1 \in stops /\ \A x \in stops : k + 1 <= x
    <3>1. k < Len(s) /\ k + 1 \in 1 .. Len(s)
      BY <1>3, <1>4
    <3>2. ASSUME NEW x \in 1 .. Len(s), s[x] \notin Digits
          PROVE  k + 1 <= x
      <4>1. ~(x \in 1 .. k)
        BY <3>2 DEF Stops
      <4> QED
        BY <1>1, <4>1
    <3> QED
      BY <1>1, <3>1, <3>2 DEF Stops
  <2>2. stops \in SUBSET Nat
    BY <1>1
  <2>3. Min(stops) = k + 1 /\ stops # {}
    <3> HIDE DEF stops
    <3> QED
      BY <2>1, <2>2, LeastIsMin
  <2>4. w = SubSeq(s, 1, Min(stops) - 1)
    BY <2>3 DEF Readable
  <2>5. w = SubSeq(s, 1, k)
    <3> HIDE DEF stops
    <3>1. k + 1 - 1 = k
      BY <1>1
    <3> QED
      BY <2>3, <2>4, <3>1
  <2> QED
    BY <1>1, <2>5, SubSeqProperties DEF Stops
<1> QED
  BY <1>2, <1>3

(* Decoding reads the first k characters and returns their whole bytes.     *)
LEMMA Decoded ==
    ASSUME NEW s \in Seq(Chars), NEW k \in 0 .. Len(s), Stops(s, k),
           NEW d, d = base64_decode(s)
    PROVE  /\ d \in Seq(Bytes)
           /\ Len(d) = (6 * k) \div 8
           /\ \A p \in 1 .. Len(d) : d[p] = ByteAt(Readable(s), p)
<1> DEFINE w == Readable(s)
           n == Len(w) \div 4
           i == Len(w) % 4
           G == DecodeGroups(w, n)
           t == Part3(w)
           q == [g \in 1 .. n |-> DecodedGroup(w, g)]
<1>0. w \in Seq(Digits) /\ Len(w) = k
  BY ReadableIs
<1>1. n \in Nat /\ i \in 0 .. 3 /\ Len(w) = 4 * n + i /\ k = 4 * n + i
  <2> HIDE DEF w
  <2> QED
    BY <1>0, LenProperties
<1>2. d = G \o t
  BY DEF base64_decode, Part3
<1> HIDE DEF n, i, w
<1>3. /\ G \in Seq(Bytes) /\ Len(G) = 3 * n
      /\ \A p \in 1 .. 3 * n : G[p] = DecodedGroup(w, (p - 1) \div 3 + 1)[((p - 1) % 3) + 1]
  <2>1. 4 * n <= Len(w)
    BY <1>1
  <2> HIDE DEF G
  <2>2. q = [g \in 1 .. n |-> DecodedGroup(w, g)]
    OBVIOUS
  <2> HIDE DEF q
  <2> QED
    BY <1>0, <1>1, <2>1, <2>2, DecodedGroups DEF G
<1> HIDE DEF G, q, t
<1>4. ASSUME NEW p \in 1 .. 3 * n
      PROVE  G[p] = ByteAt(w, p)
  <2> DEFINE g == (p - 1) \div 3
  <2>1. g \in 0 .. n - 1
    BY <1>1
  <2> HIDE DEF g
  <2>2. /\ Char(w, 4 * g + 1) = w[4 * (g + 1) - 3]
        /\ Char(w, 4 * g + 2) = w[4 * (g + 1) - 2]
        /\ Char(w, 4 * g + 3) = w[4 * (g + 1) - 1]
        /\ Char(w, 4 * g + 4) = w[4 * (g + 1)]
    <3>1. /\ 4 * g + 1 <= Len(w) /\ 4 * g + 2 <= Len(w)
          /\ 4 * g + 3 <= Len(w) /\ 4 * g + 4 <= Len(w)
          /\ 4 * g + 1 = 4 * (g + 1) - 3 /\ 4 * g + 2 = 4 * (g + 1) - 2
          /\ 4 * g + 3 = 4 * (g + 1) - 1 /\ 4 * g + 4 = 4 * (g + 1)
      BY <1>1, <2>1
    <3> QED
      BY <3>1 DEF Char
  <2>3. ByteAt(w, p) = DecodedGroup(w, g + 1)[((p - 1) % 3) + 1]
    BY <2>2 DEF ByteAt, DecodedGroup, g
  <2> QED
    BY <1>3, <2>3 DEF g
<1>5. CASE i = 0
  <2>1. t = << >>
    BY <1>5 DEF t, Part3, i
  <2>2. d = G
    BY <1>2, <1>3, <2>1, ConcatEmptySeq
  <2>3. (6 * k) \div 8 = 3 * n
    BY <1>1, <1>5
  <2> QED
    BY <1>3, <1>4, <2>2, <2>3 DEF w
<1>6. CASE i \in {1, 2, 3}
  <2> DEFINE e == DecodeGroup(Char(w, 4 * n + 1), Char(w, 4 * n + 2),
                              Char(w, 4 * n + 3), Char(w, 4 * n + 4))
  <2>1. /\ t \in Seq(Bytes) /\ Len(t) = i - 1
        /\ \A j \in 1 .. i - 1 : t[j] = e[j]
    BY <1>0, <1>1, <1>6, DecodedRest DEF t
  <2> HIDE DEF e
  <2>2. d \in Seq(Bytes) /\ Len(d) = Len(G) + Len(t)
    <3>1. G \in Seq(Bytes) /\ t \in Seq(Bytes)
      BY <1>3, <2>1
    <3>2. G \o t \in Seq(Bytes) /\ Len(G \o t) = Len(G) + Len(t)
      BY <3>1, ConcatProperties
    <3> QED
      BY <1>2, <3>2
  <2>3. \A j \in 1 .. Len(G) + Len(t) : d[j] = IF j <= Len(G) THEN G[j] ELSE t[j - Len(G)]
    <3>1. G \in Seq(Bytes) /\ t \in Seq(Bytes)
      BY <1>3, <2>1
    <3>2. \A j \in 1 .. Len(G) + Len(t) : (G \o t)[j] = IF j <= Len(G) THEN G[j] ELSE t[j - Len(G)]
      BY <3>1, ConcatProperties
    <3> QED
      BY <1>2, <3>2
  <2>4. (6 * k) \div 8 = 3 * n + i - 1 /\ Len(d) = 3 * n + i - 1
    <3>1. n \in Nat /\ k = 4 * n + i /\ Len(d) = 3 * n + (i - 1)
      BY <1>1, <1>3, <2>1, <2>2
    <3>2. CASE i = 1
      BY <3>1, <3>2
    <3>3. CASE i = 2
      BY <3>1, <3>3
    <3>4. CASE i = 3
      BY <3>1, <3>4
    <3> QED
      BY <1>6, <3>2, <3>3, <3>4
  <2>5. ASSUME NEW p \in 1 .. 3 * n + i - 1
        PROVE  d[p] = ByteAt(w, p)
    <3>1. CASE p <= 3 * n
      <4>1. d[p] = G[p]
        <5>1. p <= Len(G) /\ p \in 1 .. Len(G) + Len(t)
          BY <1>1, <1>3, <1>6, <2>1, <3>1
        <5> QED
          BY <2>3, <5>1
      <4> QED
        BY <1>1, <1>4, <3>1, <4>1
    <3>2. CASE ~(p <= 3 * n)
      <4> DEFINE j == p - 3 * n
      <4>1. j \in 1 .. i - 1 /\ (p - 1) \div 3 = n /\ ((p - 1) % 3) + 1 = j
        BY <1>1, <1>6, <3>2
      <4>2. d[p] = t[j]
        <5>1. ~(p <= Len(G)) /\ p \in 1 .. Len(G) + Len(t) /\ j = p - Len(G)
          BY <1>1, <1>3, <1>6, <2>1, <3>2
        <5> HIDE DEF j
        <5> QED
          BY <2>3, <5>1
      <4>3. ByteAt(w, p) = e[j]
        BY <4>1 DEF ByteAt, e
      <4> HIDE DEF j
      <4> QED
        BY <2>1, <4>1, <4>2, <4>3
    <3> QED
      BY <3>1, <3>2
  <2> QED
    BY <2>2, <2>4, <2>5 DEF w
<1> QED
  BY <1>1, <1>5, <1>6

-----------------------------------------------------------------------------
(* There and back: a byte does not depend on what fills up the group after  *)
(* the digits that write it.                                                *)
Returns(a, b, c, y, z) ==
    LET e == EncodeGroup(a, b, c)
    IN  /\ DecodeGroup(e[1], e[2], y, z)[1] = a
        /\ DecodeGroup(e[1], e[2], e[3], z)[2] = b
        /\ DecodeGroup(e[1], e[2], e[3], e[4])[3] = c

LEMMA GroupReturns ==
    ASSUME NEW a \in Bytes, NEW b \in Bytes, NEW c \in Bytes,
           NEW y \in GroupRange, NEW z \in GroupRange
    PROVE  Returns(a, b, c, y, z)
<1> DEFINE e == EncodeGroup(a, b, c)
<1>1. DecodeGroup(e[1], e[2], y, z)[1] = a
  BY DEF EncodeGroup, DecodeGroup, Bytes, Npos, GroupRange, Digits
<1>2. DecodeGroup(e[1], e[2], e[3], z)[2] = b
  BY DEF EncodeGroup, DecodeGroup, Bytes, Npos, GroupRange, Digits
<1>3. DecodeGroup(e[1], e[2], e[3], e[4])[3] = c
  BY DEF EncodeGroup, DecodeGroup, Bytes, Npos, GroupRange, Digits
<1> QED
  BY <1>1, <1>2, <1>3 DEF Returns

LEMMA DigitInGroup ==
    ASSUME NEW buf, NEW g \in Nat, NEW j \in 1 .. 4
    PROVE  Digit(buf, 4 * g + j) =
             EncodeGroup(Byte(buf, 3 * g + 1), Byte(buf, 3 * g + 2), Byte(buf, 3 * g + 3))[j]
<1> DEFINE n == 4 * g + j
<1>1. (n - 1) \div 4 = g /\ ((n - 1) % 4) + 1 = j
  OBVIOUS
<1> HIDE DEF n
<1>2. Digit(buf, n) = EncodeGroup(Byte(buf, 3 * g + 1), Byte(buf, 3 * g + 2),
                                  Byte(buf, 3 * g + 3))[j]
  BY <1>1 DEF Digit
<1> QED
  BY <1>2 DEF n

LEMMA ByteIsByte ==
    ASSUME NEW buf \in Seq(Bytes), NEW p \in Nat \ {0}
    PROVE  Byte(buf, p) \in Bytes
<1>1. CASE p <= Len(buf)
  <2>1. p \in 1 .. Len(buf)
    BY <1>1, LenProperties
  <2> QED
    BY <1>1, <2>1, ElementOfSeq DEF Byte
<1>2. CASE ~(p <= Len(buf))
  BY <1>2 DEF Byte, Bytes
<1> QED
  BY <1>1, <1>2

LEMMA CodeStops ==
    ASSUME NEW buf \in Seq(Bytes), NEW code, code = base64_encode(buf)
    PROVE  /\ code \in Seq(Chars)
           /\ Count(buf) \in 0 .. Len(code)
           /\ Stops(code, Count(buf))
<1>1. /\ code \in Seq(Chars)
      /\ Count(buf) \in 0 .. Len(code)
      /\ \A j \in 1 .. Count(buf) : code[j] \in Digits
      /\ \A j \in Count(buf) + 1 .. Len(code) : code[j] = Pad
  BY Encoded
<1>2. ASSUME Count(buf) < Len(code)
      PROVE  code[Count(buf) + 1] \notin Digits
  <2>1. Count(buf) + 1 \in Count(buf) + 1 .. Len(code)
    BY <1>1, <1>2, LenProperties
  <2>2. Pad \notin Digits
    BY DEF Pad, Digits
  <2> QED
    BY <1>1, <2>1, <2>2
<1> QED
  BY <1>1, <1>2 DEF Stops

(* What base64_encode writes for any bytes, however many, base64_decode     *)
(* reads back as those bytes (base64.hpp:36-72 against 80-116).             *)
THEOREM AnyBytesReturn ==
    ASSUME NEW buf \in Seq(Bytes)
    PROVE  base64_decode(base64_encode(buf)) = buf
<1> DEFINE code == base64_encode(buf)
           w == Readable(code)
           d == base64_decode(code)
           k == Count(buf)
           L == Len(buf)
<1>1. /\ code \in Seq(Chars) /\ k \in 0 .. Len(code) /\ Stops(code, k)
      /\ \A j \in 1 .. k : code[j] = Digit(buf, j) /\ code[j] \in Digits
  <2>1. /\ code \in Seq(Chars) /\ k \in 0 .. Len(code) /\ Stops(code, k)
    BY CodeStops
  <2>2. \A j \in 1 .. k : code[j] = Digit(buf, j) /\ code[j] \in Digits
    BY Encoded
  <2> HIDE DEF code, k
  <2> QED
    BY <2>1, <2>2
<1>2. L \in Nat /\ k = (8 * L + 5) \div 6 /\ (6 * k) \div 8 = L
  <2>1. L \in Nat
    BY LenProperties
  <2>2. k = (8 * L + 5) \div 6
    BY DEF Count
  <2> HIDE DEF L, k
  <2> QED
    BY <2>1, <2>2
<1> HIDE DEF code
<1>3. /\ d \in Seq(Bytes) /\ Len(d) = (6 * k) \div 8
      /\ \A p \in 1 .. Len(d) : d[p] = ByteAt(w, p)
  <2> HIDE DEF k
  <2> QED
    BY <1>1, Decoded
<1>4. w \in Seq(Digits) /\ Len(w) = k /\ \A j \in 1 .. k : w[j] = code[j]
  <2> HIDE DEF k
  <2> QED
    BY <1>1, ReadableIs
<1> HIDE DEF d, w, k
<1>5. ASSUME NEW p \in 1 .. L
      PROVE  d[p] = buf[p]
  <2> DEFINE g == (p - 1) \div 3
             a == Byte(buf, 3 * g + 1)
             b == Byte(buf, 3 * g + 2)
             c == Byte(buf, 3 * g + 3)
             e == EncodeGroup(a, b, c)
  <2>1. g \in Nat /\ (p - 1) % 3 \in 0 .. 2 /\ p = 3 * g + ((p - 1) % 3) + 1
    <3> HIDE DEF L
    <3> QED
      BY <1>2
  <2> DEFINE r == (p - 1) % 3
  <2>2. a \in Bytes /\ b \in Bytes /\ c \in Bytes
    <3> HIDE DEF g
    <3> QED
      BY <2>1, ByteIsByte
  <2>3. ASSUME NEW j \in 1 .. r + 2
        PROVE  Char(w, 4 * g + j) = e[j]
    <3>1. 4 * g + j \in 1 .. k
      <4>1. p = 3 * g + r + 1 /\ r \in 0 .. 2 /\ p <= L
        BY <1>2, <2>1
      <4> HIDE DEF g, r, L
      <4>2. 4 * g + j <= (8 * L + 5) \div 6
        <5>1. j <= r + 2 /\ L >= 3 * g + r + 1
          BY <1>2, <2>1, <4>1
        <5>2. CASE r = 0
          BY <1>2, <2>1, <5>1, <5>2
        <5>3. CASE r = 1
          BY <1>2, <2>1, <5>1, <5>3
        <5>4. CASE r = 2
          BY <1>2, <2>1, <5>1, <5>4
        <5> QED
          BY <4>1, <5>2, <5>3, <5>4
      <4> QED
        BY <1>2, <2>1, <4>2
    <3>3. Digit(buf, 4 * g + j) = e[j]
      <4>1. j \in 1 .. 4
        <5> HIDE DEF g
        <5> QED
          BY <2>1
      <4> HIDE DEF g
      <4> QED
        BY <2>1, <4>1, DigitInGroup
    <3>4. Char(w, 4 * g + j) = w[4 * g + j]
      <4>1. 4 * g + j <= Len(w)
        BY <1>4, <3>1
      <4> QED
        BY <4>1 DEF Char
    <3> HIDE DEF g, e
    <3> QED
      BY <1>1, <1>4, <3>1, <3>3, <3>4
  <2>4. ASSUME NEW j \in 1 .. 4
        PROVE  Char(w, 4 * g + j) \in GroupRange
    <3>1. CASE 4 * g + j <= Len(w)
      <4>1. 4 * g + j \in 1 .. Len(w)
        <5> HIDE DEF g
        <5> QED
          BY <2>1, <3>1, <1>4
      <4>2. w[4 * g + j] \in Digits
        <5> HIDE DEF g
        <5> QED
          BY <1>4, <4>1, ElementOfSeq
      <4> QED
        BY <3>1, <4>2 DEF Char, GroupRange
    <3>2. CASE ~(4 * g + j <= Len(w))
      BY <3>2 DEF Char, GroupRange
    <3> QED
      BY <3>1, <3>2
  <2>5. ByteAt(w, p) = DecodeGroup(Char(w, 4 * g + 1), Char(w, 4 * g + 2),
                                   Char(w, 4 * g + 3), Char(w, 4 * g + 4))[r + 1]
    BY DEF ByteAt
  <2> DEFINE x1 == Char(w, 4 * g + 1)
             x2 == Char(w, 4 * g + 2)
             x3 == Char(w, 4 * g + 3)
             x4 == Char(w, 4 * g + 4)
  <2>6. /\ x3 \in GroupRange /\ x4 \in GroupRange
        /\ x1 = e[1] /\ x2 = e[2]
        /\ r \in {1, 2} => x3 = e[3]
        /\ r = 2 => x4 = e[4]
    <3>1. /\ 1 \in 1 .. r + 2 /\ 2 \in 1 .. r + 2
          /\ (r \in {1, 2} => 3 \in 1 .. r + 2) /\ (r = 2 => 4 \in 1 .. r + 2)
      <4> HIDE DEF g
      <4> QED
        BY <2>1
    <3> HIDE DEF g, e, r
    <3> QED
      BY <2>3, <2>4, <3>1
  <2>7. /\ DecodeGroup(e[1], e[2], x3, x4)[1] = a
        /\ DecodeGroup(e[1], e[2], e[3], x4)[2] = b
        /\ DecodeGroup(e[1], e[2], e[3], e[4])[3] = c
    <3>1. Returns(a, b, c, x3, x4)
      <4> HIDE DEF a, b, c, x1, x2, x3, x4
      <4> QED
        BY <2>2, <2>6, GroupReturns
    <3> HIDE DEF a, b, c, x1, x2, x3, x4
    <3> QED
      BY <3>1 DEF Returns
  <2>8. ByteAt(w, p) = DecodeGroup(x1, x2, x3, x4)[r + 1]
    BY <2>5
  <2>9. Byte(buf, p) = buf[p]
    BY <1>2 DEF Byte
  <2>10. /\ r = 0 => Byte(buf, p) = a
         /\ r = 1 => Byte(buf, p) = b
         /\ r = 2 => Byte(buf, p) = c
    <3>1. p = 3 * g + r + 1 /\ g \in Nat
      BY <2>1
    <3> HIDE DEF g, r
    <3>2. /\ r = 0 => p = 3 * g + 1
          /\ r = 1 => p = 3 * g + 2
          /\ r = 2 => p = 3 * g + 3
      BY <3>1
    <3> QED
      BY <3>2
  <2>11. r = 0 \/ r = 1 \/ r = 2
    BY <2>1
  <2>12. d[p] = ByteAt(w, p)
    BY <1>2, <1>3
  <2> HIDE DEF x1, x2, x3, x4, e, a, b, c, r, g
  <2>13. CASE r = 0
    BY <2>6, <2>7, <2>8, <2>9, <2>10, <2>12, <2>13
  <2>14. CASE r = 1
    BY <2>6, <2>7, <2>8, <2>9, <2>10, <2>12, <2>14
  <2>15. CASE r = 2
    BY <2>6, <2>7, <2>8, <2>9, <2>10, <2>12, <2>15
  <2> QED
    BY <2>11, <2>13, <2>14, <2>15
<1>6. d = buf
  BY <1>2, <1>3, <1>5, SeqEqual
<1> QED
  BY <1>6 DEF d, code

-----------------------------------------------------------------------------
(* Bits: bit i of a number this wide, the first being the most              *)
(* significant.                                                             *)
BitIn(v, width, i) == (v \div 2 ^ (width - 1 - i)) % 2

DigitBits(v) ==
    /\ BitIn(v, 6, 0) = (v \div 32) % 2 /\ BitIn(v, 6, 1) = (v \div 16) % 2
    /\ BitIn(v, 6, 2) = (v \div 8) % 2 /\ BitIn(v, 6, 3) = (v \div 4) % 2
    /\ BitIn(v, 6, 4) = (v \div 2) % 2 /\ BitIn(v, 6, 5) = v % 2

ByteBits(v) ==
    /\ BitIn(v, 8, 0) = (v \div 128) % 2 /\ BitIn(v, 8, 1) = (v \div 64) % 2
    /\ BitIn(v, 8, 2) = (v \div 32) % 2 /\ BitIn(v, 8, 3) = (v \div 16) % 2
    /\ BitIn(v, 8, 4) = (v \div 8) % 2 /\ BitIn(v, 8, 5) = (v \div 4) % 2
    /\ BitIn(v, 8, 6) = (v \div 2) % 2 /\ BitIn(v, 8, 7) = v % 2

LEMMA BitsOfDigit ==
    ASSUME NEW v \in Nat
    PROVE  DigitBits(v)
<1>1. /\ 6 - 1 - 0 = 5 /\ 6 - 1 - 1 = 4 /\ 6 - 1 - 2 = 3
      /\ 6 - 1 - 3 = 2 /\ 6 - 1 - 4 = 1 /\ 6 - 1 - 5 = 0
  OBVIOUS
<1>2. 2 ^ 5 = 32 /\ 2 ^ 4 = 16 /\ 2 ^ 3 = 8 /\ 2 ^ 2 = 4 /\ 2 ^ 1 = 2 /\ 2 ^ 0 = 1
  OBVIOUS
<1>3. v \div 1 = v
  OBVIOUS
<1> QED
  BY <1>1, <1>2, <1>3 DEF BitIn, DigitBits

LEMMA BitsOfByte ==
    ASSUME NEW v \in Nat
    PROVE  ByteBits(v)
<1>1. /\ 8 - 1 - 0 = 7 /\ 8 - 1 - 1 = 6 /\ 8 - 1 - 2 = 5 /\ 8 - 1 - 3 = 4
      /\ 8 - 1 - 4 = 3 /\ 8 - 1 - 5 = 2 /\ 8 - 1 - 6 = 1 /\ 8 - 1 - 7 = 0
  OBVIOUS
<1>2. /\ 2 ^ 7 = 128 /\ 2 ^ 6 = 64 /\ 2 ^ 5 = 32 /\ 2 ^ 4 = 16
      /\ 2 ^ 3 = 8 /\ 2 ^ 2 = 4 /\ 2 ^ 1 = 2 /\ 2 ^ 0 = 1
  OBVIOUS
<1>3. v \div 1 = v
  OBVIOUS
<1> QED
  BY <1>1, <1>2, <1>3 DEF BitIn, ByteBits

(* The first byte of a group has all bits of its first digit and two of     *)
(* its second, ...                                                          *)
FirstBits(v, x, y) ==
    /\ BitIn(v, 8, 0) = BitIn(x, 6, 0) /\ BitIn(v, 8, 1) = BitIn(x, 6, 1)
    /\ BitIn(v, 8, 2) = BitIn(x, 6, 2) /\ BitIn(v, 8, 3) = BitIn(x, 6, 3)
    /\ BitIn(v, 8, 4) = BitIn(x, 6, 4) /\ BitIn(v, 8, 5) = BitIn(x, 6, 5)
    /\ BitIn(v, 8, 6) = BitIn(y, 6, 0) /\ BitIn(v, 8, 7) = BitIn(y, 6, 1)

LEMMA FirstByteBits ==
    ASSUME NEW x \in Digits, NEW y \in Digits, NEW v, v = x * 4 + y \div 16
    PROVE  FirstBits(v, x, y)
<1>1. v \in Nat /\ x \in Nat /\ y \in Nat
  BY DEF Digits
<1>2. (v \div 128) % 2 = (x \div 32) % 2
  BY DEF Digits
<1>3. (v \div 64) % 2 = (x \div 16) % 2
  BY DEF Digits
<1>4. (v \div 32) % 2 = (x \div 8) % 2
  BY DEF Digits
<1>5. (v \div 16) % 2 = (x \div 4) % 2
  BY DEF Digits
<1>6. (v \div 8) % 2 = (x \div 2) % 2
  BY DEF Digits
<1>7. (v \div 4) % 2 = x % 2
  BY DEF Digits
<1>8. (v \div 2) % 2 = (y \div 32) % 2
  BY DEF Digits
<1>9. v % 2 = (y \div 16) % 2
  BY DEF Digits
<1>10. ByteBits(v)
  BY <1>1, BitsOfByte
<1>11. DigitBits(x)
  BY <1>1, BitsOfDigit
<1>12. DigitBits(y)
  BY <1>1, BitsOfDigit
<1>13. BitIn(v, 8, 0) = BitIn(x, 6, 0)
  BY <1>2, <1>10, <1>11, Zenon DEF ByteBits, DigitBits
<1>14. BitIn(v, 8, 1) = BitIn(x, 6, 1)
  BY <1>3, <1>10, <1>11, Zenon DEF ByteBits, DigitBits
<1>15. BitIn(v, 8, 2) = BitIn(x, 6, 2)
  BY <1>4, <1>10, <1>11, Zenon DEF ByteBits, DigitBits
<1>16. BitIn(v, 8, 3) = BitIn(x, 6, 3)
  BY <1>5, <1>10, <1>11, Zenon DEF ByteBits, DigitBits
<1>17. BitIn(v, 8, 4) = BitIn(x, 6, 4)
  BY <1>6, <1>10, <1>11, Zenon DEF ByteBits, DigitBits
<1>18. BitIn(v, 8, 5) = BitIn(x, 6, 5)
  BY <1>7, <1>10, <1>11, Zenon DEF ByteBits, DigitBits
<1>19. BitIn(v, 8, 6) = BitIn(y, 6, 0)
  BY <1>8, <1>10, <1>12, Zenon DEF ByteBits, DigitBits
<1>20. BitIn(v, 8, 7) = BitIn(y, 6, 1)
  BY <1>9, <1>10, <1>12, Zenon DEF ByteBits, DigitBits
<1> QED
  BY <1>13, <1>14, <1>15, <1>16, <1>17, <1>18, <1>19, <1>20, Zenon DEF FirstBits

(* ... the second byte four of the second digit and four of the third, ...  *)
SecondBits(v, x, y) ==
    /\ BitIn(v, 8, 0) = BitIn(x, 6, 2) /\ BitIn(v, 8, 1) = BitIn(x, 6, 3)
    /\ BitIn(v, 8, 2) = BitIn(x, 6, 4) /\ BitIn(v, 8, 3) = BitIn(x, 6, 5)
    /\ BitIn(v, 8, 4) = BitIn(y, 6, 0) /\ BitIn(v, 8, 5) = BitIn(y, 6, 1)
    /\ BitIn(v, 8, 6) = BitIn(y, 6, 2) /\ BitIn(v, 8, 7) = BitIn(y, 6, 3)

LEMMA SecondByteBits ==
    ASSUME NEW x \in Digits, NEW y \in Digits, NEW v, v = (x % 16) * 16 + y \div 4
    PROVE  SecondBits(v, x, y)
<1>1. v \in Nat /\ x \in Nat /\ y \in Nat
  BY DEF Digits
<1>2. (v \div 128) % 2 = (x \div 8) % 2
  BY DEF Digits
<1>3. (v \div 64) % 2 = (x \div 4) % 2
  BY DEF Digits
<1>4. (v \div 32) % 2 = (x \div 2) % 2
  BY DEF Digits
<1>5. (v \div 16) % 2 = x % 2
  BY DEF Digits
<1>6. (v \div 8) % 2 = (y \div 32) % 2
  BY DEF Digits
<1>7. (v \div 4) % 2 = (y \div 16) % 2
  BY DEF Digits
<1>8. (v \div 2) % 2 = (y \div 8) % 2
  BY DEF Digits
<1>9. v % 2 = (y \div 4) % 2
  BY DEF Digits
<1>10. ByteBits(v)
  BY <1>1, BitsOfByte
<1>11. DigitBits(x)
  BY <1>1, BitsOfDigit
<1>12. DigitBits(y)
  BY <1>1, BitsOfDigit
<1>13. BitIn(v, 8, 0) = BitIn(x, 6, 2)
  BY <1>2, <1>10, <1>11, Zenon DEF ByteBits, DigitBits
<1>14. BitIn(v, 8, 1) = BitIn(x, 6, 3)
  BY <1>3, <1>10, <1>11, Zenon DEF ByteBits, DigitBits
<1>15. BitIn(v, 8, 2) = BitIn(x, 6, 4)
  BY <1>4, <1>10, <1>11, Zenon DEF ByteBits, DigitBits
<1>16. BitIn(v, 8, 3) = BitIn(x, 6, 5)
  BY <1>5, <1>10, <1>11, Zenon DEF ByteBits, DigitBits
<1>17. BitIn(v, 8, 4) = BitIn(y, 6, 0)
  BY <1>6, <1>10, <1>12, Zenon DEF ByteBits, DigitBits
<1>18. BitIn(v, 8, 5) = BitIn(y, 6, 1)
  BY <1>7, <1>10, <1>12, Zenon DEF ByteBits, DigitBits
<1>19. BitIn(v, 8, 6) = BitIn(y, 6, 2)
  BY <1>8, <1>10, <1>12, Zenon DEF ByteBits, DigitBits
<1>20. BitIn(v, 8, 7) = BitIn(y, 6, 3)
  BY <1>9, <1>10, <1>12, Zenon DEF ByteBits, DigitBits
<1> QED
  BY <1>13, <1>14, <1>15, <1>16, <1>17, <1>18, <1>19, <1>20, Zenon DEF SecondBits

(* ... and the third byte two of the third digit and all of the fourth.     *)
ThirdBits(v, x, y) ==
    /\ BitIn(v, 8, 0) = BitIn(x, 6, 4) /\ BitIn(v, 8, 1) = BitIn(x, 6, 5)
    /\ BitIn(v, 8, 2) = BitIn(y, 6, 0) /\ BitIn(v, 8, 3) = BitIn(y, 6, 1)
    /\ BitIn(v, 8, 4) = BitIn(y, 6, 2) /\ BitIn(v, 8, 5) = BitIn(y, 6, 3)
    /\ BitIn(v, 8, 6) = BitIn(y, 6, 4) /\ BitIn(v, 8, 7) = BitIn(y, 6, 5)

LEMMA ThirdByteBits ==
    ASSUME NEW x \in Digits, NEW y \in Digits, NEW v, v = (x % 4) * 64 + y
    PROVE  ThirdBits(v, x, y)
<1>1. v \in Nat /\ x \in Nat /\ y \in Nat
  BY DEF Digits
<1>2. (v \div 128) % 2 = (x \div 2) % 2
  BY DEF Digits
<1>3. (v \div 64) % 2 = x % 2
  BY DEF Digits
<1>4. (v \div 32) % 2 = (y \div 32) % 2
  BY DEF Digits
<1>5. (v \div 16) % 2 = (y \div 16) % 2
  BY DEF Digits
<1>6. (v \div 8) % 2 = (y \div 8) % 2
  BY DEF Digits
<1>7. (v \div 4) % 2 = (y \div 4) % 2
  BY DEF Digits
<1>8. (v \div 2) % 2 = (y \div 2) % 2
  BY DEF Digits
<1>9. v % 2 = y % 2
  BY DEF Digits
<1>10. ByteBits(v)
  BY <1>1, BitsOfByte
<1>11. DigitBits(x)
  BY <1>1, BitsOfDigit
<1>12. DigitBits(y)
  BY <1>1, BitsOfDigit
<1>13. BitIn(v, 8, 0) = BitIn(x, 6, 4)
  BY <1>2, <1>10, <1>11, Zenon DEF ByteBits, DigitBits
<1>14. BitIn(v, 8, 1) = BitIn(x, 6, 5)
  BY <1>3, <1>10, <1>11, Zenon DEF ByteBits, DigitBits
<1>15. BitIn(v, 8, 2) = BitIn(y, 6, 0)
  BY <1>4, <1>10, <1>12, Zenon DEF ByteBits, DigitBits
<1>16. BitIn(v, 8, 3) = BitIn(y, 6, 1)
  BY <1>5, <1>10, <1>12, Zenon DEF ByteBits, DigitBits
<1>17. BitIn(v, 8, 4) = BitIn(y, 6, 2)
  BY <1>6, <1>10, <1>12, Zenon DEF ByteBits, DigitBits
<1>18. BitIn(v, 8, 5) = BitIn(y, 6, 3)
  BY <1>7, <1>10, <1>12, Zenon DEF ByteBits, DigitBits
<1>19. BitIn(v, 8, 6) = BitIn(y, 6, 4)
  BY <1>8, <1>10, <1>12, Zenon DEF ByteBits, DigitBits
<1>20. BitIn(v, 8, 7) = BitIn(y, 6, 5)
  BY <1>9, <1>10, <1>12, Zenon DEF ByteBits, DigitBits
<1> QED
  BY <1>13, <1>14, <1>15, <1>16, <1>17, <1>18, <1>19, <1>20, Zenon DEF ThirdBits

(* The digits s write v as their p-th byte, ...                             *)
Writes(s, v, p) ==
    LET g == (p - 1) \div 3
        r == (p - 1) % 3
    IN  /\ s[4 * g + r + 1] \in Digits /\ s[4 * g + r + 2] \in Digits
        /\ r = 0 => v = s[4 * g + 1] * 4 + s[4 * g + 2] \div 16
        /\ r = 1 => v = (s[4 * g + 2] % 16) * 16 + s[4 * g + 3] \div 4
        /\ r = 2 => v = (s[4 * g + 3] % 4) * 64 + s[4 * g + 4]

(* ... which has the bits that they have, one after the other.              *)
SameBit(s, v, i, j) == BitIn(v, 8, i) = BitIn(s[j \div 6 + 1], 6, j % 6)

LEMMA WritesBits ==
    ASSUME NEW s, NEW p \in Nat \ {0}, NEW v, Writes(s, v, p), NEW i \in 0 .. 7,
           NEW j, j = 8 * (p - 1) + i
    PROVE  SameBit(s, v, i, j)
<1> DEFINE g == (p - 1) \div 3
           r == (p - 1) % 3
           x == s[4 * g + r + 1]
           y == s[4 * g + r + 2]
<1>1. g \in Nat /\ r \in 0 .. 2 /\ p = 3 * g + r + 1
  OBVIOUS
<1>2. /\ x \in Digits /\ y \in Digits
      /\ r = 0 => v = x * 4 + y \div 16
      /\ r = 1 => v = (x % 16) * 16 + y \div 4
      /\ r = 2 => v = (x % 4) * 64 + y
  <2>1. /\ s[4 * g + r + 1] \in Digits /\ s[4 * g + r + 2] \in Digits
        /\ r = 0 => v = s[4 * g + 1] * 4 + s[4 * g + 2] \div 16
        /\ r = 1 => v = (s[4 * g + 2] % 16) * 16 + s[4 * g + 3] \div 4
        /\ r = 2 => v = (s[4 * g + 3] % 4) * 64 + s[4 * g + 4]
    BY Zenon DEF Writes
  <2> HIDE DEF g, r
  <2>2. /\ r = 0 => 4 * g + r + 1 = 4 * g + 1 /\ 4 * g + r + 2 = 4 * g + 2
        /\ r = 1 => 4 * g + r + 1 = 4 * g + 2 /\ 4 * g + r + 2 = 4 * g + 3
        /\ r = 2 => 4 * g + r + 1 = 4 * g + 3 /\ 4 * g + r + 2 = 4 * g + 4
    BY <1>1
  <2> QED
    BY <2>1, <2>2
<1>3. j = 24 * g + 8 * r + i
  BY <1>1
<1> HIDE DEF g, r
<1>4. ASSUME NEW q \in Nat, NEW h \in 0 .. 5, 8 * r + i = 6 * q + h
      PROVE  j \div 6 + 1 = 4 * g + q + 1 /\ j % 6 = h
  <2>1. j = 6 * (4 * g + q) + h /\ 4 * g + q \in Nat
    BY <1>1, <1>3, <1>4
  <2> DEFINE m == 4 * g + q
  <2> HIDE DEF m
  <2>2. j = 6 * m + h /\ m \in Nat
    BY <2>1 DEF m
  <2>3. j \div 6 = m /\ j % 6 = h
    BY <2>2
  <2> QED
    BY <1>1, <2>3 DEF m
<1>5. CASE r = 0
  <2>1. FirstBits(v, x, y)
    <3> HIDE DEF x, y
    <3> QED
      BY <1>2, <1>5, FirstByteBits
  <2>2. x = s[4 * g + 0 + 1] /\ y = s[4 * g + 1 + 1]
    BY <1>1, <1>5
  <2> HIDE DEF x, y
  <2>3. CASE i \in 0 .. 5
    <3>1. s[j \div 6 + 1] = x /\ j % 6 = i
      BY <1>4, <1>5, <2>2, <2>3
    <3>2. BitIn(v, 8, i) = BitIn(x, 6, i)
      BY <2>1, <2>3 DEF FirstBits
    <3> QED
      BY <3>1, <3>2 DEF SameBit
  <2>4. CASE i \in 6 .. 7
    <3>1. s[j \div 6 + 1] = y /\ j % 6 = i - 6
      <4>1. i - 6 \in 0 .. 5 /\ 8 * r + i = 6 * 1 + (i - 6)
        BY <1>5, <2>4
      <4> QED
        BY <1>4, <2>2, <4>1
    <3>2. BitIn(v, 8, i) = BitIn(y, 6, i - 6)
      BY <2>1, <2>4 DEF FirstBits
    <3> QED
      BY <3>1, <3>2 DEF SameBit
  <2> QED
    BY <2>3, <2>4
<1>6. CASE r = 1
  <2>1. SecondBits(v, x, y)
    <3> HIDE DEF x, y
    <3> QED
      BY <1>2, <1>6, SecondByteBits
  <2>2. x = s[4 * g + 1 + 1] /\ y = s[4 * g + 2 + 1]
    BY <1>1, <1>6
  <2> HIDE DEF x, y
  <2>3. CASE i \in 0 .. 3
    <3>1. s[j \div 6 + 1] = x /\ j % 6 = i + 2
      <4>1. i + 2 \in 0 .. 5 /\ 8 * r + i = 6 * 1 + (i + 2)
        BY <1>6, <2>3
      <4> QED
        BY <1>4, <2>2, <4>1
    <3>2. BitIn(v, 8, i) = BitIn(x, 6, i + 2)
      BY <2>1, <2>3 DEF SecondBits
    <3> QED
      BY <3>1, <3>2 DEF SameBit
  <2>4. CASE i \in 4 .. 7
    <3>1. s[j \div 6 + 1] = y /\ j % 6 = i - 4
      <4>1. i - 4 \in 0 .. 5 /\ 8 * r + i = 6 * 2 + (i - 4)
        BY <1>6, <2>4
      <4> QED
        BY <1>4, <2>2, <4>1
    <3>2. BitIn(v, 8, i) = BitIn(y, 6, i - 4)
      BY <2>1, <2>4 DEF SecondBits
    <3> QED
      BY <3>1, <3>2 DEF SameBit
  <2> QED
    BY <2>3, <2>4
<1>7. CASE r = 2
  <2>1. ThirdBits(v, x, y)
    <3> HIDE DEF x, y
    <3> QED
      BY <1>2, <1>7, ThirdByteBits
  <2>2. x = s[4 * g + 2 + 1] /\ y = s[4 * g + 3 + 1]
    BY <1>1, <1>7
  <2> HIDE DEF x, y
  <2>3. CASE i \in 0 .. 1
    <3>1. s[j \div 6 + 1] = x /\ j % 6 = i + 4
      <4>1. i + 4 \in 0 .. 5 /\ 8 * r + i = 6 * 2 + (i + 4)
        BY <1>7, <2>3
      <4> QED
        BY <1>4, <2>2, <4>1
    <3>2. BitIn(v, 8, i) = BitIn(x, 6, i + 4)
      BY <2>1, <2>3 DEF ThirdBits
    <3> QED
      BY <3>1, <3>2 DEF SameBit
  <2>4. CASE i \in 2 .. 7
    <3>1. s[j \div 6 + 1] = y /\ j % 6 = i - 2
      <4>1. i - 2 \in 0 .. 5 /\ 8 * r + i = 6 * 3 + (i - 2)
        BY <1>7, <2>4
      <4> QED
        BY <1>4, <2>2, <4>1
    <3>2. BitIn(v, 8, i) = BitIn(y, 6, i - 2)
      BY <2>1, <2>4 DEF ThirdBits
    <3> QED
      BY <3>1, <3>2 DEF SameBit
  <2> QED
    BY <2>3, <2>4
<1> QED
  BY <1>1, <1>5, <1>6, <1>7

LEMMA DigitsOfBytes ==
    ASSUME NEW a \in Bytes, NEW b \in Bytes, NEW c \in Bytes,
           NEW x1, x1 = a \div 4, NEW x2, x2 = (a % 4) * 16 + b \div 16,
           NEW x3, x3 = (b % 16) * 4 + c \div 64, NEW x4, x4 = c % 64
    PROVE  /\ x1 \in Digits /\ x2 \in Digits /\ x3 \in Digits /\ x4 \in Digits
           /\ a = x1 * 4 + x2 \div 16 /\ b = (x2 % 16) * 16 + x3 \div 4 /\ c = (x3 % 4) * 64 + x4
<1>1. x1 \in Digits /\ x2 \in Digits
  BY DEF Bytes, Digits
<1>2. x3 \in Digits /\ x4 \in Digits
  BY DEF Bytes, Digits
<1>3. a = x1 * 4 + x2 \div 16
  BY DEF Bytes
<1>4. b = (x2 % 16) * 16 + x3 \div 4
  BY DEF Bytes
<1>5. c = (x3 % 4) * 64 + x4
  BY DEF Bytes
<1> QED
  BY <1>1, <1>2, <1>3, <1>4, <1>5

LEMMA WithinByte ==
    ASSUME NEW x \in Digits, NEW y \in Digits
    PROVE  /\ (x * 4 + (y % 64) \div 16) % 256 = x * 4 + y \div 16
           /\ ((x % 16) * 16 + (y % 64) \div 4) % 256 = (x % 16) * 16 + y \div 4
           /\ ((x % 4) * 64 + y) % 256 = (x % 4) * 64 + y
<1>1. (x * 4 + (y % 64) \div 16) % 256 = x * 4 + y \div 16
  BY DEF Digits
<1>2. ((x % 16) * 16 + (y % 64) \div 4) % 256 = (x % 16) * 16 + y \div 4
  BY DEF Digits
<1>3. ((x % 4) * 64 + y) % 256 = (x % 4) * 64 + y
  BY DEF Digits
<1> QED
  BY <1>1, <1>2, <1>3

LEMMA EncodeWrites ==
    ASSUME NEW buf \in Seq(Bytes), NEW p \in Nat \ {0},
           NEW s, s = [q \in Nat \ {0} |-> Digit(buf, q)]
    PROVE  Writes(s, Byte(buf, p), p)
<1> DEFINE g == (p - 1) \div 3
           r == (p - 1) % 3
           a == Byte(buf, 3 * g + 1)
           b == Byte(buf, 3 * g + 2)
           c == Byte(buf, 3 * g + 3)
           e == EncodeGroup(a, b, c)
<1>1. g \in Nat /\ r \in 0 .. 2 /\ p = 3 * g + r + 1
  OBVIOUS
<1>2. a \in Bytes /\ b \in Bytes /\ c \in Bytes
  <2> HIDE DEF g
  <2> QED
    BY <1>1, ByteIsByte
<1>3. ASSUME NEW j \in 1 .. 4
      PROVE  s[4 * g + j] = e[j]
  <2> HIDE DEF g
  <2>1. 4 * g + j \in Nat \ {0}
    BY <1>1
  <2>2. Digit(buf, 4 * g + j) = e[j]
    BY <1>1, DigitInGroup
  <2> HIDE DEF e
  <2> QED
    BY <2>1, <2>2
<1> HIDE DEF g, r
<1>4. /\ s[4 * g + 1] = a \div 4 /\ s[4 * g + 2] = (a % 4) * 16 + b \div 16
      /\ s[4 * g + 3] = (b % 16) * 4 + c \div 64 /\ s[4 * g + 4] = c % 64
  <2> HIDE DEF a, b, c
  <2> QED
    BY <1>3 DEF EncodeGroup
<1> DEFINE x1 == s[4 * g + 1]
           x2 == s[4 * g + 2]
           x3 == s[4 * g + 3]
           x4 == s[4 * g + 4]
<1>5. /\ x1 \in Digits /\ x2 \in Digits /\ x3 \in Digits /\ x4 \in Digits
      /\ a = x1 * 4 + x2 \div 16 /\ b = (x2 % 16) * 16 + x3 \div 4 /\ c = (x3 % 4) * 64 + x4
  <2> HIDE DEF a, b, c, x1, x2, x3, x4
  <2>1. /\ x1 = a \div 4 /\ x2 = (a % 4) * 16 + b \div 16
        /\ x3 = (b % 16) * 4 + c \div 64 /\ x4 = c % 64
    BY <1>4 DEF x1, x2, x3, x4
  <2> QED
    BY <1>2, <2>1, DigitsOfBytes
<1>6. /\ r = 0 => Byte(buf, p) = a /\ 4 * g + r + 1 = 4 * g + 1 /\ 4 * g + r + 2 = 4 * g + 2
      /\ r = 1 => Byte(buf, p) = b /\ 4 * g + r + 1 = 4 * g + 2 /\ 4 * g + r + 2 = 4 * g + 3
      /\ r = 2 => Byte(buf, p) = c /\ 4 * g + r + 1 = 4 * g + 3 /\ 4 * g + r + 2 = 4 * g + 4
  <2>1. /\ r = 0 => p = 3 * g + 1 /\ 4 * g + r + 1 = 4 * g + 1 /\ 4 * g + r + 2 = 4 * g + 2
        /\ r = 1 => p = 3 * g + 2 /\ 4 * g + r + 1 = 4 * g + 2 /\ 4 * g + r + 2 = 4 * g + 3
        /\ r = 2 => p = 3 * g + 3 /\ 4 * g + r + 1 = 4 * g + 3 /\ 4 * g + r + 2 = 4 * g + 4
    BY <1>1
  <2> QED
    BY <2>1
<1>7. r = 0 \/ r = 1 \/ r = 2
  BY <1>1
<1> DEFINE v == Byte(buf, p)
<1>8. /\ s[4 * g + r + 1] \in Digits /\ s[4 * g + r + 2] \in Digits
      /\ r = 0 => v = s[4 * g + 1] * 4 + s[4 * g + 2] \div 16
      /\ r = 1 => v = (s[4 * g + 2] % 16) * 16 + s[4 * g + 3] \div 4
      /\ r = 2 => v = (s[4 * g + 3] % 4) * 64 + s[4 * g + 4]
  <2> HIDE DEF a, b, c, v
  <2> QED
    BY <1>5, <1>6, <1>7 DEF v
<1> QED
  BY <1>8, Zenon DEF Writes, g, r

LEMMA DecodeWrites ==
    ASSUME NEW w \in Seq(Digits), NEW p \in 1 .. (6 * Len(w)) \div 8
    PROVE  Writes(w, ByteAt(w, p), p)
<1> DEFINE g == (p - 1) \div 3
           r == (p - 1) % 3
           k == Len(w)
<1>0. k \in Nat
  BY LenProperties
<1>1. g \in Nat /\ r \in 0 .. 2 /\ p = 3 * g + r + 1 /\ p \in Nat
  <2> HIDE DEF k
  <2> QED
    BY <1>0
<1>2. 4 * g + r + 2 <= k
  <2> HIDE DEF g, r, k
  <2>1. 8 * p <= 6 * k
    BY <1>0, <1>1 DEF k
  <2>2. 24 * g + 8 * r + 8 <= 6 * k
    BY <1>0, <1>1, <2>1
  <2>3. CASE r = 0
    BY <1>0, <1>1, <2>2, <2>3
  <2>4. CASE r = 1
    BY <1>0, <1>1, <2>2, <2>4
  <2>5. CASE r = 2
    BY <1>0, <1>1, <2>2, <2>5
  <2> QED
    BY <1>1, <2>3, <2>4, <2>5
<1> HIDE DEF g, r
<1>3. ASSUME NEW j \in 1 .. r + 2
      PROVE  Char(w, 4 * g + j) = w[4 * g + j] /\ w[4 * g + j] \in Digits
  <2>1. 4 * g + j \in 1 .. k /\ 4 * g + j <= Len(w)
    <3>1. k = Len(w)
      OBVIOUS
    <3> HIDE DEF k
    <3> QED
      BY <1>0, <1>1, <1>2, <3>1
  <2> QED
    BY <2>1, ElementOfSeq DEF Char
<1> DEFINE x1 == Char(w, 4 * g + 1)
           x2 == Char(w, 4 * g + 2)
           x3 == Char(w, 4 * g + 3)
           x4 == Char(w, 4 * g + 4)
           v == ByteAt(w, p)
<1>4. v = DecodeGroup(x1, x2, x3, x4)[r + 1]
  BY Zenon DEF ByteAt, g, r
<1> HIDE DEF k, x1, x2, x3, x4, v
<1>5. /\ x1 = w[4 * g + 1] /\ x2 = w[4 * g + 2] /\ x1 \in Digits /\ x2 \in Digits
      /\ r \in {1, 2} => x3 = w[4 * g + 3] /\ x3 \in Digits
      /\ r = 2 => x4 = w[4 * g + 4] /\ x4 \in Digits
  <2>1. /\ 1 \in 1 .. r + 2 /\ 2 \in 1 .. r + 2
        /\ (r \in {1, 2} => 3 \in 1 .. r + 2) /\ (r = 2 => 4 \in 1 .. r + 2)
    BY <1>1
  <2> QED
    BY <1>3, <2>1 DEF x1, x2, x3, x4
<1>6. /\ r = 0 => v = x1 * 4 + x2 \div 16
      /\ r = 1 => v = (x2 % 16) * 16 + x3 \div 4
      /\ r = 2 => v = (x3 % 4) * 64 + x4
  <2>1. CASE r = 0
    <3>1. v = (x1 * 4 + (x2 % 64) \div 16) % 256
      BY <1>4, <2>1 DEF DecodeGroup
    <3>2. x1 \in Digits /\ x2 \in Digits
      BY <1>5, <2>1
    <3> QED
      BY <2>1, <3>1, <3>2, WithinByte
  <2>2. CASE r = 1
    <3>1. v = ((x2 % 16) * 16 + (x3 % 64) \div 4) % 256
      BY <1>4, <2>2 DEF DecodeGroup
    <3>2. x2 \in Digits /\ x3 \in Digits
      BY <1>5, <2>2
    <3> QED
      BY <2>2, <3>1, <3>2, WithinByte
  <2>3. CASE r = 2
    <3>1. v = ((x3 % 4) * 64 + x4) % 256
      BY <1>4, <2>3 DEF DecodeGroup
    <3>2. x3 \in Digits /\ x4 \in Digits
      BY <1>5, <2>3
    <3> QED
      BY <2>3, <3>1, <3>2, WithinByte
  <2> QED
    BY <1>1, <2>1, <2>2, <2>3
<1>7. w[4 * g + r + 1] \in Digits /\ w[4 * g + r + 2] \in Digits
  <2>1. r + 1 \in 1 .. r + 2 /\ r + 2 \in 1 .. r + 2 /\ 4 * g + r + 1 = 4 * g + (r + 1)
        /\ 4 * g + r + 2 = 4 * g + (r + 2)
    BY <1>1
  <2>2. w[4 * g + (r + 1)] \in Digits /\ w[4 * g + (r + 2)] \in Digits
    BY <1>3, <2>1
  <2> QED
    BY <2>1, <2>2
<1>8. /\ w[4 * g + r + 1] \in Digits /\ w[4 * g + r + 2] \in Digits
      /\ r = 0 => v = w[4 * g + 1] * 4 + w[4 * g + 2] \div 16
      /\ r = 1 => v = (w[4 * g + 2] % 16) * 16 + w[4 * g + 3] \div 4
      /\ r = 2 => v = (w[4 * g + 3] % 4) * 64 + w[4 * g + 4]
  BY <1>5, <1>6, <1>7
<1> QED
  BY <1>8, Zenon DEF Writes, g, r, v

-----------------------------------------------------------------------------
(* Every text has a first character that is no digit, or none.              *)
LEMMA SomewhereStops ==
    ASSUME NEW s \in Seq(Chars)
    PROVE  \E k \in 0 .. Len(s) : Stops(s, k)
<1> DEFINE l == Len(s)
           D(j) == \A m \in 1 .. j : s[m] \in Digits
           T == {j \in Nat : j <= l => D(j) \/ \E k \in 0 .. l : Stops(s, k)}
<1>1. l \in Nat
  BY LenProperties
<1>2. 0 \in T
  OBVIOUS
<1>3. ASSUME NEW j \in Nat, j \in T
      PROVE  j + 1 \in T
  <2>1. SUFFICES ASSUME j + 1 <= l, D(j)
                 PROVE  D(j + 1) \/ \E k \in 0 .. l : Stops(s, k)
    BY <1>1, <1>3
  <2>2. CASE s[j + 1] \in Digits
    <3>1. \A m \in 1 .. j + 1 : m \in 1 .. j \/ m = j + 1
      OBVIOUS
    <3> QED
      BY <2>1, <2>2, <3>1
  <2>3. CASE s[j + 1] \notin Digits
    <3>1. j \in 0 .. l
      BY <1>1, <2>1
    <3>2. Stops(s, j)
      BY <2>1, <2>3 DEF Stops
    <3> QED
      BY <3>1, <3>2
  <2> QED
    BY <2>2, <2>3
<1>4. Nat \subseteq T
  <2> HIDE DEF T
  <2> QED
    BY <1>2, <1>3, NumberInduction
<1>5. D(l) \/ \E k \in 0 .. l : Stops(s, k)
  <2> HIDE DEF D
  <2>1. l \in T
    BY <1>1, <1>4
  <2> HIDE DEF l
  <2> QED
    BY <1>1, <2>1
<1>6. D(l) => Stops(s, l)
  BY <1>1 DEF Stops
<1>7. l \in 0 .. l
  BY <1>1
<1> QED
  BY <1>5, <1>6, <1>7

(* What holds of the variables in every state.                              *)
Typed == data \in Seq(Bytes) /\ text \in Seq(Chars)

LEMMA AlwaysTyped == Spec => []Typed
<1>1. Init => Typed
  BY EmptySeq DEF Init, Typed
<1>2. Typed /\ [Next]_vars => Typed'
  <2> SUFFICES ASSUME Typed, [Next]_vars
               PROVE  Typed'
    OBVIOUS
  <2>1. CASE UNCHANGED vars
    BY <2>1 DEF Typed, vars
  <2>2. ASSUME NEW b \in Samples, data' = Append(data, b), UNCHANGED text
        PROVE  Typed'
    <3>1. b \in Bytes
      BY SamplesOK
    <3> QED
      BY <2>2, <3>1, AppendProperties DEF Typed
  <2>3. ASSUME NEW ch \in Texts, text' = Append(text, ch), UNCHANGED data
        PROVE  Typed'
    <3>1. ch \in Chars
      BY SamplesOK
    <3> QED
      BY <2>3, <3>1, AppendProperties DEF Typed
  <2> QED
    BY <2>1, <2>2, <2>3 DEF Next
<1> QED
  BY <1>1, <1>2, PTL DEF Spec

(* What one client or the server encodes, the other decodes, for inputs of  *)
(* every length and not only up to the bound of the run (base64.hpp:57-72   *)
(* against 104-116).                                                        *)
THEOREM AlwaysRoundTrip == Spec => []RoundTrip
<1>1. Typed => RoundTrip
  BY AnyBytesReturn DEF Typed, RoundTrip
<1> QED
  BY <1>1, AlwaysTyped, PTL

LEMMA StandardBits ==
    ASSUME NEW buf \in Seq(Bytes), NEW s, Len(s) = Count(buf),
           \A q \in 1 .. Count(buf) : s[q] = Digit(buf, q),
           NEW j \in 0 .. 6 * Count(buf) - 1
    PROVE  Bit(s, 6, j) = IF j < 8 * Len(buf) THEN Bit(buf, 8, j) ELSE 0
<1> DEFINE z == [q \in Nat \ {0} |-> Digit(buf, q)]
           p == j \div 8 + 1
           i == j % 8
           k == Count(buf)
           L == Len(buf)
<1>0. k \in Nat /\ L \in Nat
  <2>1. L \in Nat
    BY LenProperties
  <2>2. k = (8 * L + 5) \div 6
    BY DEF Count
  <2> HIDE DEF L, k
  <2> QED
    BY <2>1, <2>2
<1>1. p \in Nat \ {0} /\ i \in 0 .. 7 /\ j = 8 * (p - 1) + i /\ j \in Nat
  <2> HIDE DEF k
  <2> QED
    BY <1>0
<1>2. Writes(z, Byte(buf, p), p)
  <2>1. \A y : y = z => Writes(y, Byte(buf, p), p)
    <3> HIDE DEF p
    <3> QED
      BY <1>1, EncodeWrites DEF z
  <2> QED
    BY <2>1
<1>3. BitIn(Byte(buf, p), 8, i) = BitIn(z[j \div 6 + 1], 6, j % 6)
  <2> HIDE DEF z, p, i
  <2>1. SameBit(z, Byte(buf, p), i, j)
    BY <1>1, <1>2, WritesBits
  <2> QED
    BY <2>1, Zenon DEF SameBit
<1>4. z[j \div 6 + 1] = s[j \div 6 + 1]
  <2>1. j \div 6 + 1 \in 1 .. k /\ j \div 6 + 1 \in Nat \ {0}
    <3>1. j \in 0 .. 6 * k - 1
      OBVIOUS
    <3> HIDE DEF k
    <3> QED
      BY <1>0, <3>1
  <2> DEFINE q == j \div 6 + 1
  <2> HIDE DEF q
  <2>2. q \in 1 .. k /\ q \in Nat \ {0}
    BY <2>1 DEF q
  <2>3. z[q] = s[q]
    BY <2>2
  <2> QED
    BY <2>3 DEF q
<1>5. Bit(s, 6, j) = BitIn(Byte(buf, p), 8, i)
  BY <1>3, <1>4, Zenon DEF Bit, BitIn
<1>6. CASE j < 8 * L
  <2>1. Byte(buf, p) = buf[p]
    <3>1. p <= L
      <4> HIDE DEF L
      <4> QED
        BY <1>0, <1>6
    <3> QED
      BY <3>1 DEF Byte
  <2>2. Bit(buf, 8, j) = BitIn(buf[p], 8, i)
    BY Zenon DEF Bit, BitIn
  <2> HIDE DEF p, i
  <2> QED
    BY <1>5, <1>6, <2>1, <2>2
<1>7. CASE ~(j < 8 * L)
  <2>1. ~(p <= L)
    <3> HIDE DEF L
    <3> QED
      BY <1>0, <1>7
  <2>2. Byte(buf, p) = 0
    BY <2>1 DEF Byte
  <2>3. BitIn(0, 8, i) = 0
    <3>1. 0 \in Nat
      OBVIOUS
    <3>2. ByteBits(0)
      BY <3>1, BitsOfByte
    <3>3. /\ BitIn(0, 8, 0) = 0 /\ BitIn(0, 8, 1) = 0 /\ BitIn(0, 8, 2) = 0
          /\ BitIn(0, 8, 3) = 0 /\ BitIn(0, 8, 4) = 0 /\ BitIn(0, 8, 5) = 0
          /\ BitIn(0, 8, 6) = 0 /\ BitIn(0, 8, 7) = 0
      BY <3>2 DEF ByteBits
    <3> HIDE DEF i
    <3> QED
      BY <1>1, <3>3
  <2> HIDE DEF p, i
  <2> QED
    BY <1>5, <1>7, <2>2, <2>3
<1> QED
  BY <1>6, <1>7

(* The encoding is that of RFC 4648 for inputs of every length: the digits  *)
(* write the bits of the bytes, filled up with zeros, and '=' completes a   *)
(* group of four (base64.hpp:43-72).                                        *)
THEOREM AlwaysStandard == Spec => []IsStandard
<1>1. ASSUME Typed
      PROVE  IsStandard
  <2> DEFINE code == base64_encode(data)
             n == (8 * Len(data) + 5) \div 6
             digits == SubSeq(code, 1, n)
  <2>1. data \in Seq(Bytes) /\ n = Count(data)
    BY <1>1 DEF Typed, Count
  <2>2. /\ Len(code) = 4 * ((Len(data) + 2) \div 3)
        /\ Count(data) \in 0 .. Len(code)
        /\ \A j \in 1 .. Count(data) : code[j] = Digit(data, j) /\ code[j] \in Digits
        /\ \A j \in Count(data) + 1 .. Len(code) : code[j] = Pad
    BY <2>1, Encoded
  <2> HIDE DEF code, n
  <2>3. n \in Nat /\ n \in Int /\ 1 \in Int
    BY <2>1, <2>2, LenProperties
  <2>4. /\ digits \in Seq(Digits) /\ Len(digits) = n
        /\ \A j \in 1 .. n : digits[j] = code[j]
    <3>1. \A j \in 1 .. n : code[j] \in Digits
      BY <2>1, <2>2
    <3>2. /\ digits \in Seq(Digits)
          /\ Len(digits) = IF 1 <= n THEN n - 1 + 1 ELSE 0
          /\ \A j \in 1 .. n - 1 + 1 : digits[j] = code[1 + j - 1]
      BY <2>3, <3>1, SubSeqProperties
    <3> HIDE DEF digits
    <3>3. Len(digits) = n
      BY <2>3, <3>2
    <3>4. \A j \in 1 .. n : digits[j] = code[j]
      BY <2>3, <3>2
    <3> QED
      BY <3>2, <3>3, <3>4
  <2> HIDE DEF digits
  <2>5. ASSUME NEW j \in 0 .. 6 * n - 1
        PROVE  Bit(digits, 6, j) = IF j < 8 * Len(data) THEN Bit(data, 8, j) ELSE 0
    <3>1. Len(digits) = Count(data) /\ \A q \in 1 .. Count(data) : digits[q] = Digit(data, q)
      BY <2>1, <2>2, <2>4
    <3>2. j \in 0 .. 6 * Count(data) - 1
      BY <2>1
    <3> QED
      BY <2>1, <3>1, <3>2, StandardBits
  <2>6. \A j \in n + 1 .. Len(code) : code[j] = Pad
    BY <2>1, <2>2
  <2>7. /\ Len(code) = 4 * ((Len(data) + 2) \div 3)
        /\ digits \in Seq(Digits)
        /\ \A j \in n + 1 .. Len(code) : code[j] = Pad
        /\ \A j \in 0 .. 6 * n - 1 :
              Bit(digits, 6, j) = IF j < 8 * Len(data) THEN Bit(data, 8, j) ELSE 0
    BY <2>2, <2>4, <2>5, <2>6
  <2> QED
    BY <2>7, Zenon DEF IsStandard, code, n, digits
<1>2. Typed => IsStandard
  BY <1>1
<1> QED
  BY <1>2, AlwaysTyped, PTL

(* Whatever a text of any length holds, decoding returns the whole bytes    *)
(* that the digits before the first other character write, never a bit of   *)
(* what fills up the last group (base64.hpp:88, 104-115).                   *)
THEOREM AlwaysDecodesPrefix == Spec => []DecodesPrefix
<1>1. ASSUME Typed
      PROVE  DecodesPrefix
  <2> DEFINE bytes == base64_decode(text)
             k == CHOOSE j \in 0 .. Len(text) :
                    /\ \A m \in 1 .. j : text[m] \in Digits
                    /\ j < Len(text) => text[j + 1] \notin Digits
             w == Readable(text)
  <2>1. text \in Seq(Chars)
    BY <1>1 DEF Typed
  <2>2. k \in 0 .. Len(text) /\ Stops(text, k)
    BY <2>1, SomewhereStops DEF Stops
  <2> HIDE DEF k
  <2>3. /\ bytes \in Seq(Bytes) /\ Len(bytes) = (6 * k) \div 8
        /\ \A p \in 1 .. Len(bytes) : bytes[p] = ByteAt(w, p)
    BY <2>1, <2>2, Decoded
  <2>4. w \in Seq(Digits) /\ Len(w) = k /\ \A q \in 1 .. k : w[q] = text[q]
    BY <2>1, <2>2, ReadableIs
  <2>5. k \in Nat
    BY <2>1, <2>2, LenProperties
  <2> HIDE DEF bytes, w
  <2>6. ASSUME NEW j \in 0 .. 8 * Len(bytes) - 1
        PROVE  Bit(bytes, 8, j) = Bit(text, 6, j)
    <3> DEFINE p == j \div 8 + 1
               i == j % 8
               l == Len(bytes)
    <3>1. l \in Nat /\ l = (6 * k) \div 8
      BY <2>3, LenProperties
    <3>2. p \in 1 .. l /\ p \in Nat \ {0} /\ i \in 0 .. 7 /\ j = 8 * (p - 1) + i /\ j \in Nat
      <4>1. j \in 0 .. 8 * l - 1
        OBVIOUS
      <4> HIDE DEF l
      <4> QED
        BY <3>1, <4>1
    <3> DEFINE q == j \div 6 + 1
    <3>3. q \in 1 .. k
      <4>1. j \in 0 .. 8 * l - 1
        OBVIOUS
      <4> HIDE DEF l
      <4>2. 8 * l <= 6 * k
        BY <2>5, <3>1
      <4>3. j < 6 * k /\ j \in Nat
        BY <2>5, <3>1, <4>1, <4>2
      <4> QED
        BY <2>5, <4>3
    <3> HIDE DEF p, i, l
    <3>4. Writes(w, ByteAt(w, p), p)
      BY <2>4, <3>1, <3>2, DecodeWrites
    <3>5. BitIn(ByteAt(w, p), 8, i) = BitIn(w[q], 6, j % 6)
      <4> HIDE DEF q
      <4>1. SameBit(w, ByteAt(w, p), i, j)
        BY <3>2, <3>4, WritesBits
      <4> QED
        BY <4>1, Zenon DEF SameBit, q
    <3> HIDE DEF q
    <3>6. w[q] = text[q] /\ bytes[p] = ByteAt(w, p)
      BY <2>3, <2>4, <3>2, <3>3 DEF l
    <3>7. Bit(bytes, 8, j) = BitIn(bytes[p], 8, i) /\ Bit(text, 6, j) = BitIn(text[q], 6, j % 6)
      BY Zenon DEF Bit, BitIn, p, q, i
    <3> QED
      BY <3>5, <3>6, <3>7
  <2>7. /\ Len(bytes) = (6 * k) \div 8
        /\ \A j \in 0 .. 8 * Len(bytes) - 1 : Bit(bytes, 8, j) = Bit(text, 6, j)
    BY <2>3, <2>6
  <2> QED
    BY <2>7, Zenon DEF DecodesPrefix, bytes, k
<1>2. Typed => DecodesPrefix
  BY <1>1
<1> QED
  BY <1>2, AlwaysTyped, PTL
=============================================================================
