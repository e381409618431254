--------------------------- MODULE RelayRefinement ---------------------------
(***************************************************************************)
(* RelayLog implements Mailboxes, for any sets of keys, rooms, connections *)
(* and bodies: whatever connections come and go, a key is sent what its    *)
(* mailbox is promised, in that order.                                     *)
(***************************************************************************)
EXTENDS RelayLogProofs, Induction

-----------------------------------------------------------------------------
(* Picking frames from a sequence.                                         *)

Picks(g, s, F) ==
    g = [n \in 0 .. Len(s) |->
           IF n = 0 THEN << >>
           ELSE IF s[n] \in F THEN Append(g[n - 1], s[n])
           ELSE g[n - 1]]

(* There is one such function, ...                                         *)
LEMMA PicksExtend ==
    ASSUME NEW s \in Seq(Frames), NEW f \in Frames, NEW F, NEW g, Picks(g, s, F),
           NEW h, h = [n \in 0 .. Len(s) + 1 |->
                         IF n <= Len(s) THEN g[n]
                         ELSE IF f \in F THEN Append(g[Len(s)], f)
                         ELSE g[Len(s)]]
    PROVE  Picks(h, Append(s, f), F)
<1> DEFINE t == Append(s, f)
           m == Len(s)
<1>1. /\ m \in Nat /\ Len(t) = m + 1
      /\ \A i \in 1 .. m : t[i] = s[i]
      /\ t[m + 1] = f
  BY LenProperties, AppendProperties
<1>2. \A n \in 0 .. m : g[n] = IF n = 0 THEN << >>
                               ELSE IF s[n] \in F THEN Append(g[n - 1], s[n])
                               ELSE g[n - 1]
  BY DEF Picks
<1> HIDE DEF t, m
<1>3. \A n \in 0 .. m + 1 : h[n] = IF n <= m THEN g[n]
                                   ELSE IF f \in F THEN Append(g[m], f)
                                   ELSE g[m]
  BY DEF m
<1>4. ASSUME NEW n \in 0 .. m + 1
      PROVE  h[n] = IF n = 0 THEN << >>
                    ELSE IF t[n] \in F THEN Append(h[n - 1], t[n])
                    ELSE h[n - 1]
  <2>1. CASE n = 0
    BY <1>1, <1>2, <1>3, <2>1
  <2>2. CASE n \in 1 .. m
    <3>1. /\ n - 1 \in 0 .. m /\ n # 0 /\ n \in 0 .. m
          /\ n - 1 \in 0 .. m + 1 /\ n - 1 <= m /\ n <= m
      BY <1>1, <2>2
    <3>2. h[n] = g[n] /\ h[n - 1] = g[n - 1]
      BY <1>3, <3>1
    <3>3. t[n] = s[n]
      BY <1>1, <2>2
    <3> QED
      BY <1>2, <3>1, <3>2, <3>3
  <2>3. CASE n = m + 1
    <3>1. m \in 0 .. m + 1 /\ m <= m /\ ~(m + 1 <= m) /\ (m + 1) - 1 = m /\ m + 1 # 0
      BY <1>1
    <3>2. h[m] = g[m]
      BY <1>3, <3>1
    <3>3. h[n] = IF f \in F THEN Append(g[m], f) ELSE g[m]
      BY <1>3, <2>3, <3>1
    <3> QED
      BY <1>1, <2>3, <3>1, <3>2, <3>3
  <2> QED
    BY <1>1, <2>1, <2>2, <2>3
<1> DEFINE k == [n \in 0 .. m + 1 |-> IF n = 0 THEN << >>
                                      ELSE IF t[n] \in F THEN Append(h[n - 1], t[n])
                                      ELSE h[n - 1]]
<1>5. ASSUME NEW n \in 0 .. m + 1
      PROVE  h[n] = k[n]
  <2>1. k[n] = IF n = 0 THEN << >>
               ELSE IF t[n] \in F THEN Append(h[n - 1], t[n])
               ELSE h[n - 1]
    OBVIOUS
  <2> HIDE DEF k
  <2> QED
    BY <1>4, <2>1, Zenon
<1>6. h = [n \in 0 .. m + 1 |-> h[n]] /\ k = [n \in 0 .. m + 1 |-> k[n]]
  BY DEF m
<1>7. h = k
  <2> HIDE DEF k
  <2> QED
    BY <1>5, <1>6
<1> QED
  BY <1>1, <1>7 DEF Picks, t

LEMMA PicksExist ==
    ASSUME NEW s \in Seq(Frames), NEW F
    PROVE  \E g : Picks(g, s, F)
<1> DEFINE T == {t \in Seq(Frames) : \E g : Picks(g, t, F)}
<1>1. << >> \in T
  <2> DEFINE none == << >>
             g == [n \in 0 .. 0 |-> << >>]
  <2>1. none \in Seq(Frames) /\ Len(none) = 0
    BY EmptySeq
  <2> HIDE DEF none
  <2>2. Picks(g, none, F)
    BY <2>1 DEF Picks
  <2> QED
    BY <2>1, <2>2 DEF none
<1>2. ASSUME NEW t \in Seq(Frames), NEW f \in Frames, t \in T
      PROVE  Append(t, f) \in T
  <2>1. PICK g : Picks(g, t, F)
    BY <1>2
  <2>2. \E h : Picks(h, Append(t, f), F)
    BY <2>1, PicksExtend
  <2> QED
    BY <2>2, AppendProperties
<1>3. Seq(Frames) \subseteq T
  <2> HIDE DEF T
  <2> QED
    BY <1>1, <1>2, SequenceInduction
<1> QED
  BY <1>3

LEMMA PicksOnce ==
    ASSUME NEW s \in Seq(Frames), NEW F, NEW g, NEW h, Picks(g, s, F), Picks(h, s, F),
           NEW m \in 0 .. Len(s)
    PROVE  g[m] = h[m]
<1> DEFINE T == {n \in Nat : n <= Len(s) => g[n] = h[n]}
<1>1. /\ Len(s) \in Nat
      /\ \A n \in 0 .. Len(s) : g[n] = IF n = 0 THEN << >>
                                       ELSE IF s[n] \in F THEN Append(g[n - 1], s[n])
                                       ELSE g[n - 1]
      /\ \A n \in 0 .. Len(s) : h[n] = IF n = 0 THEN << >>
                                       ELSE IF s[n] \in F THEN Append(h[n - 1], s[n])
                                       ELSE h[n - 1]
  BY LenProperties DEF Picks
<1>2. 0 \in T
  BY <1>1
<1>3. ASSUME NEW n \in Nat, n \in T
      PROVE  n + 1 \in T
  <2>1. CASE n + 1 <= Len(s)
    <3>1. n + 1 \in 0 .. Len(s) /\ (n + 1) - 1 = n /\ n + 1 # 0 /\ n <= Len(s)
      BY <1>1, <2>1
    <3>2. g[n] = h[n]
      BY <1>3, <3>1
    <3> QED
      BY <1>1, <3>1, <3>2
  <2>2. CASE ~(n + 1 <= Len(s))
    BY <2>2
  <2> QED
    BY <2>1, <2>2
<1>4. Nat \subseteq T
  <2> HIDE DEF T
  <2> QED
    BY <1>2, <1>3, NumberInduction
<1> QED
  BY <1>1, <1>4

(* ... and Pick is its last value.                                         *)
LEMMA PickMeans ==
    ASSUME NEW s \in Seq(Frames), NEW F, NEW g, Picks(g, s, F)
    PROVE  Pick(s, F) = g[Len(s)]
<1> DEFINE c == CHOOSE pick : Picks(pick, s, F)
<1>1. Picks(c, s, F)
  BY PicksExist
<1>2. Pick(s, F) = c[Len(s)]
  BY DEF Pick, Picks
<1>3. Len(s) \in 0 .. Len(s)
  BY LenProperties
<1> HIDE DEF c
<1> QED
  BY <1>1, <1>2, <1>3, PicksOnce

LEMMA PickAppends ==
    ASSUME NEW s \in Seq(Frames), NEW f \in Frames, NEW F
    PROVE  Pick(Append(s, f), F) = IF f \in F THEN Append(Pick(s, F), f) ELSE Pick(s, F)
<1>1. PICK g : Picks(g, s, F)
  BY PicksExist
<1> DEFINE m == Len(s)
           h == [n \in 0 .. m + 1 |->
                   IF n <= m THEN g[n]
                   ELSE IF f \in F THEN Append(g[m], f)
                   ELSE g[m]]
<1>2. Picks(h, Append(s, f), F)
  <2> DEFINE k == h
  <2>1. k = h
    OBVIOUS
  <2> HIDE DEF k
  <2> QED
    BY <1>1, <2>1, PicksExtend
<1>3. m \in Nat /\ Len(Append(s, f)) = m + 1 /\ Append(s, f) \in Seq(Frames)
  BY LenProperties, AppendProperties
<1>4. h[m + 1] = IF f \in F THEN Append(g[m], f) ELSE g[m]
  <2> HIDE DEF m
  <2> QED
    BY <1>3
<1> HIDE DEF h
<1>5. Pick(Append(s, f), F) = h[m + 1]
  BY <1>2, <1>3, PickMeans
<1>6. Pick(s, F) = g[m]
  BY <1>1, PickMeans
<1> QED
  BY <1>4, <1>5, <1>6

LEMMA PickOfNone == \A F : Pick(<< >>, F) = << >>
<1> DEFINE none == << >>
<1>1. none \in Seq(Frames) /\ Len(none) = 0
  BY EmptySeq
<1> HIDE DEF none
<1>2. ASSUME NEW F
      PROVE  Pick(none, F) = << >>
  <2>1. PICK g : Picks(g, none, F)
    BY <1>1, PicksExist
  <2>2. g[0] = << >>
    BY <1>1, <2>1 DEF Picks
  <2> QED
    BY <1>1, <2>1, <2>2, PickMeans
<1> QED
  BY <1>2 DEF none
LEMMA PickType ==
    ASSUME NEW s \in Seq(Frames), NEW F
    PROVE  Pick(s, F) \in Seq(Frames)
<1> DEFINE T == {t \in Seq(Frames) : Pick(t, F) \in Seq(Frames)}
<1>1. << >> \in T
  BY EmptySeq, PickOfNone
<1>2. ASSUME NEW t \in Seq(Frames), NEW f \in Frames, t \in T
      PROVE  Append(t, f) \in T
  <2>1. Pick(t, F) \in Seq(Frames)
    BY <1>2
  <2>2. Append(t, f) \in Seq(Frames) /\ Append(Pick(t, F), f) \in Seq(Frames)
    BY <2>1, AppendProperties
  <2>3. Pick(Append(t, f), F) \in Seq(Frames)
    BY <2>1, <2>2, PickAppends
  <2> QED
    BY <2>2, <2>3
<1>3. Seq(Frames) \subseteq T
  <2> HIDE DEF T
  <2> QED
    BY <1>1, <1>2, SequenceInduction
<1> QED
  BY <1>3

(* Appending to the right part of a concatenation appends to the whole.    *)
LEMMA ConcatAppend ==
    ASSUME NEW S, NEW x \in Seq(S), NEW y \in Seq(S), NEW f \in S
    PROVE  x \o Append(y, f) = Append(x \o y, f)
<1> DEFINE one == <<f>>
<1>1. one \in Seq(S)
  OBVIOUS
<1>2. x \o y \in Seq(S)
  BY ConcatProperties
<1>3. Append(y, f) = y \o one /\ Append(x \o y, f) = (x \o y) \o one
  BY <1>2, AppendIsConcat
<1> HIDE DEF one
<1>4. (x \o y) \o one = x \o (y \o one)
  BY <1>1, ConcatAssociative
<1> QED
  BY <1>3, <1>4

LEMMA PickConcats ==
    ASSUME NEW s \in Seq(Frames), NEW t \in Seq(Frames), NEW F
    PROVE  Pick(s \o t, F) = Pick(s, F) \o Pick(t, F)
<1> DEFINE T == {u \in Seq(Frames) : Pick(s \o u, F) = Pick(s, F) \o Pick(u, F)}
<1>1. << >> \in T
  <2>1. s \o << >> = s /\ Pick(s, F) \o << >> = Pick(s, F)
    BY PickType, ConcatEmptySeq
  <2> QED
    BY <2>1, EmptySeq, PickOfNone
<1>2. ASSUME NEW u \in Seq(Frames), NEW f \in Frames, u \in T
      PROVE  Append(u, f) \in T
  <2>1. ASSUME NEW x \in Seq(Frames), NEW y \in Seq(Frames)
        PROVE  x \o y \in Seq(Frames) /\ x \o Append(y, f) = Append(x \o y, f)
    BY ConcatProperties, ConcatAppend
  <2>2. s \o u \in Seq(Frames) /\ s \o Append(u, f) = Append(s \o u, f)
    BY <2>1
  <2>3. /\ Pick(s, F) \in Seq(Frames) /\ Pick(u, F) \in Seq(Frames)
        /\ Pick(s, F) \o Append(Pick(u, F), f) = Append(Pick(s, F) \o Pick(u, F), f)
    BY <2>1, PickType
  <2>4. Pick(s \o u, F) = Pick(s, F) \o Pick(u, F)
    BY <1>2
  <2>5. /\ Pick(Append(s \o u, f), F) = IF f \in F THEN Append(Pick(s \o u, F), f) ELSE Pick(s \o u, F)
        /\ Pick(Append(u, f), F) = IF f \in F THEN Append(Pick(u, F), f) ELSE Pick(u, F)
    BY <2>2, PickAppends
  <2>6. Append(u, f) \in Seq(Frames)
    BY AppendProperties
  <2>7. Pick(s \o Append(u, f), F) = Pick(s, F) \o Pick(Append(u, f), F)
    BY <2>2, <2>3, <2>4, <2>5
  <2> QED
    BY <2>6, <2>7
<1>3. Seq(Frames) \subseteq T
  <2> HIDE DEF T
  <2> QED
    BY <1>1, <1>2, SequenceInduction
<1> QED
  BY <1>3

(* Only what s holds of F matters.                                         *)
LEMMA PickSame ==
    ASSUME NEW s \in Seq(Frames), NEW F, NEW G,
           \A f \in ToSet(s) : f \in F <=> f \in G
    PROVE  Pick(s, F) = Pick(s, G)
<1> DEFINE T == {t \in Seq(Frames) : (\A f \in ToSet(t) : f \in F <=> f \in G)
                                     => Pick(t, F) = Pick(t, G)}
<1>1. << >> \in T
  BY EmptySeq, PickOfNone
<1>2. ASSUME NEW t \in Seq(Frames), NEW f \in Frames, t \in T
      PROVE  Append(t, f) \in T
  <2>1. ToSet(Append(t, f)) = ToSet(t) \cup {f} /\ Append(t, f) \in Seq(Frames)
    BY Holds, AppendProperties
  <2>2. \A H : Pick(Append(t, f), H) = IF f \in H THEN Append(Pick(t, H), f) ELSE Pick(t, H)
    BY PickAppends
  <2> QED
    BY <1>2, <2>1, <2>2
<1>3. Seq(Frames) \subseteq T
  <2> HIDE DEF T
  <2> QED
    BY <1>1, <1>2, SequenceInduction
<1> QED
  BY <1>3

LEMMA PickNothing ==
    ASSUME NEW s \in Seq(Frames), NEW F, ToSet(s) \cap F = {}
    PROVE  Pick(s, F) = << >>
<1> DEFINE T == {t \in Seq(Frames) : ToSet(t) \cap F = {} => Pick(t, F) = << >>}
<1>1. << >> \in T
  BY EmptySeq, PickOfNone
<1>2. ASSUME NEW t \in Seq(Frames), NEW f \in Frames, t \in T
      PROVE  Append(t, f) \in T
  BY <1>2, Holds, AppendProperties, PickAppends
<1>3. Seq(Frames) \subseteq T
  <2> HIDE DEF T
  <2> QED
    BY <1>1, <1>2, SequenceInduction
<1> QED
  BY <1>3

LEMMA PickEverything ==
    ASSUME NEW s \in Seq(Frames), NEW F, ToSet(s) \subseteq F
    PROVE  Pick(s, F) = s
<1> DEFINE T == {t \in Seq(Frames) : ToSet(t) \subseteq F => Pick(t, F) = t}
<1>1. << >> \in T
  BY EmptySeq, PickOfNone
<1>2. ASSUME NEW t \in Seq(Frames), NEW f \in Frames, t \in T
      PROVE  Append(t, f) \in T
  BY <1>2, Holds, AppendProperties, PickAppends
<1>3. Seq(Frames) \subseteq T
  <2> HIDE DEF T
  <2> QED
    BY <1>1, <1>2, SequenceInduction
<1> QED
  BY <1>3

-----------------------------------------------------------------------------
(* The mapping: the server's steps as steps of the mailboxes.              *)

Box(k) == Pick(Stream(k), Posts \ Own(k))
Echo(k) == Pick(Stream(k), Own(k))

(* What the steps of the mapping rest on.                                  *)
RInv == Inv /\ AsksOK /\ PostsOK /\ BacklogWhileAway

LEMMA KeptIsPost ==
    ASSUME TypeOK, KeptOK
    PROVE  Kept \subseteq Posts
<1>1. ASSUME NEW f \in Frames, f.cmd \in Posted
      PROVE  f \in Posts
  <2>1. f.room \in Rooms /\ f.body \in Bodies /\ f.key = NoKey /\ f.from = NoKey
    BY <1>1 DEF Frames, WellFormed
  <2>2. f = Message(f.room, f.body) \/ f = MessageKeyRotate(f.room, f.body)
    BY <1>1, <2>1 DEF Frames, Posted, Message, MessageKeyRotate, Frame
  <2> QED
    BY <2>1, <2>2 DEF Posts
<1> QED
  BY <1>1, KeptIsRelayable DEF Relayable

(* Boxes and echoes of the parts of a stream, and what is in them.         *)
LEMMA StreamParts ==
    ASSUME TypeOK, KeptOK, NEW k \in Keys
    PROVE  /\ handed[k] \in Seq(Frames) /\ ToSet(handed[k]) \subseteq Posts
           /\ history[k] \in Seq(Frames) /\ ToSet(history[k]) \subseteq Posts
           /\ Stream(k) \in Seq(Frames) /\ Stream(k) = handed[k] \o history[k]
           /\ ToSet(Stream(k)) \subseteq Kept
           /\ \A F : Pick(Stream(k), F) = Pick(handed[k], F) \o Pick(history[k], F)
<1>1. /\ handed[k] \in Seq(Frames) /\ ToSet(handed[k]) \subseteq Kept
      /\ history[k] \in Seq(Frames) /\ ToSet(history[k]) \subseteq Kept
  BY DEF TypeOK, Kept
<1>2. ToSet(handed[k] \o history[k]) = ToSet(handed[k]) \cup ToSet(history[k])
  BY <1>1, Holds, ClientFrames
<1> QED
  BY <1>1, <1>2, KeptIsPost, PickConcats, ConcatProperties DEF Stream

(* Who is online has nothing of others' in its backlog.                    *)
LEMMA NothingWaits ==
    ASSUME TypeOK, KeptOK, BacklogWhileAway, NEW k \in Keys, online[k] # NoConn
    PROVE  Pick(history[k], Posts \ Own(k)) = << >>
<1>1. \A f \in ToSet(history[k]) : author[f.body] = k
  BY DEF BacklogWhileAway, ToSet
<1>2. ToSet(history[k]) \subseteq Own(k)
  BY <1>1, StreamParts DEF Own
<1> QED
  BY <1>2, StreamParts, PickNothing

(* A step the mailboxes do not see.                                        *)
LEMMA BehindTheBoxes ==
    ASSUME UNCHANGED <<owner, users, roomsHistory>>,
           \A k \in Keys : Box(k)' = Box(k) /\ Echo(k)' = Echo(k)
    PROVE  UNCHANGED Promise!vars
  BY DEF Promise!vars, Box, Echo

LEMMA PostIsUnseen ==
    ASSUME RInv, NEW c \in Conns, PostAny(c)
    PROVE  UNCHANGED Promise!vars
<1> USE DEF RInv, Inv
<1>1. PICK b \in Bodies : /\ author[b] = NoKey
                          /\ author' = [author EXCEPT ![b] = peer[c]]
                          /\ UNCHANGED <<serverVars, handed>>
  BY DEF PostAny, Post, Send
<1>2. Unseen(b)
  BY <1>1, FreshBody
<1>3. ASSUME NEW k \in Keys
      PROVE  Box(k)' = Box(k) /\ Echo(k)' = Echo(k)
  <2>1. Stream(k)' = Stream(k)
    BY <1>1 DEF Stream, serverVars
  <2>2. \A f \in ToSet(Stream(k)) : /\ f \in Own(k)' <=> f \in Own(k)
                                    /\ f \in (Posts \ Own(k))' <=> f \in Posts \ Own(k)
    <3>1. \A f \in ToSet(Stream(k)) : f \in Posts /\ f.body \in Bodies /\ f.body # b
      BY <1>2, StreamParts, KeptIsPost, KeptIsRelayable DEF Unseen, Relayable, Frames, WellFormed
    <3>2. \A a \in Bodies : a # b => author'[a] = author[a]
      BY <1>1 DEF TypeOK
    <3> QED
      BY <3>1, <3>2 DEF Own, Posts
  <2>3. Stream(k) \in Seq(Frames)
    BY StreamParts
  <2>4. Pick(Stream(k), Own(k)') = Pick(Stream(k), Own(k))
    <3> DEFINE F == Own(k)'
               G == Own(k)
    <3>1. \A f \in ToSet(Stream(k)) : f \in F <=> f \in G
      BY <2>2
    <3> HIDE DEF F, G
    <3>2. Pick(Stream(k), F) = Pick(Stream(k), G)
      BY <2>3, <3>1, PickSame
    <3> QED
      BY <3>2 DEF F, G
  <2>5. Pick(Stream(k), (Posts \ Own(k))') = Pick(Stream(k), Posts \ Own(k))
    <3> DEFINE F == (Posts \ Own(k))'
               G == Posts \ Own(k)
    <3>1. \A f \in ToSet(Stream(k)) : f \in F <=> f \in G
      BY <2>2
    <3> HIDE DEF F, G
    <3>2. Pick(Stream(k), F) = Pick(Stream(k), G)
      BY <2>3, <3>1, PickSame
    <3> QED
      BY <3>2 DEF F, G
  <2> QED
    BY <2>1, <2>4, <2>5 DEF Box, Echo
<1>4. UNCHANGED <<owner, users, roomsHistory>>
  BY <1>1 DEF serverVars
<1> QED
  BY <1>3, <1>4, BehindTheBoxes

(* A step that leaves the streams and their authors alone.                 *)
LEMMA StreamsStay ==
    ASSUME author' = author, \A k \in Keys : Stream(k)' = Stream(k)
    PROVE  \A k \in Keys : Box(k)' = Box(k) /\ Echo(k)' = Echo(k)
<1>1. Posts' = Posts /\ \A k : Own(k)' = Own(k)
  BY DEF Own, Posts, Message, MessageKeyRotate, Frame
<1> QED
  BY <1>1 DEF Box, Echo

LEMMA AnnouncingIsUnseen ==
    ASSUME RInv, NEW c \in Conns, NEW f \in Frames, HandlePublicKey(c, f),
           Hand(f.key, history[f.key]), author' = author
    PROVE  UNCHANGED Promise!vars
<1> USE DEF RInv, Inv
<1>1. /\ f.key \in Keys
      /\ handed' = [handed EXCEPT ![f.key] = @ \o history[f.key]]
      /\ history' = [history EXCEPT ![f.key] = << >>]
      /\ UNCHANGED <<owner, users, roomsHistory>>
  BY DEF HandlePublicKey, Request, Hand, Frames, WellFormed
<1>2. ASSUME NEW k \in Keys
      PROVE  Stream(k)' = Stream(k)
  <2>1. CASE k = f.key
    <3>1. handed'[k] = handed[k] \o history[k] /\ history'[k] = << >>
      BY <1>1, <2>1 DEF TypeOK
    <3>2. handed[k] \o history[k] \in Seq(Frames)
      BY ConcatProperties DEF TypeOK
    <3>3. (handed[k] \o history[k]) \o << >> = handed[k] \o history[k]
      BY <3>2, ConcatEmptySeq
    <3> QED
      BY <3>1, <3>3 DEF Stream
  <2>2. CASE k # f.key
    BY <1>1, <2>2 DEF Stream, TypeOK
  <2> QED
    BY <2>1, <2>2
<1> QED
  BY <1>1, <1>2, StreamsStay, BehindTheBoxes

(* What one step adds to a stream: nothing, or f at the end of either part.*)
LEMMA BoxGrows ==
    ASSUME RInv, NEW k \in Keys, NEW f \in Frames, f \in Posts, author' = author,
           \/ /\ handed'[k] = Append(handed[k], f) /\ history'[k] = history[k]
              /\ online[k] # NoConn /\ author[f.body] # k
           \/ handed'[k] = handed[k] /\ history'[k] = Append(history[k], f)
    PROVE  IF author[f.body] = k
           THEN Box(k)' = Box(k) /\ Echo(k)' = Append(Echo(k), f)
           ELSE Box(k)' = Append(Box(k), f) /\ Echo(k)' = Echo(k)
<1> USE DEF RInv, Inv
<1>1. Posts' = Posts /\ Own(k)' = Own(k)
  BY DEF Own, Posts, Message, MessageKeyRotate, Frame
<1>2. /\ f \in Own(k) <=> author[f.body] = k
      /\ f \in Posts \ Own(k) <=> author[f.body] # k
  BY DEF Own
<1> DEFINE h == handed[k]
           w == history[k]
<1>3. h \in Seq(Frames) /\ w \in Seq(Frames) /\ h \o w \in Seq(Frames) /\ Append(h, f) \in Seq(Frames)
  BY StreamParts, AppendProperties
<1>4. /\ Box(k) = Pick(h \o w, Posts \ Own(k)) /\ Echo(k) = Pick(h \o w, Own(k))
      /\ Box(k)' = Pick(Stream(k)', Posts \ Own(k)) /\ Echo(k)' = Pick(Stream(k)', Own(k))
  BY <1>1 DEF Box, Echo, Stream
<1> DEFINE O == Posts \ Own(k)
           E == Own(k)
<1>5. CASE handed'[k] = h /\ history'[k] = Append(w, f)
  <2>1. Stream(k)' = Append(h \o w, f)
    <3>1. h \o Append(w, f) = Append(h \o w, f)
      <4> HIDE DEF h, w
      <4> QED
        BY <1>3, ConcatAppend
    <3> QED
      BY <1>5, <3>1 DEF Stream
  <2>2. \A F : Pick(Append(h \o w, f), F) = IF f \in F THEN Append(Pick(h \o w, F), f)
                                            ELSE Pick(h \o w, F)
    BY <1>3, PickAppends
  <2> QED
    BY <1>2, <1>4, <2>1, <2>2
<1>6. CASE /\ handed'[k] = Append(h, f) /\ history'[k] = w
           /\ online[k] # NoConn /\ author[f.body] # k
  <2>1. Stream(k)' = Append(h, f) \o w
    BY <1>6 DEF Stream
  <2>2. \A F : Pick(Append(h, f) \o w, F) = Pick(Append(h, f), F) \o Pick(w, F)
    BY <1>3, PickConcats
  <2>3. \A F : Pick(h \o w, F) = Pick(h, F) \o Pick(w, F)
    BY <1>3, PickConcats
  <2>4. \A F : Pick(Append(h, f), F) = IF f \in F THEN Append(Pick(h, F), f) ELSE Pick(h, F)
    BY <1>3, PickAppends
  <2>5. Pick(w, O) = << >>
    BY <1>6, NothingWaits
  <2>6. Pick(h, O) \in Seq(Frames) /\ Append(Pick(h, O), f) \in Seq(Frames)
    BY <1>3, PickType, AppendProperties
  <2>7. /\ Pick(h, O) \o << >> = Pick(h, O)
        /\ Append(Pick(h, O), f) \o << >> = Append(Pick(h, O), f)
    BY <2>6, ConcatEmptySeq
  <2>8. Box(k)' = Append(Box(k), f)
    <3>1. Box(k)' = Pick(Append(h, f) \o w, O)
      BY <1>4, <2>1
    <3>2. Pick(Append(h, f) \o w, O) = Pick(Append(h, f), O) \o Pick(w, O)
      BY <2>2
    <3>3. f \in O
      BY <1>2, <1>6
    <3>4. Pick(Append(h, f), O) = Append(Pick(h, O), f)
      BY <2>4, <3>3
    <3>5. Box(k) = Pick(h, O) \o Pick(w, O)
      BY <1>4, <2>3
    <3> QED
      BY <2>5, <2>7, <3>1, <3>2, <3>4, <3>5
  <2>9. Echo(k)' = Echo(k)
    <3>1. Echo(k)' = Pick(Append(h, f) \o w, E)
      BY <1>4, <2>1
    <3>2. Pick(Append(h, f) \o w, E) = Pick(Append(h, f), E) \o Pick(w, E)
      BY <2>2
    <3>3. f \notin E
      BY <1>2, <1>6
    <3>4. Pick(Append(h, f), E) = Pick(h, E)
      BY <2>4, <3>3
    <3>5. Pick(h \o w, E) = Pick(h, E) \o Pick(w, E)
      BY <2>3
    <3> QED
      BY <1>4, <3>1, <3>2, <3>4, <3>5
  <2> QED
    BY <1>6, <2>8, <2>9
<1> QED
  BY <1>5, <1>6

LEMMA RelayIsDistribute ==
    ASSUME RInv, NEW c \in Conns, NEW f \in Frames, up[c] # << >>, f = Head(up[c]),
           author' = author, HandleMessage(c, f) \/ HandleKeyRotate(c, f),
           Relayed(f.room, pubKey[c], f)
    PROVE  f \in Posts /\ Promise!Distribute(pubKey[c], f.room, f)
<1> USE DEF RInv, Inv
<1> DEFINE r == f.room
           k == pubKey[c]
<1>1. r \in Rooms /\ k \in Keys /\ author[f.body] = k /\ Relayable(f) /\ k \in users[r]
  BY AcceptedIsRelayable DEF Relayable
<1>2. f \in Posts
  <2>1. f.room \in Rooms /\ f.body \in Bodies /\ f.key = NoKey /\ f.from = NoKey
    BY <1>1 DEF Relayable, Frames, WellFormed
  <2>2. f = Message(f.room, f.body) \/ f = MessageKeyRotate(f.room, f.body)
    BY <1>1, <2>1 DEF Relayable, Frames, Posted, Message, MessageKeyRotate, Frame
  <2> QED
    BY <2>1, <2>2 DEF Posts
<1>3. FanOut(r, k, f) /\ UNCHANGED <<owner, users>>
  BY DEF HandleMessage, HandleKeyRotate
<1>4. ASSUME NEW u \in Keys
      PROVE  /\ Box(u)' = IF u \in users[r] \ {k} THEN Append(Box(u), f) ELSE Box(u)
             /\ Echo(u)' = IF u = k THEN Append(Echo(u), f) ELSE Echo(u)
  <2>1. /\ handed'[u] = IF u \in Present(r, k) THEN Append(handed[u], f) ELSE handed[u]
        /\ history'[u] = IF u \in users[r] \ Present(r, k) THEN Append(history[u], f)
                         ELSE history[u]
    BY <1>3 DEF Relayed, FanOut
  <2>2. u \in Present(r, k) <=> u \in users[r] /\ online[u] # NoConn /\ u # k
    BY DEF Present
  <2>3. CASE u \notin users[r]
    <3>1. Stream(u)' = Stream(u) /\ u # k
      BY <1>1, <2>1, <2>2, <2>3 DEF Stream
    <3>2. Posts' = Posts /\ Own(u)' = Own(u)
      BY DEF Own, Posts, Message, MessageKeyRotate, Frame
    <3> QED
      BY <2>3, <3>1, <3>2 DEF Box, Echo
  <2>4. CASE u \in users[r]
    <3>1. \/ /\ handed'[u] = Append(handed[u], f) /\ history'[u] = history[u]
             /\ online[u] # NoConn /\ author[f.body] # u
          \/ handed'[u] = handed[u] /\ history'[u] = Append(history[u], f)
      BY <1>1, <2>1, <2>2, <2>4
    <3>2. IF author[f.body] = u
          THEN Box(u)' = Box(u) /\ Echo(u)' = Append(Echo(u), f)
          ELSE Box(u)' = Append(Box(u), f) /\ Echo(u)' = Echo(u)
      BY <1>2, <3>1, BoxGrows
    <3> QED
      BY <1>1, <2>4, <3>2
  <2> QED
    BY <2>3, <2>4
<1>5. /\ [u \in Keys |-> Box(u)]' = [u \in Keys |-> IF u \in users[r] \ {k}
                                                    THEN Append([x \in Keys |-> Box(x)][u], f)
                                                    ELSE [x \in Keys |-> Box(x)][u]]
      /\ [u \in Keys |-> Echo(u)]' = [[u \in Keys |-> Echo(u)] EXCEPT ![k] = Append(@, f)]
  BY <1>1, <1>4
<1> QED
  BY <1>2, <1>3, <1>5 DEF Promise!Distribute, Box, Echo

LEMMA MessageIsPost ==
    ASSUME RInv, NEW c \in Conns, NEW f \in Frames, up[c] # << >>, f = Head(up[c]),
           author' = author, HandleMessage(c, f), Relayed(f.room, pubKey[c], f)
    PROVE  Promise!Next
<1> USE DEF RInv, Inv
<1>1. f.room \in Rooms /\ pubKey[c] \in Keys
  BY AcceptedIsRelayable
<1>2. f \in Posts /\ Promise!Distribute(pubKey[c], f.room, f)
  BY RelayIsDistribute
<1>3. Promise!Post(pubKey[c], f.room, f)
  BY <1>2 DEF HandleMessage, MayPost, Promise!Post
<1> QED
  BY <1>1, <1>2, <1>3 DEF Promise!Next

LEMMA KeyRotateIsRotate ==
    ASSUME RInv, NEW c \in Conns, NEW f \in Frames, up[c] # << >>, f = Head(up[c]),
           author' = author, HandleKeyRotate(c, f), Relayed(f.room, pubKey[c], f)
    PROVE  Promise!Next
<1> USE DEF RInv, Inv
<1>1. f.room \in Rooms /\ pubKey[c] \in Keys
  BY AcceptedIsRelayable
<1>2. f \in Posts /\ Promise!Distribute(pubKey[c], f.room, f)
  BY RelayIsDistribute
<1>3. Promise!Rotate(pubKey[c], f.room, f)
  BY <1>1, <1>2, ConstantsOK DEF HandleKeyRotate, MayRotate, Promise!Rotate
<1> QED
  BY <1>1, <1>2, <1>3 DEF Promise!Next

LEMMA AdmissionIsJoin ==
    ASSUME RInv, NEW c \in Conns, NEW f \in Frames, up[c] # << >>, f = Head(up[c]),
           author' = author, HandleInviteResponse(c, f), Hand(f.key, roomsHistory[f.room])
    PROVE  Promise!Next
<1> USE DEF RInv, Inv
<1> DEFINE r == f.room
           k == f.key
           h == handed[k]
           w == history[k]
           m == roomsHistory[r]
           O == Posts \ Own(k)
           E == Own(k)
<1>1. r \in Rooms /\ k \in Keys /\ k \notin users[r]
  BY JoinerHasNothing
<1>2. /\ online[k] # NoConn /\ owner[r] # NoKey
      /\ users' = [users EXCEPT ![r] = @ \cup {k}]
      /\ handed' = [handed EXCEPT ![k] = @ \o m]
      /\ UNCHANGED <<owner, history, roomsHistory>>
  BY DEF HandleInviteResponse, ResponseIsValid, Exists, Hand
<1>3. /\ m \in Seq(Frames) /\ ToSet(m) \subseteq Posts
      /\ \A g \in ToSet(m) : author[g.body] # k
  <2>1. m \in Seq(Frames) /\ ToSet(m) \subseteq Kept
    BY <1>1 DEF TypeOK, Kept
  <2>2. \A g \in ToSet(m) : author[g.body] \in users[r]
    BY <1>1 DEF KeptOK, Relayable, ToSet
  <2> QED
    BY <1>1, <2>1, <2>2, KeptIsPost
<1>4. Pick(m, O) = m /\ Pick(m, E) = << >>
  <2>1. ToSet(m) \subseteq O /\ ToSet(m) \cap E = {}
    BY <1>3 DEF Own
  <2> HIDE DEF O, E, m
  <2> QED
    BY <1>3, <2>1, PickEverything, PickNothing
<1>5. Posts' = Posts /\ \A u : Own(u)' = Own(u)
  BY DEF Own, Posts, Message, MessageKeyRotate, Frame
<1>6. /\ h \in Seq(Frames) /\ w \in Seq(Frames) /\ h \o m \in Seq(Frames)
      /\ Stream(k) = h \o w /\ Stream(k)' = (h \o m) \o w
  BY <1>1, <1>2, <1>3, StreamParts, ConcatProperties DEF Stream, TypeOK
<1>7. Pick(w, O) = << >>
  BY <1>1, <1>2, NothingWaits
<1>8. Box(k)' = Box(k) \o m /\ Echo(k)' = Echo(k)
  <2>1. /\ Box(k) = Pick(h \o w, O) /\ Echo(k) = Pick(h \o w, E)
        /\ Box(k)' = Pick((h \o m) \o w, O) /\ Echo(k)' = Pick((h \o m) \o w, E)
    BY <1>5, <1>6 DEF Box, Echo
  <2> HIDE DEF h, w, m, O, E
  <2>2. ASSUME NEW F
        PROVE  /\ Pick(h \o w, F) = Pick(h, F) \o Pick(w, F)
               /\ Pick((h \o m) \o w, F) = (Pick(h, F) \o Pick(m, F)) \o Pick(w, F)
    <3>1. Pick(h \o w, F) = Pick(h, F) \o Pick(w, F)
      BY <1>6, PickConcats
    <3>2. Pick(h \o m, F) = Pick(h, F) \o Pick(m, F)
      BY <1>3, <1>6, PickConcats
    <3>3. Pick((h \o m) \o w, F) = Pick(h \o m, F) \o Pick(w, F)
      BY <1>6, PickConcats
    <3> QED
      BY <3>1, <3>2, <3>3
  <2>3. /\ Pick(h, O) \in Seq(Frames) /\ Pick(h, E) \in Seq(Frames)
        /\ Pick(h, O) \o m \in Seq(Frames)
    BY <1>3, <1>6, PickType, ConcatProperties
  <2>4. /\ Pick(h, O) \o << >> = Pick(h, O)
        /\ (Pick(h, O) \o m) \o << >> = Pick(h, O) \o m
        /\ Pick(h, E) \o << >> = Pick(h, E)
    BY <2>3, ConcatEmptySeq
  <2> QED
    BY <1>4, <1>7, <2>1, <2>2, <2>4
<1>9. ASSUME NEW u \in Keys, u # k
      PROVE  Box(u)' = Box(u) /\ Echo(u)' = Echo(u)
  <2>1. Stream(u)' = Stream(u)
    BY <1>2, <1>9 DEF Stream, TypeOK
  <2> QED
    BY <1>5, <2>1 DEF Box, Echo
<1>10. /\ [u \in Keys |-> Box(u)]' = [[u \in Keys |-> Box(u)] EXCEPT ![k] = @ \o roomsHistory[r]]
       /\ [u \in Keys |-> Echo(u)]' = [u \in Keys |-> Echo(u)]
  BY <1>1, <1>8, <1>9
<1>11. Promise!Join(k, r)
  BY <1>1, <1>2, <1>10 DEF Promise!Join, Box, Echo
<1> QED
  BY <1>1, <1>11 DEF Promise!Next

LEMMA NewRoomIsCreate ==
    ASSUME RInv, NEW c \in Conns, NEW f \in Frames, NEW r \in Rooms, HandleNewRoom(c, f, r),
           author' = author, handed' = handed
    PROVE  Promise!Next
<1> USE DEF RInv, Inv
<1>1. /\ pubKey[c] \in Keys /\ owner[r] = NoKey
      /\ owner' = [owner EXCEPT ![r] = pubKey[c]]
      /\ users' = [users EXCEPT ![r] = {pubKey[c]}]
      /\ UNCHANGED <<history, roomsHistory>>
  BY DEF HandleNewRoom, KeyedRequest, Exists, TypeOK
<1>2. \A k \in Keys : Box(k)' = Box(k) /\ Echo(k)' = Echo(k)
  BY <1>1, StreamsStay DEF Stream
<1>3. Promise!Create(pubKey[c], r)
  BY <1>1, <1>2 DEF Promise!Create, Box, Echo
<1> QED
  BY <1>1, <1>3 DEF Promise!Next

LEMMA RestIsUnseen ==
    ASSUME UNCHANGED <<owner, users, roomsHistory, history, handed, author>>
    PROVE  UNCHANGED Promise!vars
  BY StreamsStay, BehindTheBoxes DEF Stream

LEMMA HandledIsPromised ==
    ASSUME RInv, NEW c \in Conns, NEW f \in Frames, HandledBy(c, f)
    PROVE  Promise!Next \/ UNCHANGED Promise!vars
<1>1. up[c] # << >> /\ f = Head(up[c]) /\ author' = author
  BY DEF HandledBy
<1>2. CASE HandleMessage(c, f) /\ Relayed(f.room, pubKey[c], f)
  BY <1>1, <1>2, MessageIsPost
<1>3. CASE HandleKeyRotate(c, f) /\ Relayed(f.room, pubKey[c], f)
  BY <1>1, <1>3, KeyRotateIsRotate
<1>4. CASE HandleInviteResponse(c, f) /\ Hand(f.key, roomsHistory[f.room])
  BY <1>1, <1>4, AdmissionIsJoin
<1>5. CASE HandlePublicKey(c, f) /\ Hand(f.key, history[f.key])
  BY <1>1, <1>5, AnnouncingIsUnseen
<1>6. CASE AnswerFrame(c, f) /\ UNCHANGED handed
  <2>1. CASE \E r \in Rooms : HandleNewRoom(c, f, r)
    BY <1>1, <1>6, <2>1, NewRoomIsCreate
  <2>2. CASE ~\E r \in Rooms : HandleNewRoom(c, f, r)
    <3>1. UNCHANGED <<owner, users, roomsHistory, history, handed, author>>
      BY <1>1, <1>6, <2>2 DEF AnswerFrame, HandleInvite, DeclineInvite, DropInviteResponse,
         HandleOpenRoom, RefuseMessage, RefuseKeyRotate, Refuse, serverVars
    <3> QED
      BY <3>1, RestIsUnseen
  <2> QED
    BY <2>1, <2>2
<1> QED
  BY <1>2, <1>3, <1>4, <1>5, <1>6 DEF HandledBy, RelayFrame

LEMMA NextIsPromised ==
    ASSUME RInv, [Next]_vars
    PROVE  [Promise!Next]_(Promise!vars)
<1>1. ASSUME NEW c \in Conns,
             \/ \E k \in Keys : \E first \in Frames : Connect(k, c, first)
             \/ Receive(c) \/ Leave(c)
             \/ HandleClose(c) /\ UNCHANGED <<clientVars, logVars>>
      PROVE  UNCHANGED <<owner, users, roomsHistory, history, handed, author>>
  BY <1>1 DEF Connect, Receive, Send, Leave, HandleClose, serverVars, logVars
<1>2. CASE UNCHANGED vars
  BY <1>2, RestIsUnseen DEF vars, serverVars, logVars
<1> QED
  BY <1>1, <1>2, NextCases, RestIsUnseen, PostIsUnseen, HandledIsPromised DEF RInv, Inv

LEMMA InitIsPromised == Init => Promise!Init
<1> SUFFICES ASSUME Init
             PROVE  Promise!Init
  OBVIOUS
<1> DEFINE none == << >>
<1>1. none \in Seq(Frames)
  BY EmptySeq
<1>2. none \o none = none
  BY <1>1, ConcatEmptySeq
<1> HIDE DEF none
<1>3. \A k \in Keys : Stream(k) = none
  BY <1>2 DEF none, Init, ServerInit, Stream
<1>4. \A F : Pick(none, F) = none
  BY PickOfNone DEF none
<1> QED
  BY <1>3, <1>4 DEF none, Init, ServerInit, Promise!Init

(* The relay keeps the promise of Mailboxes: over whatever connections, a  *)
(* member is written every frame of the others once, in the one order of   *)
(* the room, first those since the last rotation; what waits in a backlog  *)
(* never falls behind what is sent live (server.py:80-147).                *)
THEOREM RelayKeepsThePromise == Spec => KeepsThePromise
<1>1. Init => RInv
  BY InitType, InitSpeakers, InitRooms, InitKept, InitAsks, InitPosts, InitBacklog
     DEF Inv, RInv
<1>2. RInv /\ [Next]_vars => RInv'
  <2>1. Inv /\ [Next]_vars => Inv'
    BY NextType, NextSpeakers, NextRooms, NextKept DEF Inv
  <2> QED
    BY <2>1, NextAsks, NextPosts, NextBacklog DEF RInv, Inv
<1>3. RInv /\ [Next]_vars => [Promise!Next]_(Promise!vars)
  BY NextIsPromised
<1> QED
  BY <1>1, <1>2, <1>3, InitIsPromised, PTL DEF Spec, KeepsThePromise, Promise!Spec

=============================================================================
