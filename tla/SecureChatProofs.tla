--------------------------- MODULE SecureChatProofs ---------------------------
(***************************************************************************)
(* Theorems about SecureChat: its state keeps its types, what a file holds *)
(* can be opened, a room is forgotten only when it is lost, who crashes,   *)
(* and an invitation gives the room key to one key pair only.              *)
(*                                                                         *)
(* Inv speaks of a conversation as a whole, since the code of either side  *)
(* trusts what the other side sent.  A connection speaks for one key from  *)
(* its PUBKEY on, whatever becomes of the client (SpokenBy).  What is on   *)
(* its way up is one first request and then only posts and answers; what   *)
(* is on its way down is a reply to that first request, at most one and    *)
(* only once the request is served, or a frame of the rooms the key is in. *)
(* A client knows of its room what the owner sealed for it (RoomOK) and    *)
(* what its invitation said (OriginOK).                                    *)
(*                                                                         *)
(* SpentOK, on top of it, follows one invitation: as long as its owner     *)
(* keeps it no answer carries its token, and once one does, all that carry *)
(* it and all that was opened with it belong to one key pair.              *)
(***************************************************************************)
EXTENDS SecureChat, SequenceTheorems, TLAPS

(* What travels, and on which side.                                        *)
Seals ==
    [seal : RoomKeys \cup {NoCipher}, token : Invites \cup {NoInvite},
     content : RoomKeys \cup Texts]

Frames ==
    [cmd : Commands, key : Keys \cup {NoKey}, room : Rooms \cup {NoRoom},
     from : Keys \cup {NoKey}, body : Seals \cup {NoBody}]

Posts ==
    {f \in Frames :
        /\ f.cmd \in {"ROOM.MESSAGE", "ROOM.MESSAGE.KEY.ROTATE"}
        /\ f.room \in Rooms
        /\ f.body \in Seals
        /\ f.body.seal \in RoomKeys
        /\ f.cmd = "ROOM.MESSAGE" => f.body.content \in Texts
        /\ f.cmd = "ROOM.MESSAGE.KEY.ROTATE" =>
               f.body.content \in RoomKeys /\ f.body.content.by = f.body.seal.by}

Invitation(r, o) == [room |-> r, owner |-> o]

Asks ==
    {f \in Frames :
        /\ f.cmd = "ROOM.INVITE.VERIFICATION_REQUEST"
        /\ f.room \in Rooms
        /\ f.key \in Keys
        /\ f.from \in Keys
        /\ f.body \in Seals
        /\ f.body.token \in Invites
        /\ issued[f.body.token] = Invitation(f.room, f.key)
        /\ f.body.content \in RoomKeys
        /\ f.body.content.by \notin Creators}

Answers ==
    {f \in Frames :
        /\ f.cmd = "ROOM.INVITE.VERIFICATION_RESPONSE"
        /\ f.room \in Rooms
        /\ f.key \in Keys
        /\ f.from \in Creators
        /\ owner[f.room] = f.from
        /\ f.body \in Seals
        /\ f.body.seal \in RoomKeys
        /\ f.body.seal.by \notin Creators
        /\ f.body.content \in RoomKeys
        /\ f.body.content.by = f.from
        /\ f.body.token # NoInvite => issued[f.body.token] = Invitation(f.room, f.from)}

Later == Posts \cup Answers

Firsts(w) ==
    {f \in Frames :
        \/ f.cmd = "ROOM.CREATE" /\ w \in Creators
        \/ f.cmd = "ROOM.OPEN" /\ f.room \in Rooms}
    \cup Asks

FirstCommands == {"ROOM.CREATE", "ROOM.OPEN", "ROOM.INVITE.VERIFICATION_REQUEST"}

ReplyCommands == {"ROOM.CREATED", "ROOM.OPENED", "ROOM.NOT_EXIST"}

FromClient(w) == Firsts(w) \cup Later

Requests(c) == IF pubKey[c] # NoKey THEN up[c] ELSE Tail(up[c])

(* The client of key w is, or was, at the end of connection c.             *)
SpokenBy(c, w) ==
    /\ \/ pubKey[c] = w
       \/ pubKey[c] = NoKey /\ up[c] # << >> /\ Head(up[c]) = PublicKey(w)
    /\ Requests(c) \in Seq(FromClient(w))
    /\ Requests(c) # << >> => Tail(Requests(c)) \in Seq(Later)

LinkOK(c) ==
    /\ link[c] # "open" => down[c] = << >>
    /\ link[c] = "free" => up[c] = << >> /\ pubKey[c] = NoKey
    /\ pubKey[c] = NoKey => down[c] = << >>
    /\ pubKey[c] # NoKey \/ up[c] # << >> => \E w \in Keys : SpokenBy(c, w)

ServerTypes ==
    /\ link \in [Conns -> LinkStates]
    /\ up \in [Conns -> Seq(Frames)]
    /\ down \in [Conns -> Seq(Frames)]
    /\ owner \in [Rooms -> Creators \cup {NoKey}]
    /\ users \in [Rooms -> SUBSET Keys]
    /\ online \in [Keys -> Conns \cup {NoConn}]
    /\ pubKey \in [Conns -> Keys \cup {NoKey}]
    /\ draws \in [Keys -> Nat]
    /\ issued \in [Invites -> [room : Rooms, owner : Keys] \cup {NoInvite}]
    /\ taken \in SUBSET Rooms
    /\ restarts \in Nat

PostsOf(r) == {f \in Posts : f.room = r}
PostsTo(k) == {f \in Posts : k \in users[f.room]}

ServerOK ==
    /\ history \in [Keys -> Seq(Posts)]
    /\ roomsHistory \in [Rooms -> Seq(Posts)]
    /\ \A r \in Rooms : roomsHistory[r] \in Seq(PostsOf(r))
    /\ \A k \in Keys : history[k] \in Seq(PostsTo(k))
    /\ \A k \in Keys : online[k] # NoConn => pubKey[online[k]] = k
    /\ \A r \in Rooms : IF Exists(r) THEN r \in taken ELSE users[r] = {}
    /\ restarts = 0 => \A r \in taken : Exists(r)

(* d is what key pair k knows about a room of which it has the key.        *)
RoomOK(k, d) ==
    /\ d.owner \in Creators
    /\ d.roomKey.by = d.owner
    /\ d.name # NoRoom =>
          /\ d.name \in taken
          /\ Exists(d.name) => owner[d.name] = d.owner /\ k \in users[d.name]

OriginOK(k, d) ==
    IF k \in Creators
    THEN d.owner = k /\ d.invite = NoInvite
    ELSE /\ d.messageCount = Null
         /\ d.name # NoRoom
         /\ d.invite \in Invites
         /\ issued[d.invite] = Invitation(d.name, d.owner)

ClientOK(k) ==
    /\ stage[k] \in {"absent", "crashed"} <=> data[k] = NoData
    /\ data[k] = NoData => conn[k] = NoConn /\ ~Keyed(k)
    /\ data[k] # NoData =>
          /\ OriginOK(k, data[k])
          /\ data[k].name = NoRoom => saved[k] = NoData /\ stage[k] = "waiting"
          /\ Keyed(k) => cipher[k] = data[k].roomKey /\ RoomOK(k, data[k])
          /\ ~Keyed(k) =>
                /\ k \notin Creators
                /\ stage[k] = "waiting"
                /\ saved[k] = NoData
                /\ data[k].roomKey = RoomKey(k, 1)
          /\ stage[k] = "waiting" => data[k].invites = {}
          /\ \A i \in data[k].invites : issued[i] = Invitation(data[k].name, k)
    /\ saved[k] # NoData =>
          /\ OriginOK(k, saved[k])
          /\ RoomOK(k, saved[k])
          /\ saved[k].name # NoRoom
          /\ saved[k].invites = {}
          /\ draws[k] # 0
          /\ data[k] # NoData => data[k].name = saved[k].name
    /\ draws[k] = 0 => data[k] = NoData

Creating(k) == data[k].name = NoRoom

Reopening(k) ==
    /\ stage[k] = "waiting"
    /\ Keyed(k)
    /\ data[k].name # NoRoom

(* The replies client k may find on its connection, and all it may find.   *)
Replies(k) ==
    {f \in Frames :
        \/ /\ f.cmd = "ROOM.CREATED"
           /\ f.room \in Rooms
           /\ owner[f.room] = k
           /\ k \in users[f.room]
           /\ Creating(k)
        \/ /\ f.cmd = "ROOM.OPENED"
           /\ Reopening(k)
        \/ /\ f.cmd = "ROOM.NOT_EXIST"
           /\ Reopening(k)
           /\ f.room = data[k].name
           /\ ~Exists(f.room)}

Others(k) ==
    PostsTo(k)
    \cup {f \in Asks : f.key = k /\ owner[f.room] = k}
    \cup {f \in Answers : f.key = k /\ k \in users[f.room]}
    \cup {f \in Frames : f.cmd \in {"ROOM.INVITE.DECLINED", "ROOM.MESSAGE.ERROR"}}

ToClient(k) == Replies(k) \cup Others(k)

AtMostOne(s, cmds) ==
    \A i, j \in DOMAIN s : s[i].cmd \in cmds /\ s[j].cmd \in cmds => i = j

FirstIs(k, f) ==
    \/ f.cmd = "ROOM.CREATE" /\ Creating(k)
    \/ f.cmd = "ROOM.OPEN" /\ Reopening(k) /\ f.room = data[k].name
    \/ f.cmd = "ROOM.INVITE.VERIFICATION_REQUEST"

ConnOK(k) ==
    conn[k] # NoConn =>
        LET c == conn[k]
        IN  /\ link[c] = "open"
            /\ SpokenBy(c, k)
            /\ down[c] \in Seq(ToClient(k))
            /\ AtMostOne(down[c], ReplyCommands)
            /\ Requests(c) # << >> /\ Head(Requests(c)).cmd \in FirstCommands =>
                  /\ FirstIs(k, Head(Requests(c)))
                  /\ down[c] \in Seq(Others(k))

Inv ==
    /\ TypeOK
    /\ ServerTypes
    /\ ServerOK
    /\ \A c \in Conns : LinkOK(c)
    /\ \A k \in Keys : ClientOK(k) /\ ConnOK(k)

(* The answer that brings k the key of the room of invitation i.           *)
Gives(f, k, i) ==
    /\ f.cmd = "ROOM.INVITE.VERIFICATION_RESPONSE"
    /\ f.key = k
    /\ f.body.token = i

Harmless(k, i) == {f \in Frames : ~Gives(f, k, i)}

WireUnspent(k, i) ==
    \A c \in Conns : up[c] \in Seq(Harmless(k, i)) /\ down[c] \in Seq(Harmless(k, i))

(* Invitation i has not given key pair k anything, nor is about to.        *)
Unspent(k, i) ==
    /\ WireUnspent(k, i)
    /\ data[k] # NoData /\ Keyed(k) => data[k].invite # i
    /\ saved[k] # NoData => saved[k].invite # i

SpentOK ==
    \A i \in Invites : \A k \in Keys : ~Unspent(k, i) =>
        /\ issued[i] # NoInvite
        /\ \A l \in Keys : ~Unspent(l, i) => l = k
        /\ \A l \in Keys : data[l] # NoData => i \notin data[l].invites

-----------------------------------------------------------------------------
(* Sequences.                                                              *)

LEMMA SeqGrows ==
    ASSUME NEW S, NEW T, S \subseteq T, NEW s \in Seq(S)
    PROVE  s \in Seq(T)
  BY SeqMonotonic

LEMMA PrefixSeq ==
    ASSUME NEW S, NEW s \in Seq(S), NEW n \in 0 .. Len(s)
    PROVE  /\ SubSeq(s, 1, n) \in Seq(S)
           /\ Len(SubSeq(s, 1, n)) = n
           /\ \A i \in 1 .. n : SubSeq(s, 1, n)[i] = s[i]
<1>1. Len(s) \in Nat
  BY LenProperties
<1>2. \A i \in 1 .. n : s[i] \in S
  BY <1>1, ElementOfSeq
<1>3. 1 \in Int /\ n \in Int
  BY <1>1
<1>4. /\ SubSeq(s, 1, n) \in Seq(S)
      /\ Len(SubSeq(s, 1, n)) = IF 1 <= n THEN n - 1 + 1 ELSE 0
      /\ \A i \in 1 .. n - 1 + 1 : SubSeq(s, 1, n)[i] = s[1 + i - 1]
  BY <1>2, <1>3, SubSeqProperties
<1> QED
  BY <1>1, <1>4

(* A prefix that is not empty has the same head, and a prefix of the tail. *)
LEMMA PrefixHeadTail ==
    ASSUME NEW S, NEW s \in Seq(S), NEW n \in 0 .. Len(s), SubSeq(s, 1, n) # << >>
    PROVE  /\ s # << >>
           /\ n - 1 \in 0 .. Len(Tail(s))
           /\ Head(SubSeq(s, 1, n)) = Head(s)
           /\ Tail(SubSeq(s, 1, n)) = SubSeq(Tail(s), 1, n - 1)
<1>1. Len(s) \in Nat
  BY LenProperties
<1>2. n # 0
  BY <1>1, SubSeqEmpty
<1>3. s # << >>
  BY <1>1, <1>2, EmptySeq
<1>4. /\ Tail(s) \in Seq(S) /\ Len(Tail(s)) = Len(s) - 1
      /\ \A i \in 1 .. Len(Tail(s)) : Tail(s)[i] = s[i + 1]
  BY <1>3, HeadTailProperties
<1>5. n - 1 \in 0 .. Len(Tail(s))
  BY <1>1, <1>2, <1>4
<1>6. 1 \in 1 .. Len(s) /\ n \in 1 .. Len(s)
  BY <1>1, <1>2
<1>7. Head(SubSeq(s, 1, n)) = s[1] /\ Tail(SubSeq(s, 1, n)) = SubSeq(s, 2, n)
  <2>1. /\ Head(SubSeq(s, 1, n)) = s[1]
        /\ Tail(SubSeq(s, 1, n)) = SubSeq(s, 1 + 1, n)
    BY <1>6, HeadTailOfSubSeq
  <2> QED
    BY <2>1
<1>8. SubSeq(s, 2, n) = SubSeq(Tail(s), 1, n - 1)
  <2>1. \A i \in 2 .. n : s[i] \in S
    BY <1>1, <1>6, ElementOfSeq
  <2>2. /\ SubSeq(s, 2, n) \in Seq(S)
        /\ Len(SubSeq(s, 2, n)) = IF 2 <= n THEN n - 2 + 1 ELSE 0
        /\ \A i \in 1 .. n - 2 + 1 : SubSeq(s, 2, n)[i] = s[2 + i - 1]
    BY <1>6, <2>1, SubSeqProperties
  <2>3. /\ SubSeq(Tail(s), 1, n - 1) \in Seq(S)
        /\ Len(SubSeq(Tail(s), 1, n - 1)) = n - 1
        /\ \A i \in 1 .. n - 1 : SubSeq(Tail(s), 1, n - 1)[i] = Tail(s)[i]
    BY <1>4, <1>5, PrefixSeq
  <2>4. Len(SubSeq(s, 2, n)) = n - 1
    BY <1>6, <2>2
  <2>5. \A i \in 1 .. n - 1 : SubSeq(s, 2, n)[i] = SubSeq(Tail(s), 1, n - 1)[i]
    BY <1>1, <1>4, <1>6, <2>2, <2>3
  <2> QED
    BY <2>2, <2>3, <2>4, <2>5, SeqEqual
<1>9. Head(s) = s[1]
  BY <1>3
<1> QED
  BY <1>3, <1>5, <1>7, <1>8, <1>9

LEMMA ElementsMakeSeq ==
    ASSUME NEW S, NEW T, NEW s \in Seq(S), \A i \in DOMAIN s : s[i] \in T
    PROVE  s \in Seq(T)
<1>1. Len(s) \in Nat /\ DOMAIN s = 1 .. Len(s) /\ s \in [1 .. Len(s) -> S]
  BY LenProperties
<1>2. s \in [1 .. Len(s) -> T]
  BY <1>1
<1> QED
  BY <1>1, <1>2, SeqDef

LEMMA AppendIsNotEmpty ==
    ASSUME NEW S, NEW s \in Seq(S), NEW e
    PROVE  Append(s, e) # << >>
<1>1. s \in Seq(S \cup {e}) /\ e \in S \cup {e}
  BY SeqMonotonic
<1> QED
  BY <1>1, AppendProperties

LEMMA TailOfAppend ==
    ASSUME NEW S, NEW T, NEW s \in Seq(S), NEW e \in T, s # << >> => Tail(s) \in Seq(T)
    PROVE  Tail(Append(s, e)) \in Seq(T)
<1>1. Tail(Append(s, e)) = IF s = << >> THEN << >> ELSE Append(Tail(s), e)
  BY HeadTailAppend
<1>2. CASE s = << >>
  BY <1>1, <1>2, EmptySeq
<1>3. CASE s # << >>
  BY <1>1, <1>3, AppendProperties
<1> QED
  BY <1>2, <1>3

(* At most one element of a kind.                                          *)
LEMMA NoneIsAtMostOne ==
    ASSUME NEW S, NEW s \in Seq(S), NEW cmds, \A f \in S : f.cmd \notin cmds
    PROVE  AtMostOne(s, cmds)
<1>1. \A i \in DOMAIN s : s[i] \in S
  BY LenProperties, ElementOfSeq
<1> QED
  BY <1>1 DEF AtMostOne

LEMMA TailAtMostOne ==
    ASSUME NEW S, NEW T, NEW s \in Seq(S), s # << >>, NEW cmds, AtMostOne(s, cmds)
    PROVE  /\ AtMostOne(Tail(s), cmds)
           /\ Head(s).cmd \in cmds /\ (\A f \in S : f.cmd \notin cmds => f \in T)
                => Tail(s) \in Seq(T)
<1>1. /\ Len(s) \in Nat /\ Len(s) > 0
      /\ DOMAIN s = 1 .. Len(s)
      /\ Head(s) = s[1]
  BY LenProperties, EmptySeq
<1>2. /\ Tail(s) \in Seq(S) /\ Len(Tail(s)) = Len(s) - 1
      /\ \A i \in 1 .. Len(Tail(s)) : Tail(s)[i] = s[i + 1]
  BY HeadTailProperties
<1>3. DOMAIN Tail(s) = 1 .. Len(s) - 1
  BY <1>2, LenProperties
<1>4. \A i \in 1 .. Len(s) - 1 : Tail(s)[i] = s[i + 1] /\ i + 1 \in DOMAIN s
  BY <1>1, <1>2
<1>5. AtMostOne(Tail(s), cmds)
  <2>1. ASSUME NEW i \in 1 .. Len(s) - 1, NEW j \in 1 .. Len(s) - 1,
               Tail(s)[i].cmd \in cmds, Tail(s)[j].cmd \in cmds
        PROVE  i = j
    <3>1. i + 1 = j + 1
      BY <1>4, <2>1 DEF AtMostOne
    <3> QED
      BY <1>1, <3>1
  <2> QED
    BY <1>3, <2>1 DEF AtMostOne
<1>6. ASSUME Head(s).cmd \in cmds, \A f \in S : f.cmd \notin cmds => f \in T
      PROVE  Tail(s) \in Seq(T)
  <2>1. ASSUME NEW i \in 1 .. Len(s) - 1
        PROVE  Tail(s)[i] \in T
    <3>1. Tail(s)[i] \in S
      BY <1>1, <1>2, <2>1, ElementOfSeq
    <3>2. Tail(s)[i].cmd \notin cmds
      BY <1>1, <1>4, <1>6, <2>1 DEF AtMostOne
    <3> QED
      BY <1>6, <3>1, <3>2
  <2> QED
    BY <1>2, <1>3, <2>1, LenProperties, ElementsMakeSeq
<1> QED
  BY <1>5, <1>6

LEMMA AppendAtMostOne ==
    ASSUME NEW S, NEW s \in Seq(S), NEW t \in Seq(S), NEW cmds,
           \/ AtMostOne(s, cmds) /\ \A i \in DOMAIN t : t[i].cmd \notin cmds
           \/ AtMostOne(t, cmds) /\ \A i \in DOMAIN s : s[i].cmd \notin cmds
    PROVE  AtMostOne(s \o t, cmds)
<1>1. /\ Len(s) \in Nat /\ Len(t) \in Nat
      /\ DOMAIN s = 1 .. Len(s) /\ DOMAIN t = 1 .. Len(t)
  BY LenProperties
<1>2. /\ s \o t \in Seq(S)
      /\ Len(s \o t) = Len(s) + Len(t)
      /\ \A i \in 1 .. Len(s) + Len(t) :
            (s \o t)[i] = IF i <= Len(s) THEN s[i] ELSE t[i - Len(s)]
  BY ConcatProperties
<1>3. DOMAIN (s \o t) = 1 .. Len(s) + Len(t)
  BY <1>2, LenProperties
<1>4. ASSUME NEW i \in DOMAIN (s \o t), NEW j \in DOMAIN (s \o t),
             (s \o t)[i].cmd \in cmds, (s \o t)[j].cmd \in cmds
      PROVE  i = j
  <2>1. CASE i <= Len(s) /\ j <= Len(s)
    BY <1>1, <1>2, <1>3, <1>4, <2>1 DEF AtMostOne
  <2>2. CASE i > Len(s) /\ j > Len(s)
    <3>1. /\ i - Len(s) \in DOMAIN t /\ (s \o t)[i] = t[i - Len(s)]
          /\ j - Len(s) \in DOMAIN t /\ (s \o t)[j] = t[j - Len(s)]
      BY <1>1, <1>2, <1>3, <2>2
    <3>2. i - Len(s) = j - Len(s)
      BY <1>4, <3>1 DEF AtMostOne
    <3> QED
      BY <1>1, <1>3, <3>2
  <2>3. CASE i <= Len(s) /\ j > Len(s)
    <3>1. /\ i \in DOMAIN s /\ (s \o t)[i] = s[i]
          /\ j - Len(s) \in DOMAIN t /\ (s \o t)[j] = t[j - Len(s)]
      BY <1>1, <1>2, <1>3, <2>3
    <3> QED
      BY <1>4, <3>1
  <2>4. CASE i > Len(s) /\ j <= Len(s)
    <3>1. /\ j \in DOMAIN s /\ (s \o t)[j] = s[j]
          /\ i - Len(s) \in DOMAIN t /\ (s \o t)[i] = t[i - Len(s)]
      BY <1>1, <1>2, <1>3, <2>4
    <3> QED
      BY <1>4, <3>1
  <2> QED
    BY <1>1, <1>3, <2>1, <2>2, <2>3, <2>4
<1> QED
  BY <1>4 DEF AtMostOne

-----------------------------------------------------------------------------
(* What stays while rooms, memberships, invitations and the ids given out  *)
(* only grow: that is, in every step but a restart of the server.          *)
Grows ==
    /\ \A r \in Rooms : Exists(r) => owner'[r] = owner[r]
    /\ \A r \in taken : owner'[r] = owner[r]
    /\ \A r \in Rooms : users[r] \subseteq users'[r]
    /\ \A i \in Invites : issued[i] # NoInvite => issued'[i] = issued[i]
    /\ taken \subseteq taken'

SameLink(c) ==
    link'[c] = link[c] /\ up'[c] = up[c] /\ down'[c] = down[c] /\ pubKey'[c] = pubKey[c]

SameClient(k) ==
    /\ stage'[k] = stage[k]
    /\ conn'[k] = conn[k]
    /\ data'[k] = data[k]
    /\ cipher'[k] = cipher[k]
    /\ saved'[k] = saved[k]
    /\ draws'[k] = draws[k]

LEMMA InvitationIsSome ==
    ASSUME NEW r \in Rooms, NEW o \in Keys
    PROVE  Invitation(r, o) # NoInvite
  BY NullsOK DEF Invitation

LEMMA AsksGrow ==
    ASSUME Grows
    PROVE  Asks \subseteq Asks'
<1>1. ASSUME NEW f \in Asks
      PROVE  f \in Asks'
  <2>1. issued[f.body.token] # NoInvite
    BY InvitationIsSome DEF Asks
  <2>2. issued'[f.body.token] = issued[f.body.token]
    BY <2>1 DEF Grows, Asks
  <2> QED
    BY <2>2 DEF Asks
<1> QED
  BY <1>1

LEMMA AnswersGrow ==
    ASSUME Grows
    PROVE  Answers \subseteq Answers'
<1>1. ASSUME NEW f \in Answers
      PROVE  f \in Answers'
  <2>1. owner'[f.room] = owner[f.room]
    BY ConstantsOK, NullsOK DEF Grows, Answers, Exists
  <2>2. ASSUME f.body.token # NoInvite
        PROVE  issued'[f.body.token] = Invitation(f.room, f.from)
    <3>1. f.body.token \in Invites /\ issued[f.body.token] # NoInvite
      BY <2>2, InvitationIsSome, ConstantsOK DEF Answers, Seals
    <3> QED
      BY <2>2, <3>1 DEF Grows, Answers
  <2> QED
    BY <2>1, <2>2 DEF Answers
<1> QED
  BY <1>1

LEMMA SetsGrow ==
    ASSUME Grows
    PROVE  /\ Later \subseteq Later'
           /\ \A w : Firsts(w) \subseteq Firsts(w)'
           /\ \A k : PostsTo(k) \subseteq PostsTo(k)'
           /\ \A k : Others(k) \subseteq Others(k)'
<1>1. Later \subseteq Later'
  BY AnswersGrow DEF Later
<1>2. ASSUME NEW w PROVE Firsts(w) \subseteq Firsts(w)'
  BY AsksGrow DEF Firsts
<1>3. ASSUME NEW k PROVE PostsTo(k) \subseteq PostsTo(k)'
  BY DEF Grows, PostsTo, Posts
<1>4. ASSUME NEW k PROVE Others(k) \subseteq Others(k)'
  <2>1. {f \in Asks : f.key = k /\ owner[f.room] = k}
          \subseteq {f \in Asks' : f.key = k /\ owner'[f.room] = k}
    BY AsksGrow, NullsOK DEF Grows, Asks, Exists
  <2>2. {f \in Answers : f.key = k /\ k \in users[f.room]}
          \subseteq {f \in Answers' : f.key = k /\ k \in users'[f.room]}
    BY AnswersGrow DEF Grows, Answers
  <2> QED
    BY <1>3, <2>1, <2>2 DEF Others
<1> QED
  BY <1>1, <1>2, <1>3, <1>4

(* The replies on their way to a client stay what they are, too.           *)
LEMMA RepliesGrow ==
    ASSUME Grows, TypeOK, NEW k \in Keys, ClientOK(k), data[k] # NoData,
           stage'[k] = stage[k], data'[k].name = data[k].name, Keyed(k) => Keyed(k)'
    PROVE  Replies(k) \subseteq Replies(k)'
<1>1. ASSUME NEW f \in Frames, f.cmd = "ROOM.CREATED", f.room \in Rooms,
             owner[f.room] = k, k \in users[f.room], Creating(k)
      PROVE  owner'[f.room] = k /\ k \in users'[f.room] /\ Creating(k)'
  BY <1>1, NullsOK DEF Grows, Exists, Creating
<1>2. Reopening(k) => Reopening(k)'
  BY DEF Reopening
<1>3. ASSUME NEW f \in Frames, Reopening(k), f.room = data[k].name, ~Exists(f.room)
      PROVE  f.room = data'[k].name /\ ~Exists(f.room)'
  <2>1. data[k].name \in taken
    BY <1>3 DEF ClientOK, Reopening, RoomOK
  <2> QED
    BY <1>3, <2>1 DEF Grows, Exists
<1> QED
  BY <1>1, <1>2, <1>3 DEF Replies

LEMMA FromClientGrows ==
    ASSUME Grows, NEW w
    PROVE  FromClient(w) \subseteq FromClient(w)'
  BY SetsGrow DEF FromClient

LEMMA LinkStays ==
    ASSUME Grows, NEW c \in Conns, SameLink(c)
    PROVE  /\ Requests(c)' = Requests(c)
           /\ \A w \in Keys : SpokenBy(c, w) => SpokenBy(c, w)'
           /\ LinkOK(c) => LinkOK(c)'
<1>1. Requests(c)' = Requests(c)
  BY DEF SameLink, Requests
<1>2. ASSUME NEW w \in Keys, SpokenBy(c, w)
      PROVE  SpokenBy(c, w)'
  <2>1. Requests(c) \in Seq(FromClient(w)')
    BY <1>2, FromClientGrows, SeqGrows DEF SpokenBy
  <2>2. Requests(c) # << >> => Tail(Requests(c)) \in Seq(Later')
    BY <1>2, SetsGrow, SeqGrows DEF SpokenBy
  <2> QED
    BY <1>1, <1>2, <2>1, <2>2 DEF SpokenBy, SameLink
<1> QED
  BY <1>1, <1>2 DEF LinkOK, SameLink

LEMMA SpokenByOne ==
    ASSUME NEW c \in Conns, NEW k \in Keys, NEW l \in Keys, SpokenBy(c, k), SpokenBy(c, l)
    PROVE  k = l
<1>1. PublicKey(k).key = k /\ PublicKey(l).key = l
  BY DEF PublicKey, Frame
<1> QED
  BY <1>1, NullsOK DEF SpokenBy

LEMMA RoomStays ==
    ASSUME Grows, NEW k \in Keys, NEW d, RoomOK(k, d), d.name \in Rooms \cup {NoRoom}
    PROVE  RoomOK(k, d)'
  BY DEF Grows, RoomOK, Exists

LEMMA OriginStays ==
    ASSUME Grows, NEW k \in Keys, NEW d \in Datas, OriginOK(k, d)
    PROVE  OriginOK(k, d)'
<1>1. CASE k \in Creators
  BY <1>1 DEF OriginOK
<1>2. CASE k \notin Creators
  <2>1. d.name \in Rooms /\ d.owner \in Keys /\ d.invite \in Invites
    BY <1>2 DEF OriginOK, Datas
  <2>2. issued'[d.invite] = issued[d.invite]
    BY <1>2, <2>1, InvitationIsSome DEF OriginOK, Grows
  <2> QED
    BY <1>2, <2>2 DEF OriginOK
<1> QED
  BY <1>1, <1>2

LEMMA ClientStays ==
    ASSUME Grows, TypeOK, NEW k \in Keys, ClientOK(k), SameClient(k)
    PROVE  ClientOK(k)'
<1>1. data[k] # NoData => data[k] \in Datas
  BY DEF TypeOK
<1>2. saved[k] # NoData => saved[k] \in Datas
  BY DEF TypeOK
<1>3. \A d \in Datas : RoomOK(k, d) => RoomOK(k, d)'
  BY RoomStays DEF Datas
<1>4. \A d \in Datas : OriginOK(k, d) => OriginOK(k, d)'
  BY OriginStays
<1>5. ASSUME data[k] # NoData, NEW i \in data[k].invites
      PROVE  issued'[i] = issued[i]
  <2>1. i \in Invites /\ data[k].name \in Rooms \cup {NoRoom}
    BY <1>1, <1>5 DEF Datas
  <2>2. data[k].name # NoRoom
    BY <1>5 DEF ClientOK
  <2> QED
    BY <1>5, <2>1, <2>2, InvitationIsSome DEF ClientOK, Grows
<1> QED
  BY <1>1, <1>2, <1>3, <1>4, <1>5 DEF ClientOK, SameClient, Keyed

LEMMA ConnStays ==
    ASSUME Grows, TypeOK, NEW k \in Keys, ClientOK(k), ConnOK(k), SameClient(k),
           conn[k] # NoConn => SameLink(conn[k])
    PROVE  ConnOK(k)'
<1> SUFFICES ASSUME conn[k] # NoConn
             PROVE  ConnOK(k)'
  BY DEF ConnOK, SameClient
<1> DEFINE c == conn[k]
<1>1. c \in Conns /\ conn'[k] = c /\ SameLink(c) /\ data[k] # NoData
  BY DEF TypeOK, SameClient, ClientOK
<1>2. Replies(k) \subseteq Replies(k)'
  BY <1>1, RepliesGrow DEF SameClient, Keyed
<1>3. ToClient(k) \subseteq ToClient(k)' /\ Others(k) \subseteq Others(k)'
  BY <1>2, SetsGrow DEF ToClient
<1>4. down[c] \in Seq(ToClient(k)')
  BY <1>3, SeqGrows DEF ConnOK
<1>5. down[c] \in Seq(Others(k)) => down[c] \in Seq(Others(k)')
  BY <1>3, SeqGrows
<1>6. Requests(c)' = Requests(c) /\ SpokenBy(c, k)'
  BY <1>1, LinkStays DEF ConnOK
<1>7. \A f : FirstIs(k, f) => FirstIs(k, f)'
  BY DEF FirstIs, Creating, Reopening, Keyed, SameClient
<1> QED
  BY <1>1, <1>4, <1>5, <1>6, <1>7 DEF ConnOK, SameLink

-----------------------------------------------------------------------------
(* What a step does to one connection.                                     *)

LEMMA RequestsType ==
    ASSUME ServerTypes, NEW c \in Conns, NEW w \in Keys, SpokenBy(c, w)
    PROVE  /\ up[c] \in Seq(Frames)
           /\ pubKey[c] = NoKey =>
                 /\ up[c] # << >>
                 /\ Requests(c) = Tail(up[c])
           /\ pubKey[c] # NoKey => pubKey[c] = w /\ Requests(c) = up[c]
  BY NullsOK DEF ServerTypes, SpokenBy, Requests

LEMMA LinkOpens ==
    ASSUME NEW c \in Conns, LinkOK(c), NEW k \in Keys, NEW first, first \in Firsts(k)',
           link[c] = "free", link'[c] = "open", up'[c] = <<PublicKey(k), first>>,
           down'[c] = down[c], pubKey'[c] = pubKey[c]
    PROVE  LinkOK(c)' /\ SpokenBy(c, k)' /\ Requests(c)' = <<first>> /\ down'[c] = << >>
<1>1. pubKey'[c] = NoKey /\ down'[c] = << >>
  BY DEF LinkOK
<1>2. Requests(c)' = <<first>>
  BY <1>1 DEF Requests
<1>3. Head(up'[c]) = PublicKey(k) /\ up'[c] # << >>
  OBVIOUS
<1>4. first \in FromClient(k)'
  BY DEF FromClient
<1>5. <<first>> \in Seq(FromClient(k)')
  BY <1>4
<1>6. Tail(<<first>>) \in Seq(Later')
  OBVIOUS
<1>7. SpokenBy(c, k)'
  BY <1>1, <1>2, <1>3, <1>5, <1>6 DEF SpokenBy
<1> QED
  BY <1>1, <1>2, <1>7 DEF LinkOK

(* The client's end goes, and some of the last requests with it.           *)
LEMMA LinkCut ==
    ASSUME ServerTypes, Grows, NEW c \in Conns, LinkOK(c), NEW n \in 0 .. Len(up[c]),
           Disconnect(c, n), pubKey' = pubKey
    PROVE  LinkOK(c)'
<1>1. /\ link[c] = "open" /\ link'[c] = "closed" /\ down'[c] = << >>
      /\ up'[c] = SubSeq(up[c], 1, n)
      /\ up[c] \in Seq(Frames)
  BY DEF Disconnect, ServerTypes
<1> SUFFICES ASSUME pubKey'[c] # NoKey \/ up'[c] # << >>
             PROVE  \E w \in Keys : SpokenBy(c, w)'
  BY <1>1 DEF LinkOK
<1>2. up'[c] # << >> =>
        /\ up[c] # << >>
        /\ n - 1 \in 0 .. Len(Tail(up[c]))
        /\ Head(up'[c]) = Head(up[c])
        /\ Tail(up'[c]) = SubSeq(Tail(up[c]), 1, n - 1)
  BY <1>1, PrefixHeadTail
<1>3. PICK w \in Keys : SpokenBy(c, w)
  BY <1>2 DEF LinkOK
<1>4. /\ Requests(c) \in Seq(FromClient(w)')
      /\ Requests(c) # << >> => Tail(Requests(c)) \in Seq(Later')
  BY <1>3, FromClientGrows, SetsGrow, SeqGrows DEF SpokenBy
<1>5. PICK m \in 0 .. Len(Requests(c)) : Requests(c)' = SubSeq(Requests(c), 1, m)
  <2>1. CASE pubKey[c] # NoKey
    BY <1>1, <2>1 DEF Requests
  <2>2. CASE pubKey[c] = NoKey
    BY <1>1, <1>2, <2>2 DEF Requests
  <2> QED
    BY <2>1, <2>2
<1>6. Requests(c)' \in Seq(FromClient(w)')
  BY <1>4, <1>5, PrefixSeq
<1>7. ASSUME Requests(c)' # << >>
      PROVE  Tail(Requests(c)') \in Seq(Later')
  <2>1. /\ Requests(c) # << >>
        /\ m - 1 \in 0 .. Len(Tail(Requests(c)))
        /\ Tail(SubSeq(Requests(c), 1, m)) = SubSeq(Tail(Requests(c)), 1, m - 1)
    BY <1>4, <1>5, <1>7, PrefixHeadTail
  <2> QED
    BY <1>4, <1>5, <2>1, PrefixSeq
<1>8. \/ pubKey'[c] = w
      \/ pubKey'[c] = NoKey /\ up'[c] # << >> /\ Head(up'[c]) = PublicKey(w)
  BY <1>2, <1>3 DEF SpokenBy
<1> QED
  BY <1>6, <1>7, <1>8 DEF SpokenBy

(* The client sends one more request.                                      *)
LEMMA LinkSends ==
    ASSUME ServerTypes, Grows, NEW c \in Conns, NEW w \in Keys, SpokenBy(c, w),
           NEW f, f \in Later', up'[c] = Append(up[c], f), pubKey'[c] = pubKey[c]
    PROVE  /\ SpokenBy(c, w)'
           /\ Requests(c)' = Append(Requests(c), f)
<1>1. /\ up[c] \in Seq(Frames) /\ Requests(c) \in Seq(FromClient(w)')
      /\ Requests(c) # << >> => Tail(Requests(c)) \in Seq(Later')
  BY FromClientGrows, SetsGrow, SeqGrows DEF SpokenBy, ServerTypes
<1>2. /\ Head(up'[c]) = IF up[c] = << >> THEN f ELSE Head(up[c])
      /\ Tail(up'[c]) = IF up[c] = << >> THEN << >> ELSE Append(Tail(up[c]), f)
  BY <1>1, HeadTailAppend
<1>3. Requests(c)' = Append(Requests(c), f)
  BY <1>2, RequestsType DEF Requests
<1>4. f \in FromClient(w)'
  BY DEF FromClient
<1>5. Requests(c)' \in Seq(FromClient(w)')
  BY <1>1, <1>3, <1>4, AppendProperties
<1>6. Tail(Append(Requests(c), f)) \in Seq(Later')
  BY <1>1, TailOfAppend
<1>7. up'[c] # << >>
  BY <1>1, AppendIsNotEmpty
<1>8. \/ pubKey'[c] = w
      \/ pubKey'[c] = NoKey /\ up'[c] # << >> /\ Head(up'[c]) = PublicKey(w)
  BY <1>2, <1>7 DEF SpokenBy
<1>9. Requests(c)' # << >> => Tail(Requests(c)') \in Seq(Later')
  BY <1>3, <1>6
<1> QED
  BY <1>3, <1>5, <1>8, <1>9 DEF SpokenBy

(* The server takes a request; with PUBKEY it learns who speaks.           *)
LEMMA LinkTakes ==
    ASSUME ServerTypes, Grows, NEW c \in Conns, NEW w \in Keys, SpokenBy(c, w),
           up[c] # << >>, up'[c] = Tail(up[c]),
           \/ pubKey[c] # NoKey /\ pubKey'[c] = pubKey[c]
           \/ pubKey[c] = NoKey /\ pubKey'[c] = Head(up[c]).key
    PROVE  /\ SpokenBy(c, w)'
           /\ pubKey'[c] = w
           /\ pubKey[c] = NoKey => Requests(c)' = Requests(c)
           /\ pubKey[c] # NoKey => /\ Requests(c) = up[c]
                                   /\ Requests(c)' = Tail(up[c])
                                   /\ Requests(c)' \in Seq(Later')
<1>1. /\ Requests(c) \in Seq(FromClient(w)')
      /\ Requests(c) # << >> => Tail(Requests(c)) \in Seq(Later')
  BY FromClientGrows, SetsGrow, SeqGrows DEF SpokenBy
<1>2. CASE pubKey[c] # NoKey
  <2>1. pubKey'[c] = w /\ Requests(c) = up[c] /\ Requests(c)' = Tail(up[c])
    BY <1>2, NullsOK DEF SpokenBy, Requests
  <2>2. Tail(up[c]) \in Seq(Later')
    BY <1>1, <2>1
  <2>3. Later' \subseteq FromClient(w)'
    BY DEF FromClient
  <2>4. Tail(up[c]) \in Seq(FromClient(w)')
    BY <2>2, <2>3, SeqGrows
  <2>5. Tail(up[c]) # << >> => Tail(Tail(up[c])) \in Seq(Later')
    BY <2>2, HeadTailProperties
  <2> QED
    BY <1>2, <2>1, <2>2, <2>4, <2>5 DEF SpokenBy
<1>3. CASE pubKey[c] = NoKey
  <2>1. pubKey'[c] = w
    BY <1>3, NullsOK DEF SpokenBy, PublicKey, Frame
  <2>2. Requests(c)' = Requests(c)
    BY <1>3, <2>1, NullsOK DEF Requests
  <2> QED
    BY <1>1, <1>3, <2>1, <2>2 DEF SpokenBy
<1> QED
  BY <1>2, <1>3

-----------------------------------------------------------------------------
(* A step of the server: it takes a request of connection c and sends fs.  *)

LEMMA SentNothing ==
    ASSUME ServerTypes, NEW c \in Conns, NEW fs, SendDown(fs), fs[c] = << >>
    PROVE  down'[c] = down[c]
  BY ConcatEmptySeq DEF SendDown, ServerTypes

(* What it writes to a client is something that client may find there, and *)
(* a reply only to the one request that asks for it.                       *)
WritesTo(k, c, fs) ==
    \/ fs \in Seq(Others(k)')
    \/ /\ conn[k] = c
       /\ pubKey[c] # NoKey
       /\ Head(up[c]).cmd \in FirstCommands
       /\ \E f \in Replies(k)' : fs = <<f>>

LEMMA OthersAreNoReplies ==
    ASSUME NEW k \in Keys
    PROVE  /\ \A f \in Others(k) : f.cmd \notin ReplyCommands
           /\ \A f \in Others(k)' : f.cmd \notin ReplyCommands
  BY DEF Others, PostsTo, Posts, Asks, Answers, ReplyCommands

LEMMA LaterAreNotFirst ==
    /\ \A f \in Later : f.cmd \notin FirstCommands
    /\ \A f \in Later' : f.cmd \notin FirstCommands
  BY DEF Later, Posts, Answers, FirstCommands

LEMMA ServedConn ==
    ASSUME Inv, Grows, UNCHANGED <<link, roomVars>>, NEW c \in Conns, up[c] # << >>,
           TakeUp(c), \A d \in Conns : d # c => pubKey'[d] = pubKey[d],
           \/ pubKey[c] # NoKey /\ pubKey'[c] = pubKey[c]
           \/ pubKey[c] = NoKey /\ pubKey'[c] = Head(up[c]).key,
           NEW fs, SendDown(fs),
           NEW k \in Keys, conn[k] # NoConn, WritesTo(k, c, fs[conn[k]])
    PROVE  ConnOK(k)'
<1>0. PICK d \in Conns : conn[k] = d
  BY DEF Inv, TypeOK
<1>1. /\ ConnOK(k) /\ ClientOK(k) /\ ServerTypes /\ TypeOK
      /\ data[k] # NoData /\ d # NoConn /\ conn[k] = d /\ conn'[k] = d
  BY <1>0 DEF Inv, ClientOK, roomVars
<1>2. /\ link[d] = "open" /\ link'[d] = "open" /\ down'[d] = down[d] \o fs[d]
      /\ SpokenBy(d, k)
      /\ down[d] \in Seq(ToClient(k))
      /\ AtMostOne(down[d], ReplyCommands)
  BY <1>1 DEF ConnOK, SendDown
<1>3. /\ SpokenBy(d, k)'
      /\ \/ Requests(d)' = Requests(d)
         \/ Requests(d)' \in Seq(Later')
      /\ d = c /\ pubKey[c] # NoKey =>
            Requests(d) = up[c] /\ Requests(d)' \in Seq(Later')
  <2>1. CASE d = c
    <3>1. up'[c] = Tail(up[c])
      BY <1>1 DEF TakeUp, ServerTypes
    <3> QED
      BY <1>1, <1>2, <2>1, <3>1, LinkTakes
  <2>2. CASE d # c
    <3>1. up'[d] = up[d] /\ pubKey'[d] = pubKey[d]
      BY <1>1, <2>2 DEF TakeUp, ServerTypes
    <3>2. Requests(d)' = Requests(d)
      BY <3>1 DEF Requests
    <3>3. /\ Requests(d) \in Seq(FromClient(k)')
          /\ Requests(d) # << >> => Tail(Requests(d)) \in Seq(Later')
      BY <1>2, FromClientGrows, SetsGrow, SeqGrows DEF SpokenBy
    <3> QED
      BY <1>2, <2>2, <3>1, <3>2, <3>3 DEF SpokenBy
  <2> QED
    BY <2>1, <2>2
<1>4. ToClient(k) \subseteq ToClient(k)' /\ Others(k) \subseteq Others(k)'
  <2>1. Replies(k) \subseteq Replies(k)'
    BY <1>1, RepliesGrow DEF roomVars, Keyed
  <2> QED
    BY <2>1, SetsGrow DEF ToClient
<1>5. /\ down[d] \in Seq(ToClient(k)')
      /\ down[d] \in Seq(Others(k)) => down[d] \in Seq(Others(k)')
  BY <1>2, <1>4, SeqGrows
<1>6. Others(k)' \subseteq ToClient(k)' /\ Replies(k)' \subseteq ToClient(k)'
  BY DEF ToClient
<1>7. \A f \in Others(k)' : f.cmd \notin ReplyCommands
  BY OthersAreNoReplies
<1>9. CASE fs[d] \in Seq(Others(k)')
  <2>1. fs[d] \in Seq(ToClient(k)')
    BY <1>6, <1>9, SeqGrows
  <2>2. down'[d] \in Seq(ToClient(k)')
    BY <1>2, <1>5, <2>1, ConcatProperties
  <2>3. \A i \in DOMAIN fs[d] : fs[d][i].cmd \notin ReplyCommands
    BY <1>7, <1>9, LenProperties, ElementOfSeq
  <2>4. AtMostOne(down'[d], ReplyCommands)
    BY <1>2, <1>5, <2>1, <2>3, AppendAtMostOne
  <2>5. ASSUME Requests(d)' # << >>, Head(Requests(d)').cmd \in FirstCommands
        PROVE  /\ Requests(d)' = Requests(d)
               /\ FirstIs(k, Head(Requests(d)))
               /\ down'[d] \in Seq(Others(k)')
    <3>1. ~ (Requests(d)' \in Seq(Later'))
      BY <2>5, LaterAreNotFirst, HeadTailProperties
    <3>2. Requests(d)' = Requests(d)
      BY <1>3, <3>1
    <3>3. FirstIs(k, Head(Requests(d))) /\ down[d] \in Seq(Others(k))
      BY <1>1, <2>5, <3>2 DEF ConnOK
    <3>4. down'[d] \in Seq(Others(k)')
      BY <1>2, <1>5, <1>9, <3>3, ConcatProperties
    <3> QED
      BY <3>2, <3>3, <3>4
  <2>6. Requests(d)' # << >> /\ Head(Requests(d)').cmd \in FirstCommands =>
          /\ FirstIs(k, Head(Requests(d)))'
          /\ down'[d] \in Seq(Others(k)')
    BY <1>1, <2>5 DEF FirstIs, Creating, Reopening, Keyed, roomVars
  <2> QED
    BY <1>1, <1>2, <1>3, <2>2, <2>4, <2>6 DEF ConnOK
<1>10. CASE /\ d = c
            /\ pubKey[c] # NoKey
            /\ Head(up[c]).cmd \in FirstCommands
            /\ \E f \in Replies(k)' : fs[d] = <<f>>
  <2>1. PICK f \in Replies(k)' : fs[d] = <<f>>
    BY <1>10
  <2>2. Requests(d) = up[c] /\ Requests(d)' \in Seq(Later')
    BY <1>3, <1>10
  <2>3. down[d] \in Seq(Others(k)) /\ down[d] \in Seq(Others(k)')
    BY <1>1, <1>5, <1>10, <2>2 DEF ConnOK
  <2>4. fs[d] \in Seq(ToClient(k)')
    BY <1>6, <2>1
  <2>5. down'[d] \in Seq(ToClient(k)')
    BY <1>2, <1>5, <2>4, ConcatProperties
  <2>6. AtMostOne(fs[d], ReplyCommands)
    BY <2>1 DEF AtMostOne
  <2>7. \A i \in DOMAIN down[d] : down[d][i].cmd \notin ReplyCommands
    BY <1>7, <2>3, LenProperties, ElementOfSeq
  <2>8. AtMostOne(down'[d], ReplyCommands)
    BY <1>2, <1>5, <2>4, <2>6, <2>7, AppendAtMostOne
  <2>9. Requests(d)' # << >> => Head(Requests(d)').cmd \notin FirstCommands
    BY <2>2, LaterAreNotFirst, HeadTailProperties
  <2> QED
    BY <1>1, <1>2, <1>3, <2>5, <2>8, <2>9 DEF ConnOK
<1> QED
  BY <1>1, <1>9, <1>10 DEF WritesTo

(* The links themselves.                                                   *)
LEMMA ServedLink ==
    ASSUME Inv, Grows, UNCHANGED link, NEW c \in Conns, up[c] # << >>, TakeUp(c),
           \A d \in Conns : d # c => pubKey'[d] = pubKey[d],
           \/ pubKey[c] # NoKey /\ pubKey'[c] = pubKey[c]
           \/ pubKey[c] = NoKey /\ pubKey'[c] = Head(up[c]).key,
           NEW fs, SendDown(fs),
           NEW d \in Conns, fs[d] = << >> \/ pubKey'[d] # NoKey
    PROVE  LinkOK(d)'
<1>1. ServerTypes /\ LinkOK(d) /\ LinkOK(c)
  BY DEF Inv
<1>2. link'[d] # "open" => down'[d] = << >>
  BY <1>1 DEF LinkOK, SendDown, ServerTypes
<1>3. CASE d = c
  <2>1. PICK w \in Keys : SpokenBy(c, w)
    BY <1>1 DEF LinkOK
  <2>2. up'[c] = Tail(up[c])
    BY <1>1 DEF TakeUp, ServerTypes
  <2>3. SpokenBy(c, w)' /\ pubKey'[c] = w
    BY <1>1, <2>1, <2>2, LinkTakes
  <2>4. link'[c] # "free"
    BY <1>1 DEF LinkOK
  <2> QED
    BY <1>2, <1>3, <2>3, <2>4, NullsOK DEF LinkOK
<1>4. CASE d # c
  <2>1. up'[d] = up[d] /\ pubKey'[d] = pubKey[d]
    BY <1>1, <1>4 DEF TakeUp, ServerTypes
  <2>2. pubKey[d] = NoKey => down'[d] = << >>
    <3>1. CASE fs[d] = << >>
      BY <1>1, <3>1, SentNothing DEF LinkOK
    <3>2. CASE pubKey'[d] # NoKey
      BY <2>1, <3>2
    <3> QED
      BY <3>1, <3>2
  <2>3. ASSUME NEW w \in Keys, SpokenBy(d, w)
        PROVE  SpokenBy(d, w)'
    <3>1. Requests(d)' = Requests(d)
      BY <2>1 DEF Requests
    <3>2. /\ Requests(d) \in Seq(FromClient(w)')
          /\ Requests(d) # << >> => Tail(Requests(d)) \in Seq(Later')
      BY <2>3, FromClientGrows, SetsGrow, SeqGrows DEF SpokenBy
    <3> QED
      BY <2>1, <2>3, <3>1, <3>2 DEF SpokenBy
  <2> QED
    BY <1>1, <1>2, <2>1, <2>2, <2>3 DEF LinkOK
<1> QED
  BY <1>3, <1>4

(* The request a handler takes is what its client may ask.                 *)
LEMMA RequestIsKnown ==
    ASSUME Inv, NEW c \in Conns, up[c] # << >>
    PROVE  /\ Head(up[c]) \in Frames
           /\ Tail(up[c]) \in Seq(Frames)
           /\ pubKey[c] # NoKey =>
                 pubKey[c] \in Keys /\ Head(up[c]) \in FromClient(pubKey[c])
           /\ pubKey[c] = NoKey =>
                 \E w \in Keys : SpokenBy(c, w) /\ Head(up[c]) = PublicKey(w)
<1>1. Head(up[c]) \in Frames /\ Tail(up[c]) \in Seq(Frames)
  BY HeadTailProperties DEF Inv, ServerTypes
<1>2. PICK w \in Keys : SpokenBy(c, w)
  BY DEF Inv, LinkOK
<1>3. ASSUME pubKey[c] # NoKey
      PROVE  pubKey[c] = w /\ Head(up[c]) \in FromClient(w)
  <2>1. pubKey[c] = w /\ up[c] \in Seq(FromClient(w))
    BY <1>2, <1>3 DEF SpokenBy, Requests
  <2> QED
    BY <2>1, HeadTailProperties
<1>4. ASSUME pubKey[c] = NoKey
      PROVE  Head(up[c]) = PublicKey(w)
  BY <1>2, <1>4, NullsOK DEF SpokenBy
<1> QED
  BY <1>1, <1>2, <1>3, <1>4

LEMMA KnownRequests ==
    ASSUME NEW w, NEW f \in FromClient(w)
    PROVE  /\ f.cmd # "PUBKEY"
           /\ f.cmd = "ROOM.CREATE" => w \in Creators
           /\ f.cmd = "ROOM.OPEN" => f.room \in Rooms
           /\ f.cmd = "ROOM.INVITE.VERIFICATION_REQUEST" => f \in Asks
           /\ f.cmd = "ROOM.INVITE.VERIFICATION_RESPONSE" => f \in Answers
           /\ f.cmd \in {"ROOM.MESSAGE", "ROOM.MESSAGE.KEY.ROTATE"} => f \in Posts
  BY DEF FromClient, Firsts, Later, Asks, Answers, Posts

(* The client at the end of a connection is the key the server has for it. *)
LEMMA WhoIsThere ==
    ASSUME Inv, NEW k \in Keys, conn[k] # NoConn
    PROVE  /\ conn[k] \in Conns
           /\ link[conn[k]] = "open"
           /\ SpokenBy(conn[k], k)
           /\ pubKey[conn[k]] # NoKey => pubKey[conn[k]] = k /\ Requests(conn[k]) = up[conn[k]]
  BY DEF Inv, TypeOK, ConnOK, SpokenBy, Requests

(* Together: what a handler owes to keep clients and connections in order. *)
LEMMA Served ==
    ASSUME Inv, Grows, UNCHANGED <<link, roomVars, said>>, NEW c \in Conns, up[c] # << >>,
           TakeUp(c), \A d \in Conns : d # c => pubKey'[d] = pubKey[d],
           \/ pubKey[c] # NoKey /\ pubKey'[c] = pubKey[c]
           \/ pubKey[c] = NoKey /\ pubKey'[c] = Head(up[c]).key,
           NEW fs, SendDown(fs),
           \A d \in Conns : fs[d] \in Seq(Frames) /\ (fs[d] = << >> \/ pubKey'[d] # NoKey),
           \A k \in Keys : conn[k] # NoConn => WritesTo(k, c, fs[conn[k]]),
           ServerOK',
           owner' \in [Rooms -> Creators \cup {NoKey}],
           users' \in [Rooms -> SUBSET Keys],
           online' \in [Keys -> Conns \cup {NoConn}],
           pubKey' \in [Conns -> Keys \cup {NoKey}],
           UNCHANGED <<issued, restarts>>, taken' \in SUBSET Rooms
    PROVE  Inv'
<1>1. TypeOK'
  BY DEF Inv, TypeOK, roomVars
<1>2. \A d \in Conns : LinkOK(d)'
  BY ServedLink
<1>3. \A k \in Keys : ClientOK(k)'
  BY ClientStays DEF Inv, SameClient, roomVars
<1>4. ASSUME NEW k \in Keys
      PROVE  ConnOK(k)'
  <2>1. CASE conn[k] # NoConn
    BY <2>1, ServedConn
  <2>2. CASE conn[k] = NoConn
    BY <2>2 DEF ConnOK, roomVars
  <2> QED
    BY <2>1, <2>2
<1>5. up' \in [Conns -> Seq(Frames)]
  BY RequestIsKnown DEF TakeUp, Inv, ServerTypes
<1>6. down' \in [Conns -> Seq(Frames)]
  <2>1. \A d \in Conns : down[d] \o fs[d] \in Seq(Frames)
    BY ConcatProperties DEF Inv, ServerTypes
  <2> QED
    BY <2>1 DEF SendDown, Inv, ServerTypes
<1>7. ServerTypes'
  BY <1>5, <1>6 DEF Inv, ServerTypes, roomVars
<1> QED
  BY <1>1, <1>2, <1>3, <1>4, <1>7 DEF Inv

-----------------------------------------------------------------------------
(* The server's handlers.                                                  *)

Ids ==
    /\ taken' = taken \cup {r \in Rooms : owner'[r] # NoKey}
    /\ \A r \in taken : owner'[r] = owner[r]
    /\ UNCHANGED <<roomVars, issued, said, opens, restarts>>

LEMMA SameRoomsGrow ==
    ASSUME Inv, Ids, owner' = owner, \A r \in Rooms : users[r] \subseteq users'[r]
    PROVE  /\ Grows
           /\ taken' \in SUBSET Rooms
           /\ \A r \in Rooms : Exists(r)' <=> Exists(r)
           /\ \A r \in Rooms : Exists(r)' => r \in taken'
           /\ restarts' = 0 => \A r \in taken' : Exists(r)'
<1>1. ServerOK /\ ServerTypes
  BY DEF Inv
<1> QED
  BY <1>1 DEF Ids, Grows, Exists, ServerOK, ServerTypes

LEMMA BacklogsGrow ==
    ASSUME Inv, Grows
    PROVE  \A k \in Keys : history[k] \in Seq(PostsTo(k)')
<1>1. \A k \in Keys : history[k] \in Seq(PostsTo(k))
  BY DEF Inv, ServerOK
<1> QED
  BY <1>1, SetsGrow, SeqGrows

(* When rooms, routes and backlogs stay as they are.                       *)
LEMMA ServerStays ==
    ASSUME Inv, Ids, UNCHANGED serverVars
    PROVE  /\ Grows
           /\ ServerOK'
           /\ owner' \in [Rooms -> Creators \cup {NoKey}]
           /\ users' \in [Rooms -> SUBSET Keys]
           /\ online' \in [Keys -> Conns \cup {NoConn}]
           /\ pubKey' \in [Conns -> Keys \cup {NoKey}]
           /\ taken' \in SUBSET Rooms
<1>1. Grows /\ taken' \in SUBSET Rooms
  BY SameRoomsGrow DEF serverVars
<1>2. \A k \in Keys : history[k] \in Seq(PostsTo(k)')
  BY <1>1, BacklogsGrow
<1>3. ServerOK'
  BY <1>2, SameRoomsGrow DEF Inv, ServerOK, serverVars, PostsOf, Exists
<1> QED
  BY <1>1, <1>3 DEF Inv, ServerTypes, serverVars

(* A reply to the client that asked.                                       *)
LEMMA Replied ==
    ASSUME Inv, Grows, Ids, UNCHANGED <<link, pubKey>>, NEW c \in Conns, up[c] # << >>,
           TakeUp(c), NEW w \in Keys, pubKey[c] = w,
           NEW f \in Frames, SendTo(c, <<f>>),
           \/ f.cmd \in {"ROOM.INVITE.DECLINED", "ROOM.MESSAGE.ERROR"}
           \/ /\ Head(up[c]).cmd \in FirstCommands
              /\ conn[w] = c => f \in Replies(w)',
           ServerOK',
           owner' \in [Rooms -> Creators \cup {NoKey}],
           users' \in [Rooms -> SUBSET Keys],
           online' \in [Keys -> Conns \cup {NoConn}],
           taken' \in SUBSET Rooms
    PROVE  Inv'
<1> DEFINE fs == [x \in Conns |-> IF x = c THEN <<f>> ELSE << >>]
<1>1. SendDown(fs)
  BY DEF SendTo
<1>2. \A d \in Conns : fs[d] \in Seq(Frames) /\ (fs[d] = << >> \/ pubKey'[d] # NoKey)
  BY EmptySeq, NullsOK
<1>3. ASSUME NEW k \in Keys, conn[k] # NoConn
      PROVE  WritesTo(k, c, fs[conn[k]])
  <2>1. CASE conn[k] # c
    <3>1. fs[conn[k]] = << >>
      BY <1>3, <2>1, WhoIsThere
    <3>2. << >> \in Seq(Others(k)')
      BY EmptySeq
    <3> QED
      BY <3>1, <3>2 DEF WritesTo
  <2>2. CASE conn[k] = c
    <3>1. fs[conn[k]] = <<f>> /\ w = k
      BY <1>3, <2>2, WhoIsThere, NullsOK
    <3>2. CASE f.cmd \in {"ROOM.INVITE.DECLINED", "ROOM.MESSAGE.ERROR"}
      <4>1. f \in Others(k)'
        BY <3>2 DEF Others
      <4>2. <<f>> \in Seq(Others(k)')
        BY <4>1
      <4> QED
        BY <3>1, <4>2 DEF WritesTo
    <3>3. CASE Head(up[c]).cmd \in FirstCommands /\ f \in Replies(k)'
      BY <2>2, <3>1, <3>3, NullsOK DEF WritesTo
    <3> QED
      BY <2>2, <3>1, <3>2, <3>3
  <2> QED
    BY <2>1, <2>2
<1>4. /\ UNCHANGED <<link, roomVars, said>> /\ UNCHANGED <<issued, restarts>>
      /\ pubKey' \in [Conns -> Keys \cup {NoKey}]
      /\ \A d \in Conns : d # c => pubKey'[d] = pubKey[d]
      /\ pubKey'[c] = pubKey[c] /\ pubKey[c] # NoKey
  BY NullsOK DEF Ids, Inv, ServerTypes
<1> HIDE DEF fs
<1> QED
  BY <1>1, <1>2, <1>3, <1>4, Served

LEMMA FrameTypes ==
    /\ \A r \in Rooms : RoomCreated(r) \in Frames /\ ErrorRoom(r) \in Frames
                        /\ MessageError(r) \in Frames
    /\ OpenedRoom \in Frames
    /\ \A k \in Keys : InvalidInvite(k) \in Frames
  BY DEF Frames, Commands, RoomCreated, ErrorRoom, MessageError, OpenedRoom,
         InvalidInvite, Frame

LEMMA NewRoomKeepsInv ==
    ASSUME Inv, Ids, NEW c \in Conns, up[c] # << >>, NEW r \in Rooms,
           HandleNewRoom(c, Head(up[c]), r)
    PROVE  Inv'
<1> DEFINE f == Head(up[c])
<1>0. PICK w : w = pubKey[c]
  OBVIOUS
<1>1. /\ f.cmd = "ROOM.CREATE" /\ w # NoKey /\ ~Exists(r)
      /\ owner' = [owner EXCEPT ![r] = w] /\ users' = [users EXCEPT ![r] = {w}]
      /\ SendTo(c, <<RoomCreated(r)>>) /\ TakeUp(c)
      /\ UNCHANGED <<link, online, history, roomsHistory, pubKey>>
  BY <1>0 DEF HandleNewRoom, KeyedRequest, Request
<1>2. w \in Keys /\ w \in Creators
  BY <1>0, <1>1, RequestIsKnown, KnownRequests
<1>3. ServerOK /\ ServerTypes
  BY DEF Inv
<1>4. /\ owner'[r] = w /\ users'[r] = {w}
      /\ \A q \in Rooms : q # r => owner'[q] = owner[q] /\ users'[q] = users[q]
      /\ owner' \in [Rooms -> Creators \cup {NoKey}]
      /\ users' \in [Rooms -> SUBSET Keys]
  BY <1>1, <1>2, <1>3 DEF ServerTypes
<1>5. Grows
  BY <1>1, <1>3, <1>4 DEF Ids, Grows, ServerOK, Exists
<1>6. /\ \A q \in Rooms : IF Exists(q)' THEN q \in taken' ELSE users'[q] = {}
      /\ restarts' = 0 => \A q \in taken' : Exists(q)'
      /\ taken' \in SUBSET Rooms
  BY <1>2, <1>3, <1>4, NullsOK, ConstantsOK DEF Ids, ServerOK, ServerTypes, Exists
<1>7. ServerOK'
  BY <1>1, <1>3, <1>5, <1>6, BacklogsGrow DEF ServerOK, PostsOf
<1>8. ASSUME conn[w] = c
      PROVE  RoomCreated(r) \in Replies(w)'
  <2>1. conn[w] # NoConn
    BY <1>8, NullsOK
  <2>2. Requests(c) = up[c] /\ ConnOK(w)
    BY <1>0, <1>1, <1>2, <1>8, <2>1, WhoIsThere DEF Inv
  <2>3. FirstIs(w, f)
    BY <1>1, <1>8, <2>1, <2>2 DEF ConnOK, FirstCommands
  <2>4. Creating(w)'
    BY <1>1, <2>3 DEF FirstIs, Creating, Ids, roomVars
  <2>5. RoomCreated(r).cmd = "ROOM.CREATED" /\ RoomCreated(r).room = r
    BY DEF RoomCreated, Frame
  <2> QED
    BY <1>4, <2>4, <2>5, FrameTypes DEF Replies
<1>9. f.cmd \in FirstCommands /\ RoomCreated(r) \in Frames
  BY <1>1, FrameTypes DEF FirstCommands
<1>10. online' \in [Keys -> Conns \cup {NoConn}]
  BY <1>1, <1>3 DEF ServerTypes
<1> QED
  BY <1>0, <1>1, <1>2, <1>4, <1>5, <1>6, <1>7, <1>8, <1>9, <1>10, Replied

LEMMA DeclineKeepsInv ==
    ASSUME Inv, Ids, NEW c \in Conns, up[c] # << >>, DeclineInvite(c, Head(up[c]))
    PROVE  Inv'
<1> DEFINE f == Head(up[c])
<1>1. /\ f.cmd = "ROOM.INVITE.VERIFICATION_REQUEST" /\ pubKey[c] # NoKey
      /\ SendTo(c, <<InvalidInvite(f.key)>>) /\ TakeUp(c)
      /\ UNCHANGED <<link, serverVars>>
  BY DEF DeclineInvite, KeyedRequest, Request
<1>2. f.key \in Keys
  BY <1>1, RequestIsKnown, KnownRequests DEF Asks
<1>3. InvalidInvite(f.key) \in Frames /\ InvalidInvite(f.key).cmd = "ROOM.INVITE.DECLINED"
  BY <1>2, FrameTypes DEF InvalidInvite, Frame
<1>4. pubKey[c] \in Keys
  BY <1>1, RequestIsKnown
<1> QED
  BY <1>1, <1>3, <1>4, ServerStays, Replied DEF serverVars

LEMMA RefuseKeepsInv ==
    ASSUME Inv, Ids, NEW c \in Conns, up[c] # << >>,
           \/ RefuseMessage(c, Head(up[c]))
           \/ RefuseKeyRotate(c, Head(up[c]))
    PROVE  Inv'
<1> DEFINE f == Head(up[c])
<1>1. /\ f.cmd \in {"ROOM.MESSAGE", "ROOM.MESSAGE.KEY.ROTATE"} /\ pubKey[c] # NoKey
      /\ SendTo(c, <<MessageError(f.room)>>) /\ TakeUp(c)
      /\ UNCHANGED <<link, serverVars>>
  BY DEF RefuseMessage, RefuseKeyRotate, Refuse, KeyedRequest, Request
<1>2. f.room \in Rooms
  BY <1>1, RequestIsKnown, KnownRequests DEF Posts
<1>3. MessageError(f.room) \in Frames /\ MessageError(f.room).cmd = "ROOM.MESSAGE.ERROR"
  BY <1>2, FrameTypes DEF MessageError, Frame
<1>4. pubKey[c] \in Keys
  BY <1>1, RequestIsKnown
<1> QED
  BY <1>1, <1>3, <1>4, ServerStays, Replied DEF serverVars

LEMMA OpenRoomKeepsInv ==
    ASSUME Inv, Ids, NEW c \in Conns, up[c] # << >>, HandleOpenRoom(c, Head(up[c]))
    PROVE  Inv'
<1> DEFINE f == Head(up[c])
<1>0. PICK w : w = pubKey[c]
  OBVIOUS
<1>1. /\ f.cmd = "ROOM.OPEN" /\ w # NoKey
      /\ SendTo(c, << IF Exists(f.room) /\ w \in users[f.room]
                      THEN OpenedRoom ELSE ErrorRoom(f.room) >>)
      /\ TakeUp(c) /\ UNCHANGED <<link, serverVars>>
  BY <1>0 DEF HandleOpenRoom, KeyedRequest, Request
<1>2. w \in Keys /\ f.room \in Rooms /\ f.cmd \in FirstCommands
  BY <1>0, <1>1, RequestIsKnown, KnownRequests DEF FirstCommands
<1>3. PICK reply : /\ reply = IF Exists(f.room) /\ w \in users[f.room]
                              THEN OpenedRoom ELSE ErrorRoom(f.room)
                   /\ SendTo(c, <<reply>>)
  BY <1>1
<1>4. reply \in Frames
  BY <1>2, <1>3, FrameTypes
<1>5. ASSUME conn[w] = c
      PROVE  reply \in Replies(w)'
  <2>1. conn[w] # NoConn
    BY <1>5, NullsOK
  <2>2. Requests(c) = up[c] /\ ConnOK(w) /\ ClientOK(w)
    BY <1>0, <1>1, <1>2, <1>5, <2>1, WhoIsThere DEF Inv
  <2>3. FirstIs(w, f)
    BY <1>2, <1>5, <2>1, <2>2 DEF ConnOK
  <2>4. Reopening(w) /\ f.room = data[w].name
    BY <1>1, <2>3 DEF FirstIs
  <2>5. Exists(f.room) => w \in users[f.room]
    BY <2>2, <2>4 DEF ClientOK, Reopening, RoomOK
  <2>6. Reopening(w)' /\ data'[w].name = data[w].name /\ owner' = owner
    BY <1>1, <2>4 DEF Reopening, Keyed, Ids, roomVars, serverVars
  <2>7. CASE Exists(f.room)
    <3>1. reply.cmd = "ROOM.OPENED"
      BY <1>3, <2>5, <2>7 DEF OpenedRoom, Frame
    <3> QED
      BY <1>4, <2>6, <3>1 DEF Replies
  <2>8. CASE ~Exists(f.room)
    <3>1. reply.cmd = "ROOM.NOT_EXIST" /\ reply.room = f.room
      BY <1>3, <2>8 DEF ErrorRoom, Frame
    <3> QED
      BY <1>4, <2>4, <2>6, <2>8, <3>1 DEF Replies, Exists
  <2> QED
    BY <2>7, <2>8
<1> QED
  BY <1>0, <1>1, <1>2, <1>3, <1>4, <1>5, ServerStays, Replied DEF serverVars

(* A frame passed on to the key it names.                                  *)
LEMMA PassedOn ==
    ASSUME Inv, Grows, Ids, UNCHANGED <<link, pubKey, online>>, NEW c \in Conns,
           up[c] # << >>, TakeUp(c), pubKey[c] # NoKey,
           NEW k \in Keys, online[k] # NoConn,
           NEW s \in Seq(Frames), s \in Seq(Others(k)'), SendTo(online[k], s),
           ServerOK',
           owner' \in [Rooms -> Creators \cup {NoKey}],
           users' \in [Rooms -> SUBSET Keys],
           taken' \in SUBSET Rooms
    PROVE  Inv'
<1>0. PICK d \in Conns : d = online[k] /\ pubKey[d] = k
  BY DEF Inv, ServerTypes, ServerOK
<1> DEFINE fs == [x \in Conns |-> IF x = d THEN s ELSE << >>]
<1>1. SendDown(fs)
  BY <1>0 DEF SendTo
<1>2. \A x \in Conns : fs[x] \in Seq(Frames) /\ (fs[x] = << >> \/ pubKey'[x] # NoKey)
  BY <1>0, EmptySeq, NullsOK
<1>3. ASSUME NEW l \in Keys, conn[l] # NoConn
      PROVE  WritesTo(l, c, fs[conn[l]])
  <2>1. CASE conn[l] # d
    <3>1. fs[conn[l]] = << >>
      BY <1>3, <2>1, WhoIsThere
    <3>2. << >> \in Seq(Others(l)')
      BY EmptySeq
    <3> QED
      BY <3>1, <3>2 DEF WritesTo
  <2>2. CASE conn[l] = d
    <3>1. fs[conn[l]] = s /\ l = k
      BY <1>0, <1>3, <2>2, WhoIsThere, NullsOK
    <3> QED
      BY <3>1 DEF WritesTo
  <2> QED
    BY <2>1, <2>2
<1>4. /\ UNCHANGED <<link, roomVars, said>> /\ UNCHANGED <<issued, restarts>>
      /\ pubKey' \in [Conns -> Keys \cup {NoKey}]
      /\ online' \in [Keys -> Conns \cup {NoConn}]
      /\ \A x \in Conns : x # c => pubKey'[x] = pubKey[x]
      /\ pubKey'[c] = pubKey[c] /\ pubKey[c] # NoKey
  BY DEF Ids, Inv, ServerTypes
<1> HIDE DEF fs
<1> QED
  BY <1>1, <1>2, <1>3, <1>4, Served

LEMMA InviteKeepsInv ==
    ASSUME Inv, Ids, NEW c \in Conns, up[c] # << >>, HandleInvite(c, Head(up[c]))
    PROVE  Inv'
<1>0. PICK f : f = Head(up[c])
  OBVIOUS
<1>1. /\ f.cmd = "ROOM.INVITE.VERIFICATION_REQUEST" /\ pubKey[c] # NoKey
      /\ f.key = owner[f.room] /\ online[f.key] # NoConn
      /\ SendTo(online[f.key], <<f>>) /\ TakeUp(c)
      /\ UNCHANGED <<link, serverVars>>
  BY <1>0 DEF HandleInvite, InviteIsValid, KeyedRequest, Request
<1>2. f \in Asks /\ f \in Frames /\ f.key \in Keys /\ f.room \in Rooms
  BY <1>0, <1>1, RequestIsKnown, KnownRequests DEF Asks
<1>3. Grows
  BY <1>1, ServerStays
<1>4. f \in Asks'
  BY <1>2, <1>3, AsksGrow
<1>5. owner'[f.room] = f.key
  BY <1>1 DEF serverVars
<1>6. f \in Others(f.key)'
  BY <1>4, <1>5 DEF Others
<1>7. <<f>> \in Seq(Frames) /\ <<f>> \in Seq(Others(f.key)')
  BY <1>2, <1>6
<1> QED
  BY <1>1, <1>2, <1>3, <1>7, ServerStays, PassedOn DEF serverVars

LEMMA InviteResponseKeepsInv ==
    ASSUME Inv, Ids, NEW c \in Conns, up[c] # << >>, HandleInviteResponse(c, Head(up[c]))
    PROVE  Inv'
<1>0. PICK f : f = Head(up[c])
  OBVIOUS
<1>1. /\ f.cmd = "ROOM.INVITE.VERIFICATION_RESPONSE" /\ pubKey[c] # NoKey
      /\ Exists(f.room) /\ online[f.key] # NoConn
      /\ users' = [users EXCEPT ![f.room] = @ \cup {f.key}]
      /\ SendTo(online[f.key], <<f>> \o roomsHistory[f.room]) /\ TakeUp(c)
      /\ UNCHANGED <<link, owner, online, history, roomsHistory, pubKey>>
  BY <1>0 DEF HandleInviteResponse, ResponseIsValid, KeyedRequest, Request
<1>2. f \in Answers /\ f \in Frames /\ f.key \in Keys /\ f.room \in Rooms
  BY <1>0, <1>1, RequestIsKnown, KnownRequests DEF Answers
<1>3. ServerOK /\ ServerTypes
  BY DEF Inv
<1>4. /\ f.key \in users'[f.room]
      /\ \A r \in Rooms : users[r] \subseteq users'[r]
      /\ \A r \in Rooms : r # f.room => users'[r] = users[r]
      /\ users' \in [Rooms -> SUBSET Keys]
  BY <1>1, <1>2, <1>3 DEF ServerTypes
<1>5. Grows
  BY <1>1, <1>4, SameRoomsGrow
<1>6. ServerOK'
  <2>1. \A r \in Rooms : IF Exists(r)' THEN r \in taken' ELSE users'[r] = {}
    BY <1>1, <1>3, <1>4, SameRoomsGrow DEF ServerOK
  <2> QED
    BY <1>1, <1>3, <1>4, <1>5, <2>1, SameRoomsGrow, BacklogsGrow DEF ServerOK, PostsOf
<1>7. f \in Others(f.key)'
  <2>1. f \in Answers'
    BY <1>2, <1>5, AnswersGrow
  <2> QED
    BY <1>4, <2>1 DEF Others
<1>8. roomsHistory[f.room] \in Seq(Others(f.key)')
  <2>1. roomsHistory[f.room] \in Seq(PostsOf(f.room))
    BY <1>2, <1>3 DEF ServerOK
  <2>2. PostsOf(f.room) \subseteq PostsTo(f.key)'
    BY <1>4 DEF PostsOf, PostsTo
  <2>3. PostsOf(f.room) \subseteq Others(f.key)'
    BY <2>2 DEF Others
  <2> QED
    BY <2>1, <2>3, SeqGrows
<1>9. roomsHistory[f.room] \in Seq(Frames)
  <2>1. roomsHistory[f.room] \in Seq(Posts) /\ Posts \subseteq Frames
    BY <1>2, <1>3 DEF ServerOK, Posts
  <2> QED
    BY <2>1, SeqGrows
<1>10. <<f>> \in Seq(Others(f.key)') /\ <<f>> \in Seq(Frames)
  BY <1>2, <1>7
<1>11. PICK s : s = <<f>> \o roomsHistory[f.room]
  OBVIOUS
<1>12. s \in Seq(Others(f.key)') /\ s \in Seq(Frames)
  BY <1>8, <1>9, <1>10, <1>11, ConcatProperties
<1>13. /\ owner' \in [Rooms -> Creators \cup {NoKey}] /\ taken' \in SUBSET Rooms
       /\ SendTo(online[f.key], s)
  BY <1>1, <1>3, <1>4, <1>11, SameRoomsGrow DEF ServerTypes
<1> QED
  BY <1>1, <1>2, <1>4, <1>5, <1>6, <1>12, <1>13, PassedOn

LEMMA SentNowhere ==
    ASSUME ServerTypes, down' = down
    PROVE  SendDown([x \in Conns |-> << >>])
<1>1. \A c \in Conns : down[c] \o << >> = down[c]
  BY ConcatEmptySeq DEF ServerTypes
<1> QED
  BY <1>1 DEF SendDown, ServerTypes

LEMMA DropKeepsInv ==
    ASSUME Inv, Ids, NEW c \in Conns, up[c] # << >>, DropInviteResponse(c, Head(up[c]))
    PROVE  Inv'
<1> DEFINE fs == [x \in Conns |-> << >>]
<1>1. /\ pubKey[c] # NoKey /\ TakeUp(c) /\ UNCHANGED <<link, serverVars, down>>
  BY DEF DropInviteResponse, KeyedRequest, Request
<1>2. SendDown(fs)
  BY <1>1, SentNowhere DEF Inv
<1>3. \A d \in Conns : fs[d] \in Seq(Frames) /\ fs[d] = << >>
  BY EmptySeq
<1>4. ASSUME NEW k \in Keys, conn[k] # NoConn
      PROVE  WritesTo(k, c, fs[conn[k]])
  <2>1. fs[conn[k]] = << >>
    BY <1>4, WhoIsThere
  <2>2. << >> \in Seq(Others(k)')
    BY EmptySeq
  <2> QED
    BY <2>1, <2>2 DEF WritesTo
<1>5. /\ UNCHANGED <<link, roomVars, said>> /\ UNCHANGED <<issued, restarts>>
      /\ pubKey' = pubKey
  BY <1>1 DEF Ids, serverVars
<1> HIDE DEF fs
<1> QED
  BY <1>1, <1>2, <1>3, <1>4, <1>5, ServerStays, Served

(* FanOut to the members of a room.                                        *)
LEMMA FannedOut ==
    ASSUME Inv, Ids, UNCHANGED <<link, owner, users, online, pubKey>>,
           NEW c \in Conns, up[c] # << >>, TakeUp(c), pubKey[c] # NoKey,
           NEW f \in Posts, FanOut(f.room, pubKey[c], f),
           \/ roomsHistory' = [roomsHistory EXCEPT ![f.room] = Append(@, f)]
           \/ roomsHistory' = [roomsHistory EXCEPT ![f.room] = <<f>>]
    PROVE  Inv'
<1>0. /\ Present(f.room, pubKey[c]) \subseteq users[f.room]
      /\ \A u \in Present(f.room, pubKey[c]) : online[u] # NoConn
  BY DEF Present
<1>1. PICK present : /\ present = Present(f.room, pubKey[c])
                     /\ present \subseteq users[f.room]
                     /\ \A u \in present : online[u] # NoConn
  BY <1>0
<1> DEFINE fs == [d \in Conns |-> IF \E u \in present : online[u] = d
                                  THEN <<f>> ELSE << >>]
<1>2. /\ SendDown(fs)
      /\ history' = [u \in Keys |-> IF u \in users[f.room] \ present
                                    THEN Append(history[u], f) ELSE history[u]]
  BY <1>1 DEF FanOut
<1>3. ServerOK /\ ServerTypes /\ f.room \in Rooms /\ f \in Frames
  BY DEF Inv, Posts
<1>4. Grows
  BY SameRoomsGrow
<1>5. \A d \in Conns : fs[d] \in Seq(Frames) /\ (fs[d] = << >> \/ pubKey'[d] # NoKey)
  <2>1. ASSUME NEW d \in Conns, NEW u \in present, online[u] = d
        PROVE  pubKey'[d] # NoKey
    BY <1>1, <1>3, <2>1, NullsOK DEF ServerOK, ServerTypes
  <2>2. <<f>> \in Seq(Frames) /\ << >> \in Seq(Frames)
    BY <1>3, EmptySeq
  <2> QED
    BY <2>1, <2>2
<1>6. ASSUME NEW k \in Keys, conn[k] # NoConn
      PROVE  WritesTo(k, c, fs[conn[k]])
  <2>1. CASE \E u \in present : online[u] = conn[k]
    <3>1. PICK u \in present : online[u] = conn[k]
      BY <2>1
    <3>2. u \in Keys /\ pubKey[conn[k]] = u
      BY <1>1, <1>3, <1>6, <3>1 DEF ServerOK, ServerTypes
    <3>3. u = k
      BY <1>6, <3>2, WhoIsThere, NullsOK
    <3>4. f \in Others(k)'
      BY <1>1, <3>1, <3>3 DEF Others, PostsTo
    <3>5. <<f>> \in Seq(Others(k)')
      BY <3>4
    <3>6. fs[conn[k]] = <<f>>
      BY <1>6, <2>1, WhoIsThere
    <3> QED
      BY <3>5, <3>6 DEF WritesTo
  <2>2. CASE ~ \E u \in present : online[u] = conn[k]
    <3>1. fs[conn[k]] = << >>
      BY <1>6, <2>2, WhoIsThere
    <3>2. << >> \in Seq(Others(k)')
      BY EmptySeq
    <3> QED
      BY <3>1, <3>2 DEF WritesTo
  <2> QED
    BY <2>1, <2>2
<1>7. \A u \in Keys : history'[u] \in Seq(Posts) /\ history'[u] \in Seq(PostsTo(u)')
  <2> SUFFICES ASSUME NEW u \in Keys
               PROVE  history'[u] \in Seq(Posts) /\ history'[u] \in Seq(PostsTo(u)')
    OBVIOUS
  <2>1. history[u] \in Seq(Posts) /\ history[u] \in Seq(PostsTo(u)')
    BY <1>3, <1>4, BacklogsGrow DEF ServerOK
  <2>2. CASE u \in users[f.room] \ present
    <3>1. f \in PostsTo(u)'
      BY <2>2 DEF PostsTo
    <3> QED
      BY <1>2, <2>1, <2>2, <3>1, AppendProperties
  <2>3. CASE u \notin users[f.room] \ present
    BY <1>2, <2>1, <2>3
  <2> QED
    BY <2>2, <2>3
<1>8. \A r \in Rooms : roomsHistory'[r] \in Seq(Posts) /\ roomsHistory'[r] \in Seq(PostsOf(r))
  <2>1. \A r \in Rooms : roomsHistory[r] \in Seq(Posts) /\ roomsHistory[r] \in Seq(PostsOf(r))
    BY <1>3 DEF ServerOK
  <2>2. f \in PostsOf(f.room)
    BY DEF PostsOf
  <2>3. /\ Append(roomsHistory[f.room], f) \in Seq(Posts)
        /\ Append(roomsHistory[f.room], f) \in Seq(PostsOf(f.room))
        /\ <<f>> \in Seq(Posts) /\ <<f>> \in Seq(PostsOf(f.room))
    BY <1>3, <2>1, <2>2, AppendProperties
  <2> QED
    BY <1>3, <2>1, <2>3 DEF ServerOK
<1>9. ServerOK'
  <2>1. history' \in [Keys -> Seq(Posts)]
    BY <1>2, <1>7
  <2>2. roomsHistory' \in [Rooms -> Seq(Posts)]
    BY <1>3, <1>8 DEF ServerOK
  <2>3. /\ \A k \in Keys : online'[k] # NoConn => pubKey'[online'[k]] = k
        /\ \A r \in Rooms : IF Exists(r)' THEN r \in taken' ELSE users'[r] = {}
        /\ restarts' = 0 => \A r \in taken' : Exists(r)'
    BY <1>3, SameRoomsGrow DEF ServerOK
  <2> QED
    BY <1>7, <1>8, <2>1, <2>2, <2>3 DEF ServerOK, PostsOf
<1>10. /\ UNCHANGED <<link, roomVars, said>> /\ UNCHANGED <<issued, restarts>>
       /\ owner' \in [Rooms -> Creators \cup {NoKey}]
       /\ users' \in [Rooms -> SUBSET Keys]
       /\ online' \in [Keys -> Conns \cup {NoConn}]
       /\ pubKey' \in [Conns -> Keys \cup {NoKey}]
       /\ taken' \in SUBSET Rooms
       /\ pubKey' = pubKey
  BY <1>3, SameRoomsGrow DEF Ids, ServerTypes
<1> HIDE DEF fs
<1> QED
  BY <1>2, <1>4, <1>5, <1>6, <1>9, <1>10, Served

LEMMA RelayKeepsInv ==
    ASSUME Inv, Ids, NEW c \in Conns, up[c] # << >>,
           \/ HandleMessage(c, Head(up[c]))
           \/ HandleKeyRotate(c, Head(up[c]))
    PROVE  Inv'
<1>0. PICK f : f = Head(up[c])
  OBVIOUS
<1>1. /\ f.cmd \in {"ROOM.MESSAGE", "ROOM.MESSAGE.KEY.ROTATE"} /\ pubKey[c] # NoKey
      /\ FanOut(f.room, pubKey[c], f) /\ TakeUp(c)
      /\ \/ roomsHistory' = [roomsHistory EXCEPT ![f.room] = Append(@, f)]
         \/ roomsHistory' = [roomsHistory EXCEPT ![f.room] = <<f>>]
      /\ UNCHANGED <<link, owner, users, online, pubKey>>
  BY <1>0 DEF HandleMessage, HandleKeyRotate, KeyedRequest, Request
<1>2. f \in Posts
  BY <1>0, <1>1, RequestIsKnown, KnownRequests
<1> QED
  BY <1>1, <1>2, FannedOut

LEMMA PublicKeyKeepsInv ==
    ASSUME Inv, Ids, NEW c \in Conns, up[c] # << >>, HandlePublicKey(c, Head(up[c]))
    PROVE  Inv'
<1>0. PICK f : f = Head(up[c])
  OBVIOUS
<1>1. /\ f.cmd = "PUBKEY" /\ TakeUp(c)
      /\ pubKey' = [pubKey EXCEPT ![c] = f.key]
      /\ online' = [online EXCEPT ![f.key] = c]
      /\ SendTo(c, history[f.key])
      /\ history' = [history EXCEPT ![f.key] = << >>]
      /\ UNCHANGED <<link, owner, users, roomsHistory>>
  BY <1>0 DEF HandlePublicKey, Request
<1>2. pubKey[c] = NoKey
  BY <1>0, <1>1, RequestIsKnown, KnownRequests
<1>3. PICK w \in Keys : SpokenBy(c, w) /\ f = PublicKey(w)
  BY <1>0, <1>2, RequestIsKnown
<1>4. f.key = w
  BY <1>3 DEF PublicKey, Frame
<1>5. ServerOK /\ ServerTypes
  BY DEF Inv
<1>6. Grows
  BY <1>1, SameRoomsGrow
<1>7. PICK s : s = history[w]
  OBVIOUS
<1>8. s \in Seq(Frames) /\ s \in Seq(Others(w)')
  <2>1. s \in Seq(Posts) /\ s \in Seq(PostsTo(w)')
    BY <1>5, <1>6, <1>7, BacklogsGrow DEF ServerOK
  <2>2. Posts \subseteq Frames /\ PostsTo(w)' \subseteq Others(w)'
    BY DEF Posts, Others
  <2> QED
    BY <2>1, <2>2, SeqGrows
<1> DEFINE fs == [x \in Conns |-> IF x = c THEN s ELSE << >>]
<1>9. SendDown(fs)
  BY <1>1, <1>4, <1>7 DEF SendTo
<1>10. \A x \in Conns : fs[x] \in Seq(Frames) /\ (fs[x] = << >> \/ pubKey'[x] # NoKey)
  BY <1>1, <1>4, <1>5, <1>8, EmptySeq, NullsOK DEF ServerTypes
<1>11. ASSUME NEW k \in Keys, conn[k] # NoConn
       PROVE  WritesTo(k, c, fs[conn[k]])
  <2>1. CASE conn[k] # c
    <3>1. fs[conn[k]] = << >>
      BY <1>11, <2>1, WhoIsThere
    <3>2. << >> \in Seq(Others(k)')
      BY EmptySeq
    <3> QED
      BY <3>1, <3>2 DEF WritesTo
  <2>2. CASE conn[k] = c
    <3>1. k = w
      BY <1>3, <1>11, <2>2, WhoIsThere, SpokenByOne
    <3> QED
      BY <1>8, <2>2, <3>1 DEF WritesTo
  <2> QED
    BY <2>1, <2>2
<1>12. ServerOK'
  <2>1. /\ history' \in [Keys -> Seq(Posts)]
        /\ \A k \in Keys : history'[k] \in Seq(PostsTo(k)')
    BY <1>1, <1>4, <1>5, <1>6, BacklogsGrow, EmptySeq DEF ServerOK
  <2>2. ASSUME NEW k \in Keys, online'[k] # NoConn
        PROVE  pubKey'[online'[k]] = k
    BY <1>1, <1>2, <1>4, <1>5, <2>2, NullsOK DEF ServerOK, ServerTypes
  <2> QED
    BY <1>1, <1>5, <2>1, <2>2, SameRoomsGrow DEF ServerOK, PostsOf
<1>13. /\ UNCHANGED <<link, roomVars, said>> /\ UNCHANGED <<issued, restarts>>
       /\ owner' \in [Rooms -> Creators \cup {NoKey}]
       /\ users' \in [Rooms -> SUBSET Keys]
       /\ online' \in [Keys -> Conns \cup {NoConn}]
       /\ pubKey' \in [Conns -> Keys \cup {NoKey}]
       /\ taken' \in SUBSET Rooms
       /\ \A d \in Conns : d # c => pubKey'[d] = pubKey[d]
       /\ pubKey'[c] = Head(up[c]).key
  BY <1>0, <1>1, <1>4, <1>5, SameRoomsGrow DEF Ids, ServerTypes
<1> HIDE DEF fs
<1> QED
  BY <1>1, <1>2, <1>6, <1>9, <1>10, <1>11, <1>12, <1>13, Served

LEMMA CloseKeepsInv ==
    ASSUME Inv, Ids, NEW c \in Conns, HandleClose(c)
    PROVE  Inv'
<1>1. /\ link[c] = "closed" /\ up[c] = << >>
      /\ link' = [link EXCEPT ![c] = "free"] /\ UNCHANGED <<up, down>>
      /\ online' = [k \in Keys |-> IF k = pubKey[c] THEN NoConn ELSE online[k]]
      /\ pubKey' = [pubKey EXCEPT ![c] = NoKey]
      /\ UNCHANGED <<owner, users, history, roomsHistory>>
  BY DEF HandleClose, FreeLink, Closing
<1>2. ServerOK /\ ServerTypes /\ TypeOK
  BY DEF Inv
<1>3. Grows
  BY <1>1, SameRoomsGrow
<1>4. \A d \in Conns : d # c => SameLink(d)
  BY <1>1, <1>2 DEF SameLink, ServerTypes
<1>5. ServerOK'
  <2>1. ASSUME NEW k \in Keys, online'[k] # NoConn
        PROVE  pubKey'[online'[k]] = k
    BY <1>1, <1>2, <2>1 DEF ServerOK, ServerTypes
  <2> QED
    BY <1>1, <1>2, <1>3, <2>1, SameRoomsGrow, BacklogsGrow DEF ServerOK, PostsOf
<1>6. ServerTypes'
  BY <1>1, <1>2, SameRoomsGrow DEF ServerTypes, LinkStates, Ids, roomVars
<1>7. \A d \in Conns : LinkOK(d)'
  <2>1. LinkOK(c)'
    BY <1>1, <1>2 DEF Inv, LinkOK, ServerTypes
  <2>2. ASSUME NEW d \in Conns, d # c PROVE LinkOK(d)'
    BY <1>3, <1>4, <2>2, LinkStays DEF Inv
  <2> QED
    BY <2>1, <2>2
<1>8. \A k \in Keys : SameClient(k)
  BY DEF Ids, roomVars, SameClient
<1>9. ASSUME NEW k \in Keys
      PROVE  ClientOK(k)' /\ ConnOK(k)'
  <2>1. conn[k] # NoConn => conn[k] # c /\ conn[k] \in Conns
    BY <1>1, WhoIsThere
  <2> QED
    BY <1>2, <1>3, <1>4, <1>8, <2>1, ClientStays, ConnStays DEF Inv
<1>10. TypeOK'
  BY <1>2 DEF TypeOK, Ids, roomVars
<1> QED
  BY <1>5, <1>6, <1>7, <1>9, <1>10 DEF Inv

LEMMA ServeKeepsInv ==
    ASSUME Inv, NEW c \in Conns, Serve(c)
    PROVE  Inv'
<1>1. Ids
  BY DEF Serve, Ids
<1>2. CASE HandleClose(c)
  BY <1>1, <1>2, CloseKeepsInv
<1>3. CASE up[c] # << >> /\ Handle(c, Head(up[c]))
  BY <1>1, <1>3, NewRoomKeepsInv, InviteKeepsInv, DeclineKeepsInv, InviteResponseKeepsInv,
     DropKeepsInv, OpenRoomKeepsInv, RelayKeepsInv, RefuseKeepsInv, PublicKeyKeepsInv
     DEF Handle
<1> QED
  BY <1>2, <1>3 DEF Serve, ServerStep

-----------------------------------------------------------------------------
(* The clients' steps.                                                     *)

Away == UNCHANGED <<serverVars, taken, restarts>>

LEMMA ServerUntouched ==
    ASSUME Inv, Away
    PROVE  ServerOK'
  BY DEF Inv, ServerOK, Away, serverVars, PostsTo, PostsOf, Exists

LEMMA AwayGrows ==
    ASSUME Inv, Away, \A i \in Invites : issued[i] # NoInvite => issued'[i] = issued[i]
    PROVE  Grows
  BY DEF Away, serverVars, Grows

LEMMA ConnsApart ==
    ASSUME Inv, NEW k \in Keys, NEW l \in Keys, k # l, conn[k] # NoConn, conn[l] # NoConn
    PROVE  conn[k] # conn[l]
  BY WhoIsThere, SpokenByOne

LEMMA ClientStep ==
    ASSUME Inv, Away, Grows, NEW k \in Keys,
           \A l \in Keys : l # k => SameClient(l),
           \A l \in Keys : l # k /\ conn[l] # NoConn => SameLink(conn[l]),
           TypeOK', ServerTypes', \A c \in Conns : LinkOK(c)', ClientOK(k)', ConnOK(k)'
    PROVE  Inv'
<1>1. ASSUME NEW l \in Keys, l # k
      PROVE  ClientOK(l)' /\ ConnOK(l)'
  BY <1>1, ClientStays, ConnStays DEF Inv
<1> QED
  BY <1>1, ServerUntouched DEF Inv

LEMMA Constructed ==
    ASSUME Inv, NEW k \in Keys, NEW c \in Conns, NEW d \in Datas,
           NEW ciph \in RoomKeys \cup {NoCipher}, NEW first \in Frames,
           Construct(k, c, d, ciph, first),
           draws' \in [Keys -> Nat], \A l \in Keys : l # k => draws'[l] = draws[l],
           first \in Firsts(k), ClientOK(k)',
           \/ first.cmd = "ROOM.CREATE" /\ d.name = NoRoom
           \/ /\ first.cmd = "ROOM.OPEN" /\ first.room = d.name
              /\ ciph # NoCipher /\ d.name # NoRoom
           \/ first.cmd = "ROOM.INVITE.VERIFICATION_REQUEST"
    PROVE  Inv'
<1>1. ServerTypes /\ TypeOK
  BY DEF Inv
<1>2. /\ link[c] = "free" /\ link' = [link EXCEPT ![c] = "open"]
      /\ up' = [up EXCEPT ![c] = <<PublicKey(k), first>>] /\ down' = down
      /\ stage' = [stage EXCEPT ![k] = "waiting"]
      /\ conn' = [conn EXCEPT ![k] = c]
      /\ data' = [data EXCEPT ![k] = d]
      /\ cipher' = [cipher EXCEPT ![k] = ciph]
      /\ UNCHANGED <<serverVars, saved, issued, said, taken, restarts>>
  BY DEF Construct, OpenLink
<1>3. Away /\ Grows
  BY <1>2, AwayGrows DEF Away
<1>4. /\ stage'[k] = "waiting" /\ conn'[k] = c /\ data'[k] = d /\ cipher'[k] = ciph
      /\ link'[c] = "open" /\ up'[c] = <<PublicKey(k), first>> /\ down'[c] = down[c]
      /\ pubKey'[c] = pubKey[c]
  BY <1>1, <1>2 DEF ServerTypes, TypeOK, serverVars
<1>5. \A l \in Keys : l # k => SameClient(l)
  BY <1>1, <1>2 DEF SameClient, TypeOK
<1>6. \A x \in Conns : x # c => SameLink(x)
  BY <1>1, <1>2 DEF SameLink, ServerTypes, serverVars
<1>7. ASSUME NEW l \in Keys, l # k, conn[l] # NoConn
      PROVE  SameLink(conn[l])
  BY <1>2, <1>6, <1>7, WhoIsThere
<1>8. TypeOK'
  BY <1>1, <1>2 DEF TypeOK
<1>9. PublicKey(k) \in Frames
  BY DEF Frames, Commands, PublicKey, Frame
<1>10. ServerTypes'
  <2>1. <<PublicKey(k), first>> \in Seq(Frames)
    BY <1>9
  <2>2. up' \in [Conns -> Seq(Frames)] /\ link' \in [Conns -> LinkStates]
    BY <1>1, <1>2, <2>1 DEF ServerTypes, LinkStates
  <2> QED
    BY <1>1, <1>2, <2>2 DEF ServerTypes, serverVars
<1>11. /\ LinkOK(c)' /\ SpokenBy(c, k)' /\ Requests(c)' = <<first>> /\ down'[c] = << >>
  <2>1. first \in Firsts(k)'
    BY <1>3, SetsGrow
  <2> QED
    BY <1>2, <1>4, <2>1, LinkOpens DEF Inv
<1>12. \A x \in Conns : LinkOK(x)'
  BY <1>3, <1>6, <1>11, LinkStays DEF Inv
<1>13. ConnOK(k)'
  <2>1. /\ down'[c] \in Seq(ToClient(k)') /\ down'[c] \in Seq(Others(k)')
    BY <1>11, EmptySeq
  <2>2. AtMostOne(down'[c], ReplyCommands)
    BY <1>11 DEF AtMostOne
  <2>3. Head(Requests(c)') = first
    BY <1>11
  <2>4. FirstIs(k, first)'
    BY <1>4 DEF FirstIs, Creating, Reopening, Keyed
  <2>5. FirstIs(k, Head(Requests(c)))'
    BY <2>3, <2>4 DEF FirstIs
  <2> QED
    BY <1>4, <1>11, <2>1, <2>2, <2>5 DEF ConnOK
<1> QED
  BY <1>3, <1>5, <1>7, <1>8, <1>10, <1>12, <1>13, ClientStep

LEMMA NewRoomOfKeepsInv ==
    ASSUME Inv, NEW k \in Keys, NEW c \in Conns, NewRoomOf(k, c)
    PROVE  Inv'
<1> DEFINE key == RoomKey(k, 1)
           d == RoomData(NoRoom, k, key, 0, {}, NoInvite)
<1>1. /\ k \in Creators /\ draws[k] = 0 /\ draws' = [draws EXCEPT ![k] = 1]
      /\ Construct(k, c, d, key, NewRoom)
  BY DEF NewRoomOf, FreshPair
<1>2. TypeOK /\ ServerTypes /\ ClientOK(k)
  BY DEF Inv
<1>3. key \in RoomKeys /\ key.by = k
  BY DEF RoomKey, RoomKeys
<1>4. d \in Datas
  <2>1. 0 \in Null .. KeyRotationLimit - 1
    BY ConstantsOK DEF Null
  <2> HIDE DEF key
  <2> QED
    BY <1>3, <2>1 DEF Datas, RoomData
<1>5. /\ d.name = NoRoom /\ d.owner = k /\ d.roomKey = key /\ d.invites = {}
      /\ d.invite = NoInvite
  BY DEF RoomData
<1>6. NewRoom \in Frames /\ NewRoom.cmd = "ROOM.CREATE"
  BY DEF Frames, Commands, NewRoom, Frame
<1>7. NewRoom \in Firsts(k)
  BY <1>1, <1>6 DEF Firsts
<1>8. draws' \in [Keys -> Nat] /\ (\A l \in Keys : l # k => draws'[l] = draws[l]) /\ draws'[k] = 1
  BY <1>1, <1>2 DEF ServerTypes
<1> HIDE DEF key, d
<1>9. /\ stage'[k] = "waiting" /\ data'[k] = d /\ cipher'[k] = key /\ conn'[k] = c
      /\ saved'[k] = saved[k]
  BY <1>1, <1>2 DEF Construct, TypeOK
<1>10. saved[k] = NoData
  BY <1>1, <1>2 DEF ClientOK
<1>11. d # NoData /\ key # NoCipher
  BY <1>3, <1>4, NullsOK
<1>12. OriginOK(k, d)' /\ RoomOK(k, d)'
  BY <1>1, <1>3, <1>5 DEF OriginOK, RoomOK
<1>13. ClientOK(k)'
  BY <1>5, <1>8, <1>9, <1>10, <1>11, <1>12 DEF ClientOK, Keyed, OriginOK, RoomOK
<1> QED
  BY <1>1, <1>3, <1>4, <1>5, <1>6, <1>7, <1>8, <1>13, Constructed

LEMMA OpenByInviteKeepsInv ==
    ASSUME Inv, NEW k \in Keys, NEW c \in Conns, NEW i \in Invites, OpenByInvite(k, c, i)
    PROVE  Inv'
<1> DEFINE key == RoomKey(k, 1)
           inv == issued[i]
           d == RoomData(inv.room, inv.owner, key, Null, {}, i)
           first == Invite(inv.owner, inv.room, k, Seal(NoCipher, i, key))
<1>1. /\ k \notin Creators /\ inv # NoInvite
      /\ draws[k] = 0 /\ draws' = [draws EXCEPT ![k] = 1]
      /\ Construct(k, c, d, NoCipher, first)
  BY DEF OpenByInvite, FreshPair
<1>2. TypeOK /\ ServerTypes /\ ClientOK(k)
  BY DEF Inv
<1>3. key \in RoomKeys /\ key.by = k /\ key = RoomKey(k, 1)
  BY DEF RoomKey, RoomKeys
<1>4. inv \in [room : Rooms, owner : Keys] /\ inv = Invitation(inv.room, inv.owner)
  BY <1>1, <1>2 DEF ServerTypes, Invitation
<1>5. d \in Datas
  <2>1. Null \in Null .. KeyRotationLimit - 1
    BY ConstantsOK DEF Null
  <2> HIDE DEF key, inv
  <2> QED
    BY <1>3, <1>4, <2>1 DEF Datas, RoomData
<1>6. /\ d.name = inv.room /\ d.owner = inv.owner /\ d.roomKey = key /\ d.invites = {}
      /\ d.invite = i /\ d.messageCount = Null
  BY DEF RoomData
<1>7. first \in Firsts(k) /\ first \in Frames /\ first.cmd = "ROOM.INVITE.VERIFICATION_REQUEST"
  <2> HIDE DEF key
  <2>1. first \in Frames
    BY <1>3, <1>4 DEF Frames, Commands, Invite, Frame, Seals, Seal
  <2>2. /\ first.cmd = "ROOM.INVITE.VERIFICATION_REQUEST" /\ first.key = inv.owner
        /\ first.room = inv.room /\ first.from = k
        /\ first.body = Seal(NoCipher, i, key)
    BY DEF Invite, Frame
  <2>3. /\ Seal(NoCipher, i, key) \in Seals
        /\ Seal(NoCipher, i, key).token = i /\ Seal(NoCipher, i, key).content = key
    BY <1>3 DEF Seals, Seal
  <2>4. first \in Asks
    <3> HIDE DEF first
    <3> QED
      BY <1>1, <1>3, <1>4, <2>1, <2>2, <2>3 DEF Asks
  <2> QED
    BY <2>1, <2>2, <2>4 DEF Firsts
<1>8. draws' \in [Keys -> Nat] /\ (\A l \in Keys : l # k => draws'[l] = draws[l]) /\ draws'[k] = 1
  BY <1>1, <1>2 DEF ServerTypes
<1>9. /\ stage'[k] = "waiting" /\ data'[k] = d /\ cipher'[k] = NoCipher /\ conn'[k] = c
      /\ saved'[k] = saved[k] /\ issued' = issued
  <2> HIDE DEF d, first
  <2> QED
    BY <1>1, <1>2 DEF Construct, TypeOK
<1>10. saved[k] = NoData
  BY <1>1, <1>2 DEF ClientOK
<1>11. d # NoData
  BY <1>5, NullsOK
<1>12. OriginOK(k, data[k])' /\ d.name # NoRoom
  BY <1>1, <1>4, <1>6, <1>9, NullsOK DEF OriginOK
<1> HIDE DEF key, inv, d, first
<1>13. ClientOK(k)'
  BY <1>1, <1>3, <1>6, <1>8, <1>9, <1>10, <1>11, <1>12 DEF ClientOK, Keyed
<1> QED
  BY <1>1, <1>5, <1>7, <1>8, <1>13, Constructed

LEMMA OpenExistingKeepsInv ==
    ASSUME Inv, NEW k \in Keys, NEW c \in Conns, OpenExisting(k, c)
    PROVE  Inv'
<1>0. PICK d : d = saved[k]
  OBVIOUS
<1>1. /\ d # NoData /\ draws' = draws
      /\ Construct(k, c, d, d.roomKey, OpenRoom(d.name))
  BY <1>0 DEF OpenExisting
<1>2. TypeOK /\ ServerTypes /\ ClientOK(k)
  BY DEF Inv
<1>3. d \in Datas
  BY <1>0, <1>1, <1>2 DEF TypeOK
<1>4. /\ OriginOK(k, d) /\ RoomOK(k, d) /\ d.name # NoRoom /\ d.invites = {} /\ draws[k] # 0
  BY <1>0, <1>1, <1>2 DEF ClientOK
<1>5. d.name \in Rooms /\ d.roomKey \in RoomKeys /\ d.roomKey # NoCipher
  BY <1>3, <1>4, NullsOK DEF Datas
<1>6. /\ OpenRoom(d.name) \in Frames /\ OpenRoom(d.name).cmd = "ROOM.OPEN"
      /\ OpenRoom(d.name).room = d.name
  BY <1>5 DEF Frames, Commands, OpenRoom, Frame
<1>7. OpenRoom(d.name) \in Firsts(k)
  BY <1>5, <1>6 DEF Firsts
<1>8. /\ stage'[k] = "waiting" /\ data'[k] = d /\ cipher'[k] = d.roomKey /\ conn'[k] = c
      /\ saved'[k] = d /\ issued' = issued
      /\ UNCHANGED <<serverVars, taken, restarts>>
  BY <1>0, <1>1, <1>2 DEF Construct, TypeOK
<1>9. Grows
  BY <1>8, AwayGrows DEF Away
<1>10. OriginOK(k, d)' /\ RoomOK(k, d)'
  BY <1>3, <1>4, <1>5, <1>9, OriginStays, RoomStays
<1>11. ClientOK(k)'
  BY <1>1, <1>4, <1>5, <1>8, <1>10 DEF ClientOK, Keyed
<1>12. d.roomKey \in RoomKeys \cup {NoCipher}
  BY <1>5
<1>13. draws' \in [Keys -> Nat] /\ \A l \in Keys : l # k => draws'[l] = draws[l]
  BY <1>1, <1>2 DEF ServerTypes
<1>14. PICK first : first = OpenRoom(d.name)
  OBVIOUS
<1>15. PICK ciph : ciph = d.roomKey
  OBVIOUS
<1>16. /\ ciph \in RoomKeys \cup {NoCipher} /\ first \in Frames
       /\ Construct(k, c, d, ciph, first) /\ first \in Firsts(k)
       /\ first.cmd = "ROOM.OPEN" /\ first.room = d.name
       /\ ciph # NoCipher /\ d.name # NoRoom
  BY <1>1, <1>4, <1>5, <1>6, <1>7, <1>14, <1>15
<1> QED
  BY <1>3, <1>11, <1>13, <1>16, Constructed

(* A client sends a request, takes a frame, or both: its connection.       *)
Talks(c) ==
    /\ UNCHANGED link
    /\ up' = up \/ \E f \in Later' : up' = [up EXCEPT ![c] = Append(@, f)]
    /\ \/ down' = down
       \/ down[c] # << >> /\ down' = [down EXCEPT ![c] = Tail(@)]

LEMMA Talked ==
    ASSUME Inv, Away, Grows, NEW k \in Keys, NEW c \in Conns, conn[k] = c, c # NoConn, Talks(c)
    PROVE  /\ SpokenBy(c, k)' /\ LinkOK(c)' /\ link'[c] = "open"
           /\ \A x \in Conns : x # c => SameLink(x)
           /\ up' \in [Conns -> Seq(Frames)] /\ down' \in [Conns -> Seq(Frames)]
           /\ \/ Requests(c)' = Requests(c)
              \/ \E f \in Later' : Requests(c)' = Append(Requests(c), f)
<1>1. /\ ServerTypes /\ LinkOK(c) /\ link[c] = "open" /\ SpokenBy(c, k)
      /\ up[c] \in Seq(Frames) /\ down[c] \in Seq(Frames)
  BY WhoIsThere DEF Inv, ServerTypes
<1>2. pubKey' = pubKey
  BY DEF Away, serverVars
<1>3. down'[c] = down[c] \/ (down[c] # << >> /\ down'[c] = Tail(down[c]))
  BY <1>1 DEF Talks, ServerTypes
<1>4. down' \in [Conns -> Seq(Frames)]
  <2>1. down[c] # << >> => Tail(down[c]) \in Seq(Frames)
    BY <1>1, HeadTailProperties
  <2> QED
    BY <1>1, <2>1 DEF Talks, ServerTypes
<1>5. CASE up' = up
  <2>1. Requests(c)' = Requests(c)
    BY <1>2, <1>5 DEF Requests
  <2>2. /\ Requests(c) \in Seq(FromClient(k)')
        /\ Requests(c) # << >> => Tail(Requests(c)) \in Seq(Later')
    BY <1>1, FromClientGrows, SetsGrow, SeqGrows DEF SpokenBy
  <2>3. SpokenBy(c, k)'
    BY <1>1, <1>2, <1>5, <2>1, <2>2 DEF SpokenBy
  <2> QED
    BY <1>1, <1>2, <1>3, <1>4, <1>5, <2>1, <2>3 DEF Talks, ServerTypes, SameLink, LinkOK
<1>6. ASSUME NEW f \in Later', up' = [up EXCEPT ![c] = Append(@, f)]
      PROVE  /\ SpokenBy(c, k)' /\ LinkOK(c)'
             /\ \A x \in Conns : x # c => SameLink(x)
             /\ up' \in [Conns -> Seq(Frames)]
             /\ Requests(c)' = Append(Requests(c), f)
  <2>1. f \in Frames
    BY <1>6 DEF Later, Posts, Answers
  <2>2. Append(up[c], f) \in Seq(Frames)
    BY <1>1, <2>1, AppendProperties
  <2>3. up' \in [Conns -> Seq(Frames)] /\ up'[c] = Append(up[c], f)
    BY <1>1, <1>6, <2>2 DEF ServerTypes
  <2>4. SpokenBy(c, k)' /\ Requests(c)' = Append(Requests(c), f)
    BY <1>1, <1>2, <1>6, <2>3, LinkSends
  <2>5. \A x \in Conns : x # c => SameLink(x)
    BY <1>1, <1>2, <1>6 DEF Talks, ServerTypes, SameLink
  <2>6. LinkOK(c)'
    BY <1>1, <1>2, <1>3, <2>4 DEF Talks, LinkOK
  <2> QED
    BY <2>3, <2>4, <2>5, <2>6
<1>7. link'[c] = "open"
  BY <1>1 DEF Talks
<1>8. CASE \E f \in Later' : up' = [up EXCEPT ![c] = Append(@, f)]
  BY <1>4, <1>6, <1>7, <1>8
<1> QED
  BY <1>5, <1>8 DEF Talks

LEMMA TalkStep ==
    ASSUME Inv, Away, Grows, NEW k \in Keys,
           conn' = conn,
           \A l \in Keys : l # k => SameClient(l),
           IF conn[k] = NoConn THEN UNCHANGED wireVars ELSE Talks(conn[k]),
           TypeOK', ClientOK(k)', ConnOK(k)',
           draws' \in [Keys -> Nat],
           issued' \in [Invites -> [room : Rooms, owner : Keys] \cup {NoInvite}]
    PROVE  Inv'
<1>1. ServerTypes
  BY DEF Inv
<1>2. CASE conn[k] = NoConn
  <2>1. \A x \in Conns : SameLink(x)
    BY <1>2 DEF SameLink, wireVars, Away, serverVars
  <2>2. \A x \in Conns : LinkOK(x)'
    BY <2>1, LinkStays DEF Inv
  <2>3. ServerTypes'
    BY <1>1, <1>2 DEF ServerTypes, wireVars, Away, serverVars
  <2>4. \A l \in Keys : l # k /\ conn[l] # NoConn => SameLink(conn[l])
    BY <2>1, WhoIsThere
  <2> QED
    BY <2>2, <2>3, <2>4, ClientStep
<1>3. CASE conn[k] # NoConn
  <2>1. PICK c \in Conns : c = conn[k]
    BY <1>3, WhoIsThere
  <2>2. /\ LinkOK(c)' /\ \A x \in Conns : x # c => SameLink(x)
        /\ up' \in [Conns -> Seq(Frames)] /\ down' \in [Conns -> Seq(Frames)]
    BY <1>3, <2>1, Talked
  <2>3. \A x \in Conns : LinkOK(x)'
    BY <2>2, LinkStays DEF Inv
  <2>4. ServerTypes'
    BY <1>1, <1>3, <2>2 DEF ServerTypes, Talks, Away, serverVars
  <2>5. \A l \in Keys : l # k /\ conn[l] # NoConn => SameLink(conn[l])
    BY <1>3, <2>1, <2>2, ConnsApart, WhoIsThere
  <2> QED
    BY <2>3, <2>4, <2>5, ClientStep
<1> QED
  BY <1>2, <1>3

(* The client goes on as it was, as far as its room is concerned.          *)
LEMMA ConnKeeps ==
    ASSUME Inv, Away, Grows, NEW k \in Keys, conn'[k] = conn[k], stage'[k] = stage[k],
           data'[k].name = data[k].name, Keyed(k) => Keyed(k)',
           conn[k] # NoConn => Talks(conn[k])
    PROVE  ConnOK(k)'
<1> SUFFICES ASSUME conn[k] # NoConn
             PROVE  ConnOK(k)'
  BY DEF ConnOK
<1>1. PICK c \in Conns : c = conn[k]
  BY WhoIsThere
<1>2. /\ ConnOK(k) /\ ClientOK(k) /\ TypeOK /\ ServerTypes /\ data[k] # NoData
  BY DEF Inv, ClientOK
<1>3. /\ SpokenBy(c, k)' /\ link'[c] = "open"
      /\ \/ Requests(c)' = Requests(c)
         \/ \E f \in Later' : Requests(c)' = Append(Requests(c), f)
  BY <1>1, Talked
<1>4. down'[c] = down[c] \/ (down[c] # << >> /\ down'[c] = Tail(down[c]))
  BY <1>1, <1>2 DEF Talks, ServerTypes
<1>5. /\ SpokenBy(c, k)
      /\ down[c] \in Seq(ToClient(k)) /\ AtMostOne(down[c], ReplyCommands)
      /\ Requests(c) # << >> /\ Head(Requests(c)).cmd \in FirstCommands =>
            FirstIs(k, Head(Requests(c))) /\ down[c] \in Seq(Others(k))
  BY <1>1, <1>2 DEF ConnOK
<1>6. ToClient(k) \subseteq ToClient(k)' /\ Others(k) \subseteq Others(k)'
  <2>1. Replies(k) \subseteq Replies(k)'
    BY <1>2, RepliesGrow
  <2> QED
    BY <2>1, SetsGrow DEF ToClient
<1>7. /\ down[c] \in Seq(ToClient(k)')
      /\ down[c] \in Seq(Others(k)) => down[c] \in Seq(Others(k)')
  BY <1>5, <1>6, SeqGrows
<1>8. /\ down'[c] \in Seq(ToClient(k)')
      /\ down[c] \in Seq(Others(k)) => down'[c] \in Seq(Others(k)')
  BY <1>4, <1>7, HeadTailProperties
<1>9. AtMostOne(down'[c], ReplyCommands)
  BY <1>4, <1>5, TailAtMostOne
<1>10. ASSUME Requests(c)' # << >>, Head(Requests(c)').cmd \in FirstCommands
       PROVE  FirstIs(k, Head(Requests(c)))' /\ down'[c] \in Seq(Others(k)')
  <2>1. Requests(c) # << >> /\ Head(Requests(c)') = Head(Requests(c))
    <3>1. CASE Requests(c)' = Requests(c)
      BY <1>10, <3>1
    <3>2. ASSUME NEW f \in Later', Requests(c)' = Append(Requests(c), f)
          PROVE  Requests(c) # << >> /\ Head(Requests(c)') = Head(Requests(c))
      <4>1. Requests(c) \in Seq(FromClient(k))
        BY <1>5 DEF SpokenBy
      <4>2. Head(Append(Requests(c), f)) = IF Requests(c) = << >> THEN f ELSE Head(Requests(c))
        BY <4>1, HeadTailAppend
      <4>3. f.cmd \notin FirstCommands
        BY LaterAreNotFirst
      <4> QED
        BY <1>10, <3>2, <4>2, <4>3
    <3> QED
      BY <1>3, <3>1, <3>2
  <2>2. FirstIs(k, Head(Requests(c))) /\ down[c] \in Seq(Others(k))
    BY <1>5, <1>10, <2>1
  <2>3. PICK f : f = Head(Requests(c))
    OBVIOUS
  <2>4. FirstIs(k, f)'
    BY <2>2, <2>3 DEF FirstIs, Creating, Reopening
  <2>5. Head(Requests(c))' = f
    BY <2>1, <2>3
  <2> QED
    BY <1>8, <2>2, <2>4, <2>5 DEF FirstIs
<1> QED
  BY <1>1, <1>3, <1>8, <1>9, <1>10 DEF ConnOK

(* The client goes away, and what it did not save with it.                 *)
LEMMA GoneKeepsInv ==
    ASSUME Inv, NEW k \in Keys, NEW s \in {"absent", "crashed"}, Forget(k, s),
           UNCHANGED serverVars,
           IF conn[k] = NoConn
           THEN UNCHANGED wireVars
           ELSE \E n \in 0 .. Len(up[conn[k]]) : Disconnect(conn[k], n)
    PROVE  Inv'
<1>1. /\ TypeOK /\ ServerTypes /\ ClientOK(k)
      /\ stage' = [stage EXCEPT ![k] = s] /\ conn' = [conn EXCEPT ![k] = NoConn]
      /\ data' = [data EXCEPT ![k] = NoData] /\ cipher' = [cipher EXCEPT ![k] = NoCipher]
      /\ UNCHANGED <<saved, draws, issued, said, opens, taken, restarts>>
  BY DEF Inv, Forget, usageVars
<1>2. Away /\ Grows
  BY <1>1, AwayGrows DEF Away
<1>3. TypeOK' /\ (\A l \in Keys : l # k => SameClient(l))
  BY <1>1 DEF TypeOK, SameClient
<1>4. /\ stage'[k] = s /\ conn'[k] = NoConn /\ data'[k] = NoData /\ cipher'[k] = NoCipher
      /\ saved'[k] = saved[k] /\ draws'[k] = draws[k]
  BY <1>1 DEF TypeOK
<1>5. ClientOK(k)'
  <2>1. ASSUME saved[k] # NoData
        PROVE  OriginOK(k, saved[k])' /\ RoomOK(k, saved[k])'
    <3>1. PICK d : d = saved[k]
      OBVIOUS
    <3>2. d \in Datas /\ OriginOK(k, d) /\ RoomOK(k, d)
      BY <1>1, <2>1, <3>1 DEF TypeOK, ClientOK
    <3>3. OriginOK(k, d)' /\ RoomOK(k, d)'
      BY <1>2, <3>2, OriginStays, RoomStays DEF Datas
    <3>4. saved'[k] = d
      BY <1>4, <3>1
    <3> QED
      BY <3>3, <3>4 DEF OriginOK, RoomOK
  <2> QED
    BY <1>1, <1>4, <2>1 DEF ClientOK, Keyed
<1>6. ConnOK(k)'
  BY <1>4 DEF ConnOK
<1>7. CASE conn[k] = NoConn
  <2>1. \A x \in Conns : SameLink(x)
    BY <1>7 DEF SameLink, wireVars, serverVars
  <2>2. (\A x \in Conns : LinkOK(x)') /\ ServerTypes'
    BY <1>1, <1>2, <1>7, <2>1, LinkStays DEF Inv, ServerTypes, wireVars, serverVars
  <2>3. \A l \in Keys : l # k /\ conn[l] # NoConn => SameLink(conn[l])
    BY <2>1, WhoIsThere
  <2> QED
    BY <1>2, <1>3, <1>5, <1>6, <2>2, <2>3, ClientStep
<1>8. CASE conn[k] # NoConn
  <2>1. PICK c \in Conns : c = conn[k]
    BY <1>8, WhoIsThere
  <2>2. PICK n \in 0 .. Len(up[c]) : Disconnect(c, n)
    BY <1>8, <2>1
  <2>3. /\ LinkOK(c) /\ pubKey' = pubKey
        /\ link' = [link EXCEPT ![c] = "closed"]
        /\ up' = [up EXCEPT ![c] = SubSeq(@, 1, n)]
        /\ down' = [down EXCEPT ![c] = << >>]
    BY <2>2 DEF Inv, Disconnect, serverVars
  <2>4. LinkOK(c)'
    BY <1>1, <1>2, <2>2, <2>3, LinkCut
  <2>5. \A x \in Conns : x # c => SameLink(x)
    BY <1>1, <2>3 DEF SameLink, ServerTypes
  <2>6. \A x \in Conns : LinkOK(x)'
    BY <1>2, <2>4, <2>5, LinkStays DEF Inv
  <2>7. SubSeq(up[c], 1, n) \in Seq(Frames) /\ << >> \in Seq(Frames)
    BY <1>1, PrefixSeq, EmptySeq DEF ServerTypes
  <2>8. ServerTypes'
    BY <1>1, <2>3, <2>7 DEF ServerTypes, LinkStates, serverVars
  <2>9. \A l \in Keys : l # k /\ conn[l] # NoConn => SameLink(conn[l])
    BY <1>8, <2>1, <2>5, ConnsApart, WhoIsThere
  <2> QED
    BY <1>2, <1>3, <1>5, <1>6, <2>6, <2>8, <2>9, ClientStep
<1> QED
  BY <1>7, <1>8

LEMMA LeaveKeepsInv ==
    ASSUME Inv, NEW k \in Keys, Leave(k)
    PROVE  Inv'
  BY GoneKeepsInv DEF Leave

(* The client's room stays what it was, but for its key, count and         *)
(* invitations.                                                            *)
LEMMA ClientKeeps ==
    ASSUME Inv, Grows, NEW k \in Keys, data[k] # NoData, NEW d \in Datas, data'[k] = d,
           stage'[k] = stage[k], conn'[k] = conn[k],
           draws'[k] # 0, saved'[k] \in {saved[k], NoData},
           d.name = data[k].name, d.owner = data[k].owner, d.invite = data[k].invite,
           data[k].messageCount = Null => d.messageCount = Null,
           Keyed(k)' <=> Keyed(k),
           Keyed(k) => cipher'[k] = d.roomKey /\ d.roomKey.by = d.owner,
           ~Keyed(k) => d.roomKey = data[k].roomKey,
           stage[k] = "waiting" => d.invites = {},
           \A i \in d.invites : i \in data[k].invites \/ issued'[i] = Invitation(d.name, k)
    PROVE  ClientOK(k)'
<1>1. PICK old \in Datas : old = data[k]
  BY DEF Inv, TypeOK
<1>2. ClientOK(k) /\ TypeOK /\ d # NoData /\ OriginOK(k, old)
  BY <1>1, NullsOK DEF Inv, ClientOK
<1>3. OriginOK(k, d)'
  <2>1. OriginOK(k, old)'
    BY <1>2, OriginStays
  <2> QED
    BY <1>1, <2>1 DEF OriginOK
<1>4. Keyed(k) => RoomOK(k, d)'
  <2>1. ASSUME Keyed(k)
        PROVE  RoomOK(k, old)'
    BY <1>1, <1>2, <2>1, RoomStays DEF ClientOK, Datas
  <2> QED
    BY <1>1, <2>1 DEF RoomOK
<1>5. ASSUME NEW i \in d.invites
      PROVE  issued'[i] = Invitation(d.name, k)
  <2>1. CASE i \in data[k].invites
    <3>1. issued[i] = Invitation(d.name, k) /\ i \in Invites
      BY <1>1, <1>2, <2>1 DEF ClientOK, Datas
    <3>2. d.name \in Rooms
      BY <1>1, <1>2, <1>5 DEF ClientOK, Datas
    <3> QED
      BY <3>1, <3>2, InvitationIsSome DEF Grows
  <2> QED
    BY <1>5, <2>1
<1>6. ASSUME saved'[k] # NoData
      PROVE  /\ OriginOK(k, saved[k])' /\ RoomOK(k, saved[k])'
             /\ saved'[k] = saved[k] /\ saved[k].name # NoRoom /\ saved[k].invites = {}
             /\ d.name = saved[k].name
  <2>1. PICK s \in Datas : s = saved[k] /\ s = saved'[k]
    BY <1>2, <1>6 DEF TypeOK
  <2>2. /\ OriginOK(k, s) /\ RoomOK(k, s) /\ s.name # NoRoom /\ s.invites = {}
        /\ d.name = s.name
    BY <1>1, <1>2, <1>6, <2>1 DEF ClientOK
  <2>3. OriginOK(k, s)' /\ RoomOK(k, s)'
    BY <2>2, OriginStays, RoomStays DEF Datas
  <2> QED
    BY <2>1, <2>2, <2>3 DEF OriginOK, RoomOK
<1>7. /\ d.name = NoRoom => saved'[k] = NoData /\ stage'[k] = "waiting"
      /\ ~Keyed(k) => /\ k \notin Creators
                      /\ stage'[k] = "waiting"
                      /\ saved'[k] = NoData
                      /\ d.roomKey = RoomKey(k, 1)
      /\ stage'[k] = "waiting" => d.invites = {}
      /\ stage'[k] \in {"absent", "crashed"} <=> data'[k] = NoData
  BY <1>1, <1>2 DEF ClientOK
<1>8. /\ OriginOK(k, data[k])'
      /\ Keyed(k)' => cipher'[k] = d.roomKey /\ RoomOK(k, data[k])'
  BY <1>3, <1>4 DEF OriginOK, RoomOK
<1>9. saved'[k] # NoData => OriginOK(k, saved[k])' /\ RoomOK(k, saved[k])'
  BY <1>6 DEF OriginOK, RoomOK
<1> QED
  BY <1>2, <1>5, <1>6, <1>7, <1>8, <1>9 DEF ClientOK

LEMMA TalkKeepsInv ==
    ASSUME Inv, Away, Grows, NEW k \in Keys, UNCHANGED <<stage, conn>>,
           \A l \in Keys : l # k => SameClient(l),
           IF conn[k] = NoConn THEN UNCHANGED wireVars ELSE Talks(conn[k]),
           data'[k].name = data[k].name, Keyed(k) => Keyed(k)',
           TypeOK', ClientOK(k)',
           draws' \in [Keys -> Nat],
           issued' \in [Invites -> [room : Rooms, owner : Keys] \cup {NoInvite}]
    PROVE  Inv'
<1>1. ConnOK(k)'
  BY ConnKeeps
<1> QED
  BY <1>1, TalkStep

LEMMA GenerateInviteKeepsInv ==
    ASSUME Inv, NEW k \in Keys, NEW i \in Invites, GenerateInvite(k, i)
    PROVE  Inv'
<1>1. /\ TypeOK /\ ServerTypes /\ ClientOK(k)
      /\ stage[k] = "open" /\ issued[i] = NoInvite
      /\ issued' = [issued EXCEPT ![i] = [room |-> data[k].name, owner |-> k]]
      /\ data' = [data EXCEPT ![k].invites = @ \cup {i}]
      /\ UNCHANGED <<wireVars, serverVars, stage, conn, cipher, saved, draws,
                     said, opens, taken, restarts>>
  BY DEF Inv, GenerateInvite
<1>2. data[k] # NoData /\ draws[k] # 0
  BY <1>1 DEF ClientOK
<1>3. PICK old \in Datas : old = data[k]
  BY <1>1, <1>2 DEF TypeOK
<1>4. PICK d : d = [old EXCEPT !.invites = @ \cup {i}]
  OBVIOUS
<1>5. /\ d \in Datas /\ d.name = old.name /\ d.owner = old.owner /\ d.invite = old.invite
      /\ d.messageCount = old.messageCount /\ d.roomKey = old.roomKey
      /\ d.invites = old.invites \cup {i}
  BY <1>3, <1>4 DEF Datas
<1>6. data'[k] = d /\ (\A l \in Keys : l # k => data'[l] = data[l])
      /\ data' \in [Keys -> Datas \cup {NoData}]
  BY <1>1, <1>3, <1>4, <1>5 DEF TypeOK
<1>7. d.name \in Rooms
  BY <1>1, <1>2, <1>3, <1>5 DEF ClientOK, Datas
<1>8. /\ issued' \in [Invites -> [room : Rooms, owner : Keys] \cup {NoInvite}]
      /\ issued'[i] = Invitation(d.name, k)
      /\ \A j \in Invites : issued[j] # NoInvite => issued'[j] = issued[j]
  BY <1>1, <1>3, <1>5, <1>7 DEF ServerTypes, Invitation
<1>9. Away /\ Grows
  BY <1>1, <1>8, AwayGrows DEF Away
<1>10. TypeOK'
  BY <1>1, <1>6 DEF TypeOK
<1>11. Keyed(k)' <=> Keyed(k)
  BY <1>1 DEF Keyed
<1>12. /\ Keyed(k) => cipher'[k] = d.roomKey /\ d.roomKey.by = d.owner
       /\ \A j \in d.invites : j \in data[k].invites \/ issued'[j] = Invitation(d.name, k)
  BY <1>1, <1>3, <1>5, <1>8 DEF ClientOK, RoomOK
<1>13. ClientOK(k)'
  BY <1>1, <1>2, <1>3, <1>5, <1>6, <1>9, <1>11, <1>12, ClientKeeps
<1>14. \A l \in Keys : l # k => SameClient(l)
  BY <1>1, <1>6 DEF SameClient
<1>15. IF conn[k] = NoConn THEN UNCHANGED wireVars ELSE Talks(conn[k])
  BY <1>1 DEF Talks, wireVars
<1> QED
  BY <1>1, <1>3, <1>5, <1>6, <1>8, <1>9, <1>10, <1>11, <1>13, <1>14, <1>15, TalkKeepsInv
     DEF ServerTypes

LEMMA SendMessageKeepsInv ==
    ASSUME Inv, NEW k \in Keys, NEW t \in Texts, SendMessage(k, t)
    PROVE  Inv'
<1> DEFINE f == Message(data[k].name, Seal(cipher[k], NoInvite, t))
<1>1. /\ TypeOK /\ ServerTypes /\ ClientOK(k)
      /\ stage[k] = "open" /\ said' = [said EXCEPT ![t] = k] /\ Submit(conn[k], f)
      /\ UNCHANGED <<link, down, serverVars, roomVars, issued, opens, taken, restarts>>
  BY DEF Inv, SendMessage
<1>2. Away /\ Grows
  BY <1>1, AwayGrows DEF Away
<1>3. data[k] # NoData /\ data[k] \in Datas /\ data[k].name # NoRoom /\ Keyed(k)
  BY <1>1 DEF ClientOK, TypeOK
<1>4. data[k].name \in Rooms /\ cipher[k] \in RoomKeys
  BY <1>1, <1>3 DEF TypeOK, Datas, Keyed
<1>5. f \in Posts
  BY <1>4 DEF Posts, Frames, Commands, Seals, Message, Frame, Seal
<1>6. f \in Later'
  BY <1>5 DEF Later
<1> HIDE DEF f
<1>7. IF conn[k] = NoConn THEN UNCHANGED wireVars ELSE Talks(conn[k])
  BY <1>1, <1>6 DEF Submit, Talks, wireVars
<1>8. TypeOK'
  BY <1>1 DEF TypeOK, roomVars
<1>9. \A l \in Keys : SameClient(l)
  BY <1>1 DEF SameClient, roomVars
<1>10. ClientOK(k)'
  BY <1>1, <1>2, <1>9, ClientStays
<1>11. /\ UNCHANGED <<stage, conn, data, cipher, draws, issued>>
  BY <1>1 DEF roomVars
<1> QED
  BY <1>1, <1>2, <1>7, <1>8, <1>9, <1>10, <1>11, TalkKeepsInv DEF Keyed, ServerTypes

-----------------------------------------------------------------------------
(* What a client may find on its connection.                               *)

Takes(k, f) ==
    /\ conn[k] # NoConn
    /\ down[conn[k]] # << >>
    /\ f = Head(down[conn[k]])

LEMMA FrameIsKnown ==
    ASSUME Inv, NEW k \in Keys, NEW f, Takes(k, f)
    PROVE  /\ f \in Frames /\ data[k] \in Datas /\ data[k] # NoData /\ draws[k] # 0
           /\ f.cmd \in {"ROOM.MESSAGE", "ROOM.MESSAGE.KEY.ROTATE"} => f \in PostsTo(k)
           /\ f.cmd = "ROOM.INVITE.VERIFICATION_REQUEST" =>
                 f \in Asks /\ f.key = k /\ owner[f.room] = k
           /\ f.cmd = "ROOM.INVITE.VERIFICATION_RESPONSE" =>
                 f \in Answers /\ f.key = k /\ k \in users[f.room]
           /\ f.cmd \in ReplyCommands =>
                 /\ f \in Replies(k)
                 /\ Tail(down[conn[k]]) \in Seq(Others(k))
                 /\ Requests(conn[k]) # << >> =>
                       Head(Requests(conn[k])).cmd \notin FirstCommands
<1>1. PICK c \in Conns : c = conn[k]
  BY WhoIsThere DEF Takes
<1>2. /\ TypeOK /\ ClientOK(k) /\ c # NoConn /\ down[c] # << >> /\ f = Head(down[c])
      /\ down[c] \in Seq(ToClient(k))
      /\ AtMostOne(down[c], ReplyCommands)
      /\ Requests(c) # << >> /\ Head(Requests(c)).cmd \in FirstCommands =>
            down[c] \in Seq(Others(k))
  BY <1>1 DEF Inv, ConnOK, Takes
<1>3. f \in ToClient(k)
  BY <1>2, HeadTailProperties
<1>4. data[k] # NoData /\ data[k] \in Datas /\ draws[k] # 0
  BY <1>1, <1>2 DEF ClientOK, TypeOK
<1>5. f \in Frames
  BY <1>3 DEF ToClient, Replies, Others, PostsTo, Posts, Asks, Answers
<1>6. /\ f.cmd \in {"ROOM.MESSAGE", "ROOM.MESSAGE.KEY.ROTATE"} => f \in PostsTo(k)
      /\ f.cmd = "ROOM.INVITE.VERIFICATION_REQUEST" =>
            f \in Asks /\ f.key = k /\ owner[f.room] = k
      /\ f.cmd = "ROOM.INVITE.VERIFICATION_RESPONSE" =>
            f \in Answers /\ f.key = k /\ k \in users[f.room]
  BY <1>3 DEF ToClient, Replies, Others, PostsTo, Posts, Asks, Answers
<1>7. ASSUME f.cmd \in ReplyCommands
      PROVE  /\ f \in Replies(k)
             /\ Tail(down[c]) \in Seq(Others(k))
             /\ Requests(c) # << >> => Head(Requests(c)).cmd \notin FirstCommands
  <2>1. f \notin Others(k)
    BY <1>7, OthersAreNoReplies
  <2>2. \A g \in ToClient(k) : g.cmd \notin ReplyCommands => g \in Others(k)
    BY DEF ToClient, Replies, ReplyCommands
  <2>3. Tail(down[c]) \in Seq(Others(k))
    BY <1>2, <1>7, <2>2, TailAtMostOne
  <2>4. ~ (down[c] \in Seq(Others(k)))
    BY <1>2, <2>1, HeadTailProperties
  <2> QED
    BY <1>2, <1>3, <2>1, <2>3, <2>4 DEF ToClient
<1> QED
  BY <1>1, <1>4, <1>5, <1>6, <1>7

LEMMA TakingIsTalking ==
    ASSUME Inv, NEW k \in Keys, NEW f, Takes(k, f), TakeDown(k), UNCHANGED link,
           up' = up \/ \E g \in Later' : Submit(conn[k], g)
    PROVE  IF conn[k] = NoConn THEN UNCHANGED wireVars ELSE Talks(conn[k])
  BY DEF Takes, TakeDown, Submit, Talks

LEMMA ReceivesIsAway ==
    ASSUME Inv, NEW k \in Keys, NEW f, NEW cmd, Receives(k, f, cmd)
    PROVE  /\ Away /\ Grows /\ UNCHANGED <<link, draws, issued, said>>
           /\ draws' \in [Keys -> Nat]
           /\ issued' \in [Invites -> [room : Rooms, owner : Keys] \cup {NoInvite}]
<1>1. Away /\ UNCHANGED <<link, draws, issued, said>>
  BY DEF Receives, usageVars, Away
<1> QED
  BY <1>1, AwayGrows DEF Inv, ServerTypes

LEMMA DeclinedKeepsInv ==
    ASSUME Inv, NEW k \in Keys, NEW f, Takes(k, f), OnDeclined(k, f)
    PROVE  Inv'
<1>1. /\ TypeOK /\ ClientOK(k) /\ Receives(k, f, "ROOM.INVITE.DECLINED") /\ TakeDown(k)
      /\ UNCHANGED <<up, stage, conn, data, cipher, saved>>
  BY DEF Inv, OnDeclined
<1>2. /\ Away /\ Grows /\ UNCHANGED <<link, draws, issued, said>>
      /\ draws' \in [Keys -> Nat]
      /\ issued' \in [Invites -> [room : Rooms, owner : Keys] \cup {NoInvite}]
  BY <1>1, ReceivesIsAway
<1>3. (\A l \in Keys : SameClient(l)) /\ TypeOK'
  BY <1>1, <1>2 DEF SameClient, TypeOK
<1>4. ClientOK(k)'
  BY <1>1, <1>2, <1>3, ClientStays
<1>5. IF conn[k] = NoConn THEN UNCHANGED wireVars ELSE Talks(conn[k])
  BY <1>1, <1>2, TakingIsTalking
<1> QED
  BY <1>1, <1>2, <1>3, <1>4, <1>5, TalkKeepsInv DEF Keyed

LEMMA NotExistKeepsInv ==
    ASSUME Inv, NEW k \in Keys, NEW f, Takes(k, f), OnRoomNotExist(k, f)
    PROVE  Inv'
<1>1. /\ TypeOK /\ ClientOK(k) /\ Receives(k, f, "ROOM.NOT_EXIST") /\ TakeDown(k)
      /\ saved' = [saved EXCEPT ![k] = NoData]
      /\ UNCHANGED <<up, stage, conn, data, cipher>>
  BY DEF Inv, OnRoomNotExist
<1>2. /\ Away /\ Grows /\ UNCHANGED <<link, draws, issued, said>>
      /\ draws' \in [Keys -> Nat]
      /\ issued' \in [Invites -> [room : Rooms, owner : Keys] \cup {NoInvite}]
  BY <1>1, ReceivesIsAway
<1>3. data[k] \in Datas /\ data[k] # NoData /\ draws[k] # 0
  BY FrameIsKnown
<1>4. TypeOK' /\ (\A l \in Keys : l # k => SameClient(l)) /\ saved'[k] = NoData
  BY <1>1, <1>2 DEF SameClient, TypeOK
<1>5. PICK d \in Datas : d = data[k] /\ d = data'[k]
  BY <1>1, <1>3
<1>6. Keyed(k)' <=> Keyed(k)
  BY <1>1 DEF Keyed
<1>7. /\ Keyed(k) => cipher'[k] = d.roomKey /\ d.roomKey.by = d.owner
      /\ stage[k] = "waiting" => d.invites = {}
  BY <1>1, <1>3, <1>5 DEF ClientOK, RoomOK
<1>8. ClientOK(k)'
  BY <1>1, <1>2, <1>3, <1>4, <1>5, <1>6, <1>7, ClientKeeps
<1>9. IF conn[k] = NoConn THEN UNCHANGED wireVars ELSE Talks(conn[k])
  BY <1>1, <1>2, TakingIsTalking
<1> QED
  BY <1>1, <1>2, <1>4, <1>6, <1>8, <1>9, TalkKeepsInv

(* The owner's answer is one: it goes out under the asker's own key and    *)
(* holds the owner's, with the invitation's token only if it is this one.  *)
LEMMA RequestKeepsInv ==
    ASSUME Inv, NEW k \in Keys, NEW f, Takes(k, f), OnVerificationRequest(k, f)
    PROVE  Inv'
<1> DEFINE i == f.body.token
           token == IF i \in data[k].invites THEN i ELSE NoInvite
           answer == InviteResponse(f.from, f.room, f.key,
                                    Seal(f.body.content, token, data[k].roomKey))
<1>1. /\ TypeOK /\ ClientOK(k) /\ Receives(k, f, "ROOM.INVITE.VERIFICATION_REQUEST")
      /\ TakeDown(k) /\ UNCHANGED <<stage, conn, cipher, saved>>
      /\ IF f.key = k /\ f.room = data[k].name
         THEN /\ Submit(conn[k], answer)
              /\ data' = [data EXCEPT ![k].invites = @ \ {i}]
         ELSE UNCHANGED <<up, data>>
  BY DEF Inv, OnVerificationRequest
<1>2. /\ Away /\ Grows /\ UNCHANGED <<link, draws, issued, said>>
      /\ draws' \in [Keys -> Nat]
      /\ issued' \in [Invites -> [room : Rooms, owner : Keys] \cup {NoInvite}]
  BY <1>1, ReceivesIsAway
<1>3. /\ data[k] \in Datas /\ data[k] # NoData /\ draws[k] # 0
      /\ f \in Asks /\ f.key = k /\ owner[f.room] = k
  BY <1>1, FrameIsKnown DEF Receives
<1>4. PICK old \in Datas : old = data[k]
  BY <1>3
<1>5. PICK d : d = IF f.room = old.name THEN [old EXCEPT !.invites = @ \ {i}] ELSE old
  OBVIOUS
<1>6. /\ d \in Datas /\ d.name = old.name /\ d.owner = old.owner /\ d.invite = old.invite
      /\ d.messageCount = old.messageCount /\ d.roomKey = old.roomKey
      /\ d.invites \subseteq old.invites
  BY <1>4, <1>5 DEF Datas
<1>7. /\ data' \in [Keys -> Datas \cup {NoData}] /\ data'[k] = d
      /\ \A l \in Keys : l # k => data'[l] = data[l]
  BY <1>1, <1>3, <1>4, <1>5, <1>6 DEF TypeOK
<1>8. TypeOK' /\ (\A l \in Keys : l # k => SameClient(l))
  BY <1>1, <1>2, <1>7 DEF SameClient, TypeOK
<1>9. Keyed(k)' <=> Keyed(k)
  BY <1>1 DEF Keyed
<1>10. /\ Keyed(k) => cipher'[k] = d.roomKey /\ d.roomKey.by = d.owner
       /\ stage[k] = "waiting" => d.invites = {}
  BY <1>1, <1>3, <1>4, <1>6 DEF ClientOK, RoomOK
<1>11. ClientOK(k)'
  BY <1>1, <1>2, <1>3, <1>4, <1>6, <1>7, <1>8, <1>9, <1>10, ClientKeeps DEF TypeOK
<1>12. up' = up \/ \E g \in Later' : Submit(conn[k], g)
  <2>1. CASE f.room = data[k].name
    <3>1. k \in Creators
      BY <1>3, NullsOK DEF Inv, ServerTypes, Asks
    <3>2. /\ Keyed(k) /\ old.owner = k /\ old.roomKey \in RoomKeys /\ old.roomKey.by = k
      BY <1>1, <1>3, <1>4, <3>1 DEF ClientOK, OriginOK, RoomOK, Datas
    <3>3. /\ f.body.content \in RoomKeys /\ f.body.content.by \notin Creators
          /\ f.from \in Keys /\ f.room \in Rooms
          /\ i \in Invites /\ token \in Invites \cup {NoInvite}
          /\ token # NoInvite => issued'[token] = Invitation(f.room, k)
      BY <1>1, <1>2, <1>3, <1>4, <2>1 DEF Asks, ClientOK
    <3>4. PICK body : body = Seal(f.body.content, token, data[k].roomKey)
      OBVIOUS
    <3>5. /\ body \in Seals /\ body.seal = f.body.content /\ body.token = token
          /\ body.content = old.roomKey
      BY <1>4, <3>2, <3>3, <3>4 DEF Seals, Seal
    <3> HIDE DEF token, i
    <3>6. /\ answer.cmd = "ROOM.INVITE.VERIFICATION_RESPONSE" /\ answer.key = f.from
          /\ answer.room = f.room /\ answer.from = k /\ answer.body = body
          /\ answer \in Frames
      BY <1>3, <3>3, <3>4, <3>5 DEF InviteResponse, Frame, Frames, Commands
    <3>7. owner' = owner
      BY <1>2 DEF Away, serverVars
    <3> HIDE DEF answer
    <3>8. answer \in Answers'
      BY <1>3, <3>1, <3>2, <3>3, <3>5, <3>6, <3>7 DEF Answers
    <3> QED
      BY <1>1, <1>3, <2>1, <3>8 DEF Later
  <2>2. CASE f.room # data[k].name
    BY <1>1, <2>2
  <2> QED
    BY <2>1, <2>2
<1>13. IF conn[k] = NoConn THEN UNCHANGED wireVars ELSE Talks(conn[k])
  BY <1>1, <1>2, <1>12, TakingIsTalking
<1>14. data'[k].name = data[k].name
  BY <1>4, <1>6, <1>7
<1> QED
  BY <1>1, <1>2, <1>8, <1>9, <1>11, <1>13, <1>14, TalkKeepsInv

(* A post this client can read was sealed by the owner of its room.        *)
LEMMA ReadableIsOwners ==
    ASSUME Inv, NEW k \in Keys, NEW f, Takes(k, f),
           f.cmd \in {"ROOM.MESSAGE", "ROOM.MESSAGE.KEY.ROTATE"}, Readable(k, f)
    PROVE  /\ f \in Posts /\ data[k].name \in Rooms /\ Keyed(k)
           /\ cipher[k] \in RoomKeys /\ cipher[k].by = data[k].owner
           /\ f.body.seal = cipher[k] /\ cipher[k] = data[k].roomKey
<1>1. f \in Posts /\ ClientOK(k) /\ data[k] # NoData
  BY FrameIsKnown DEF Inv, PostsTo
<1>2. f.room \in Rooms /\ f.body.seal \in RoomKeys /\ f.room = data[k].name /\ f.body.seal = cipher[k]
  BY <1>1 DEF Posts, Readable
<1> QED
  BY <1>1, <1>2, NullsOK DEF ClientOK, Keyed, RoomOK

LEMMA KeyRotateKeepsInv ==
    ASSUME Inv, NEW k \in Keys, NEW f, Takes(k, f), OnKeyRotate(k, f)
    PROVE  Inv'
<1>1. /\ TypeOK /\ ClientOK(k) /\ Receives(k, f, "ROOM.MESSAGE.KEY.ROTATE")
      /\ TakeDown(k) /\ UNCHANGED <<up, stage, conn, saved>>
      /\ IF Readable(k, f)
         THEN /\ data' = [data EXCEPT ![k].roomKey = f.body.content]
              /\ cipher' = [cipher EXCEPT ![k] = f.body.content]
         ELSE UNCHANGED <<data, cipher>>
      /\ f.cmd = "ROOM.MESSAGE.KEY.ROTATE"
  BY DEF Inv, OnKeyRotate, Receives
<1>2. /\ Away /\ Grows /\ UNCHANGED <<link, draws, issued, said>>
      /\ draws' \in [Keys -> Nat]
      /\ issued' \in [Invites -> [room : Rooms, owner : Keys] \cup {NoInvite}]
  BY <1>1, ReceivesIsAway
<1>3. IF conn[k] = NoConn THEN UNCHANGED wireVars ELSE Talks(conn[k])
  BY <1>1, <1>2, TakingIsTalking
<1>4. CASE ~Readable(k, f)
  <2>1. (\A l \in Keys : SameClient(l)) /\ TypeOK'
    BY <1>1, <1>2, <1>4 DEF SameClient, TypeOK
  <2>2. ClientOK(k)'
    BY <1>1, <1>2, <2>1, ClientStays
  <2> QED
    BY <1>1, <1>2, <1>3, <1>4, <2>1, <2>2, TalkKeepsInv DEF Keyed
<1>5. CASE Readable(k, f)
  <2>1. /\ f \in Posts /\ data[k].name \in Rooms /\ Keyed(k)
        /\ cipher[k] \in RoomKeys /\ cipher[k].by = data[k].owner
        /\ f.body.seal = cipher[k] /\ cipher[k] = data[k].roomKey
    BY <1>1, <1>5, ReadableIsOwners
  <2>2. PICK key \in RoomKeys : key = f.body.content /\ key.by = data[k].owner
    BY <1>1, <2>1 DEF Posts
  <2>3. data[k] \in Datas /\ data[k] # NoData /\ draws[k] # 0
    BY FrameIsKnown
  <2>4. PICK old \in Datas : old = data[k]
    BY <2>3
  <2>5. PICK d : d = [old EXCEPT !.roomKey = key]
    OBVIOUS
  <2>6. /\ d \in Datas /\ d.name = old.name /\ d.owner = old.owner /\ d.invite = old.invite
        /\ d.messageCount = old.messageCount /\ d.roomKey = key /\ d.invites = old.invites
    BY <2>2, <2>4, <2>5 DEF Datas
  <2>7. /\ data' \in [Keys -> Datas \cup {NoData}] /\ data'[k] = d /\ cipher'[k] = key
        /\ \A l \in Keys : l # k => data'[l] = data[l] /\ cipher'[l] = cipher[l]
        /\ cipher' \in [Keys -> RoomKeys \cup {NoCipher}]
    BY <1>1, <1>5, <2>2, <2>3, <2>4, <2>5, <2>6 DEF TypeOK
  <2>8. TypeOK' /\ (\A l \in Keys : l # k => SameClient(l))
    BY <1>1, <1>2, <2>7 DEF SameClient, TypeOK
  <2>9. Keyed(k)'
    BY <2>2, <2>7, NullsOK DEF Keyed
  <2>10. stage[k] = "waiting" => d.invites = {}
    BY <1>1, <2>3, <2>4, <2>6 DEF ClientOK
  <2>11. ClientOK(k)'
    BY <1>1, <1>2, <2>1, <2>2, <2>3, <2>4, <2>6, <2>7, <2>8, <2>9, <2>10, ClientKeeps
  <2>12. data'[k].name = data[k].name
    BY <2>4, <2>6, <2>7
  <2> QED
    BY <1>1, <1>2, <1>3, <2>8, <2>9, <2>11, <2>12, TalkKeepsInv
<1> QED
  BY <1>4, <1>5

LEMMA MessageKeepsInv ==
    ASSUME Inv, NEW k \in Keys, NEW f, Takes(k, f), OnMessage(k, f)
    PROVE  Inv'
<1>1. /\ TypeOK /\ ClientOK(k) /\ ServerTypes /\ f.cmd = "ROOM.MESSAGE"
      /\ TakeDown(k) /\ UNCHANGED <<link, serverVars, stage, conn, saved, usageVars>>
      /\ IF ~Readable(k, f) THEN UNCHANGED <<up, data, cipher, draws>>
         ELSE IF RotationDue(k) THEN RotateKey(k)
         ELSE CountMessage(k)
  BY DEF Inv, OnMessage
<1>2. Away /\ Grows /\ UNCHANGED <<link, issued, said>>
  BY <1>1, AwayGrows DEF Away, usageVars
<1>3. issued' \in [Invites -> [room : Rooms, owner : Keys] \cup {NoInvite}]
  BY <1>1, <1>2 DEF ServerTypes
<1>4. data[k] \in Datas /\ data[k] # NoData /\ draws[k] # 0
  BY FrameIsKnown
<1>5. PICK old \in Datas : old = data[k]
  BY <1>4
<1>6. CASE ~Readable(k, f)
  <2>1. (\A l \in Keys : SameClient(l)) /\ TypeOK' /\ draws' \in [Keys -> Nat]
    BY <1>1, <1>2, <1>6 DEF SameClient, TypeOK, ServerTypes
  <2>2. ClientOK(k)'
    BY <1>1, <1>2, <2>1, ClientStays
  <2>3. IF conn[k] = NoConn THEN UNCHANGED wireVars ELSE Talks(conn[k])
    BY <1>1, <1>2, <1>6, TakingIsTalking
  <2> QED
    BY <1>1, <1>2, <1>3, <1>6, <2>1, <2>2, <2>3, TalkKeepsInv DEF Keyed
<1>7. CASE Readable(k, f) /\ RotationDue(k)
  <2>1. /\ f \in Posts /\ old.name \in Rooms /\ Keyed(k)
        /\ cipher[k] \in RoomKeys /\ cipher[k].by = old.owner
    BY <1>1, <1>5, <1>7, ReadableIsOwners
  <2>2. k \in Creators /\ old.owner = k
    BY <1>1, <1>4, <1>5, <1>7 DEF ClientOK, OriginOK, RotationDue
  <2>3. PICK key : key = RoomKey(k, draws[k] + 1)
    OBVIOUS
  <2>4. /\ draws' = [draws EXCEPT ![k] = @ + 1]
        /\ Submit(conn[k], MessageKeyRotate(old.name, Seal(cipher[k], NoInvite, key)))
        /\ data' = [data EXCEPT ![k].roomKey = key, ![k].messageCount = 0]
        /\ cipher' = [cipher EXCEPT ![k] = key]
    BY <1>1, <1>5, <1>7, <2>3 DEF RotateKey
  <2>5. key \in RoomKeys /\ key.by = k /\ draws[k] \in Nat
    BY <1>1, <2>3 DEF RoomKey, RoomKeys, ServerTypes
  <2>6. PICK g : g = MessageKeyRotate(old.name, Seal(cipher[k], NoInvite, key))
    OBVIOUS
  <2>7. g \in Later'
    <3>1. g \in Posts
      BY <2>1, <2>2, <2>5, <2>6
         DEF Posts, Frames, Commands, Seals, MessageKeyRotate, Frame, Seal
    <3> QED
      BY <3>1 DEF Later
  <2>8. PICK d : d = [old EXCEPT !.roomKey = key, !.messageCount = 0]
    OBVIOUS
  <2>9. /\ d \in Datas /\ d.name = old.name /\ d.owner = old.owner /\ d.invite = old.invite
        /\ d.messageCount = 0 /\ d.roomKey = key /\ d.invites = old.invites
    <3>1. 0 \in Null .. KeyRotationLimit - 1
      BY ConstantsOK DEF Null
    <3> QED
      BY <2>5, <2>8, <3>1 DEF Datas
  <2>10. /\ data' \in [Keys -> Datas \cup {NoData}] /\ data'[k] = d /\ cipher'[k] = key
         /\ \A l \in Keys : l # k => data'[l] = data[l] /\ cipher'[l] = cipher[l]
         /\ cipher' \in [Keys -> RoomKeys \cup {NoCipher}]
    BY <1>1, <1>4, <1>5, <2>4, <2>5, <2>8, <2>9 DEF TypeOK
  <2>11. /\ draws' \in [Keys -> Nat] /\ draws'[k] # 0
         /\ \A l \in Keys : l # k => draws'[l] = draws[l]
    BY <1>1, <2>4, <2>5 DEF ServerTypes
  <2>12. TypeOK' /\ (\A l \in Keys : l # k => SameClient(l))
    BY <1>1, <1>2, <2>10, <2>11 DEF SameClient, TypeOK
  <2>13. Keyed(k)'
    BY <2>5, <2>10, NullsOK DEF Keyed
  <2>14. stage[k] = "waiting" => d.invites = {}
    BY <1>1, <1>4, <1>5, <2>9 DEF ClientOK
  <2>15. data[k].messageCount # Null
    BY <1>7 DEF RotationDue
  <2>16. ClientOK(k)'
    BY <1>1, <1>2, <1>4, <1>5, <2>1, <2>2, <2>5, <2>9, <2>10, <2>11, <2>13, <2>14, <2>15,
       ClientKeeps
  <2>17. IF conn[k] = NoConn THEN UNCHANGED wireVars ELSE Talks(conn[k])
    BY <1>1, <1>2, <2>4, <2>6, <2>7, TakingIsTalking
  <2>18. data'[k].name = data[k].name
    BY <1>5, <2>9, <2>10
  <2> QED
    BY <1>1, <1>2, <1>3, <2>11, <2>12, <2>13, <2>16, <2>17, <2>18, TalkKeepsInv
<1>8. CASE Readable(k, f) /\ ~RotationDue(k)
  <2>1. UNCHANGED <<up, cipher, draws>>
    BY <1>1, <1>8 DEF CountMessage
  <2>2. PICK d : d = IF old.messageCount # Null
                     THEN [old EXCEPT !.messageCount = @ + 1] ELSE old
    OBVIOUS
  <2>3. /\ d \in Datas /\ d.name = old.name /\ d.owner = old.owner /\ d.invite = old.invite
        /\ d.roomKey = old.roomKey /\ d.invites = old.invites
        /\ old.messageCount = Null => d.messageCount = Null
    <3>1. old.messageCount # Null => old.messageCount + 1 \in Null .. KeyRotationLimit - 1
      BY <1>5, <1>8, ConstantsOK DEF RotationDue, Datas, Null
    <3> QED
      BY <2>2, <3>1 DEF Datas
  <2>4. /\ data' \in [Keys -> Datas \cup {NoData}] /\ data'[k] = d
        /\ \A l \in Keys : l # k => data'[l] = data[l]
    BY <1>1, <1>4, <1>5, <1>8, <2>2, <2>3 DEF TypeOK, CountMessage
  <2>5. TypeOK' /\ (\A l \in Keys : l # k => SameClient(l)) /\ draws' \in [Keys -> Nat]
    BY <1>1, <1>2, <2>1, <2>4 DEF SameClient, TypeOK, ServerTypes
  <2>6. Keyed(k)' <=> Keyed(k)
    BY <2>1 DEF Keyed
  <2>7. /\ Keyed(k) => cipher'[k] = d.roomKey /\ d.roomKey.by = d.owner
        /\ stage[k] = "waiting" => d.invites = {}
    BY <1>1, <1>4, <1>5, <2>1, <2>3 DEF ClientOK, RoomOK
  <2>8. ClientOK(k)'
    BY <1>1, <1>2, <1>4, <1>5, <2>1, <2>3, <2>4, <2>6, <2>7, ClientKeeps
  <2>9. IF conn[k] = NoConn THEN UNCHANGED wireVars ELSE Talks(conn[k])
    BY <1>1, <1>2, <2>1, TakingIsTalking
  <2>10. data'[k].name = data[k].name
    BY <1>5, <2>3, <2>4
  <2> QED
    BY <1>1, <1>2, <1>3, <2>5, <2>6, <2>8, <2>9, <2>10, TalkKeepsInv
<1> QED
  BY <1>6, <1>7, <1>8

(* Who goes down: a member admitted without ever having had the key.       *)
LEMMA CrashKeepsInv ==
    ASSUME Inv, NEW k \in Keys, NEW f, Takes(k, f), CrashOnFrame(k, f)
    PROVE  /\ Inv'
           /\ saved[k] = NoData /\ \E r \in Rooms : k \in users[r]
<1>1. /\ ClientOK(k) /\ ServerTypes /\ f.cmd \in {"ROOM.MESSAGE", "ROOM.MESSAGE.KEY.ROTATE"}
      /\ cipher[k] = NoCipher /\ Disconnect(conn[k], Len(up[conn[k]]))
      /\ Forget(k, "crashed") /\ UNCHANGED serverVars
      /\ conn[k] \in Conns /\ conn[k] # NoConn
  BY WhoIsThere DEF Inv, CrashOnFrame, Takes
<1>2. f \in PostsTo(k) /\ data[k] # NoData
  BY <1>1, FrameIsKnown
<1>3. saved[k] = NoData
  BY <1>1, <1>2 DEF ClientOK, Keyed
<1>4. f.room \in Rooms /\ k \in users[f.room]
  BY <1>2 DEF PostsTo, Posts
<1>5. Len(up[conn[k]]) \in 0 .. Len(up[conn[k]])
  BY <1>1, LenProperties DEF ServerTypes
<1>6. Inv'
  BY <1>1, <1>5, GoneKeepsInv
<1> QED
  BY <1>3, <1>4, <1>6

(* The client is told its room: from here on it is open.                   *)
LEMMA ConnOpens ==
    ASSUME Inv, Away, Grows, NEW k \in Keys, NEW f, Takes(k, f), TakeDown(k),
           UNCHANGED <<link, up, conn>>,
           Tail(down[conn[k]]) \in Seq(Others(k)),
           Requests(conn[k]) # << >> => Head(Requests(conn[k])).cmd \notin FirstCommands
    PROVE  ConnOK(k)'
<1>1. PICK c \in Conns : c = conn[k]
  BY WhoIsThere DEF Takes
<1>2. ServerTypes /\ down[c] # << >> /\ c # NoConn
  BY <1>1 DEF Inv, Takes
<1>3. down'[c] = Tail(down[c])
  BY <1>1, <1>2 DEF TakeDown, ServerTypes
<1>4. Talks(c)
  BY <1>1, <1>2 DEF Talks, TakeDown
<1>5. SpokenBy(c, k)' /\ link'[c] = "open"
  BY <1>1, <1>2, <1>4, Talked
<1>6. Requests(c)' = Requests(c)
  BY DEF Requests, Away, serverVars
<1>7. down'[c] \in Seq(Others(k)')
  BY <1>1, <1>3, SetsGrow, SeqGrows
<1>8. Others(k)' \subseteq ToClient(k)'
  BY DEF ToClient
<1>9. down'[c] \in Seq(ToClient(k)')
  BY <1>7, <1>8, SeqGrows
<1>10. AtMostOne(down'[c], ReplyCommands)
  BY <1>7, OthersAreNoReplies, NoneIsAtMostOne
<1> QED
  BY <1>1, <1>2, <1>5, <1>6, <1>9, <1>10 DEF ConnOK

(* Its file then holds what it knows.                                      *)
LEMMA ClientSaves ==
    ASSUME Inv, NEW k \in Keys, NEW d \in Datas, data'[k] = d, saved'[k] = d,
           draws'[k] # 0, stage'[k] = "open", d.name # NoRoom, d.invites = {},
           Keyed(k)', cipher'[k] = d.roomKey, OriginOK(k, d)', RoomOK(k, d)'
    PROVE  ClientOK(k)'
<1>1. d # NoData
  BY NullsOK
<1>2. OriginOK(k, data[k])' /\ RoomOK(k, data[k])'
  BY DEF OriginOK, RoomOK
<1>3. OriginOK(k, saved[k])' /\ RoomOK(k, saved[k])'
  BY DEF OriginOK, RoomOK
<1> QED
  BY <1>1, <1>2, <1>3 DEF ClientOK

LEMMA CreatedKeepsInv ==
    ASSUME Inv, NEW k \in Keys, NEW f, Takes(k, f), OnRoomCreated(k, f)
    PROVE  Inv'
<1>1. /\ TypeOK /\ ClientOK(k) /\ ServerTypes /\ ServerOK
      /\ Receives(k, f, "ROOM.CREATED") /\ f.cmd = "ROOM.CREATED"
      /\ TakeDown(k) /\ UNCHANGED <<up, conn, cipher>>
      /\ data' = [data EXCEPT ![k].name = f.room]
      /\ saved' = [saved EXCEPT ![k] = data'[k]]
      /\ stage' = [stage EXCEPT ![k] = "open"]
  BY DEF Inv, OnRoomCreated, Receives, Save, ShowRoom
<1>2. /\ Away /\ Grows /\ UNCHANGED <<link, draws, issued, said>>
      /\ draws' \in [Keys -> Nat]
      /\ issued' \in [Invites -> [room : Rooms, owner : Keys] \cup {NoInvite}]
  BY <1>1, ReceivesIsAway
<1>3. /\ data[k] \in Datas /\ data[k] # NoData /\ draws[k] # 0
      /\ f \in Replies(k)
      /\ Tail(down[conn[k]]) \in Seq(Others(k))
      /\ Requests(conn[k]) # << >> => Head(Requests(conn[k])).cmd \notin FirstCommands
  BY <1>1, FrameIsKnown DEF ReplyCommands
<1>4. /\ f.room \in Rooms /\ owner[f.room] = k /\ k \in users[f.room] /\ data[k].name = NoRoom
  BY <1>1, <1>3 DEF Replies, Creating
<1>5. PICK old \in Datas : old = data[k]
  BY <1>3
<1>6. PICK d : d = [old EXCEPT !.name = f.room]
  OBVIOUS
<1>7. /\ d \in Datas /\ d.name = f.room /\ d.owner = old.owner /\ d.invite = old.invite
      /\ d.messageCount = old.messageCount /\ d.roomKey = old.roomKey
      /\ d.invites = old.invites
  BY <1>4, <1>5, <1>6 DEF Datas
<1>8. /\ data' \in [Keys -> Datas \cup {NoData}] /\ data'[k] = d
      /\ saved' \in [Keys -> Datas \cup {NoData}] /\ saved'[k] = d
      /\ stage'[k] = "open"
      /\ \A l \in Keys : l # k => data'[l] = data[l] /\ saved'[l] = saved[l]
  BY <1>1, <1>3, <1>5, <1>6, <1>7 DEF TypeOK
<1>9. TypeOK' /\ (\A l \in Keys : l # k => SameClient(l))
  BY <1>1, <1>2, <1>8 DEF SameClient, TypeOK
<1>10. /\ stage[k] = "waiting" /\ old.invites = {} /\ k \in Creators
       /\ old.owner = k /\ old.invite = NoInvite
       /\ Keyed(k) /\ cipher[k] = old.roomKey /\ old.roomKey.by = old.owner
       /\ d.name # NoRoom
  BY <1>1, <1>3, <1>4, <1>5, <1>7, NullsOK DEF ClientOK, OriginOK, RoomOK
<1>11. Keyed(k)' /\ cipher'[k] = d.roomKey
  BY <1>1, <1>7, <1>10 DEF Keyed
<1>12. /\ d.name \in taken' /\ owner'[d.name] = d.owner /\ k \in users'[d.name]
  BY <1>1, <1>2, <1>4, <1>5, <1>7, <1>10, NullsOK DEF Away, serverVars, ServerOK, Exists
<1>13. OriginOK(k, d)' /\ RoomOK(k, d)'
  BY <1>7, <1>10, <1>12 DEF OriginOK, RoomOK
<1>14. ClientOK(k)'
  BY <1>2, <1>3, <1>7, <1>8, <1>10, <1>11, <1>13, ClientSaves
<1>15. ConnOK(k)'
  BY <1>1, <1>2, <1>3, ConnOpens
<1>16. IF conn[k] = NoConn THEN UNCHANGED wireVars ELSE Talks(conn[k])
  BY <1>1, <1>2, TakingIsTalking
<1> QED
  BY <1>1, <1>2, <1>9, <1>14, <1>15, <1>16, TalkStep

LEMMA OpenedKeepsInv ==
    ASSUME Inv, NEW k \in Keys, NEW f, Takes(k, f), OnRoomOpened(k, f)
    PROVE  Inv'
<1>1. /\ TypeOK /\ ClientOK(k)
      /\ Receives(k, f, "ROOM.OPENED") /\ f.cmd = "ROOM.OPENED"
      /\ TakeDown(k) /\ UNCHANGED <<up, conn, cipher, data>>
      /\ saved' = [saved EXCEPT ![k] = data'[k]]
      /\ stage' = [stage EXCEPT ![k] = "open"]
  BY DEF Inv, OnRoomOpened, Receives, Save, ShowRoom
<1>2. /\ Away /\ Grows /\ UNCHANGED <<link, draws, issued, said>>
      /\ draws' \in [Keys -> Nat]
      /\ issued' \in [Invites -> [room : Rooms, owner : Keys] \cup {NoInvite}]
  BY <1>1, ReceivesIsAway
<1>3. /\ data[k] \in Datas /\ data[k] # NoData /\ draws[k] # 0
      /\ f \in Replies(k)
      /\ Tail(down[conn[k]]) \in Seq(Others(k))
      /\ Requests(conn[k]) # << >> => Head(Requests(conn[k])).cmd \notin FirstCommands
  BY <1>1, FrameIsKnown DEF ReplyCommands
<1>4. Reopening(k)
  BY <1>1, <1>3 DEF Replies
<1>5. PICK d \in Datas : d = data[k]
  BY <1>3
<1>6. /\ data'[k] = d
      /\ saved' \in [Keys -> Datas \cup {NoData}] /\ saved'[k] = d
      /\ stage'[k] = "open"
      /\ \A l \in Keys : l # k => saved'[l] = saved[l]
  BY <1>1, <1>5 DEF TypeOK
<1>7. TypeOK' /\ (\A l \in Keys : l # k => SameClient(l))
  BY <1>1, <1>2, <1>6 DEF SameClient, TypeOK
<1>8. /\ d.name # NoRoom /\ d.invites = {} /\ Keyed(k) /\ cipher[k] = d.roomKey
      /\ OriginOK(k, d) /\ RoomOK(k, d)
  BY <1>1, <1>3, <1>4, <1>5 DEF ClientOK, Reopening
<1>9. OriginOK(k, d)' /\ RoomOK(k, d)'
  BY <1>2, <1>8, OriginStays, RoomStays DEF Datas
<1>10. Keyed(k)' /\ cipher'[k] = d.roomKey
  BY <1>1, <1>8 DEF Keyed
<1>11. ClientOK(k)'
  BY <1>2, <1>3, <1>6, <1>8, <1>9, <1>10, ClientSaves
<1>12. ConnOK(k)'
  BY <1>1, <1>2, <1>3, ConnOpens
<1>13. IF conn[k] = NoConn THEN UNCHANGED wireVars ELSE Talks(conn[k])
  BY <1>1, <1>2, TakingIsTalking
<1> QED
  BY <1>1, <1>2, <1>7, <1>11, <1>12, <1>13, TalkStep

(* The answer that opens is the first a joiner without a key gets with its *)
(* own invitation's token; what it brings is the owner's key.              *)
Opens(k, f) == f.body.seal = data[k].roomKey /\ f.body.token = data[k].invite

LEMMA OpeningAnswer ==
    ASSUME Inv, NEW k \in Keys, NEW f, Takes(k, f),
           f.cmd = "ROOM.INVITE.VERIFICATION_RESPONSE", Opens(k, f)
    PROVE  /\ ~Keyed(k) /\ k \notin Creators /\ saved[k] = NoData /\ stage[k] = "waiting"
           /\ data[k].name # NoRoom
           /\ f \in Answers /\ f.key = k /\ k \in users[f.room]
           /\ f.room = data[k].name /\ f.from = data[k].owner
           /\ f.body.token = data[k].invite /\ data[k].invite \in Invites
<1>1. /\ ClientOK(k) /\ data[k] \in Datas /\ data[k] # NoData
      /\ f \in Answers /\ f.key = k /\ k \in users[f.room]
  BY FrameIsKnown DEF Inv
<1>2. /\ f.body.seal.by \notin Creators /\ f.body.seal = data[k].roomKey
      /\ f.room \in Rooms /\ f.from \in Creators
      /\ f.body.token = data[k].invite
  BY <1>1 DEF Answers, Opens
<1>3. ~Keyed(k)
  BY <1>1, <1>2 DEF ClientOK, RoomOK
<1>4. /\ k \notin Creators /\ saved[k] = NoData /\ stage[k] = "waiting" /\ data[k].name # NoRoom
      /\ data[k].invite \in Invites
      /\ issued[data[k].invite] = Invitation(data[k].name, data[k].owner)
  BY <1>1, <1>3 DEF ClientOK, OriginOK
<1>5. issued[data[k].invite] = Invitation(f.room, f.from)
  BY <1>1, <1>2, <1>4, NullsOK DEF Answers
<1>6. f.room = data[k].name /\ f.from = data[k].owner
  BY <1>4, <1>5 DEF Invitation
<1> QED
  BY <1>1, <1>2, <1>3, <1>4, <1>6

LEMMA ResponseKeepsInv ==
    ASSUME Inv, NEW k \in Keys, NEW f, Takes(k, f), OnVerificationResponse(k, f)
    PROVE  Inv'
<1>1. /\ TypeOK /\ ClientOK(k) /\ ServerTypes /\ ServerOK
      /\ Receives(k, f, "ROOM.INVITE.VERIFICATION_RESPONSE")
      /\ f.cmd = "ROOM.INVITE.VERIFICATION_RESPONSE"
      /\ TakeDown(k) /\ UNCHANGED <<up, conn>>
      /\ IF Opens(k, f)
         THEN /\ data' = [data EXCEPT ![k].roomKey = f.body.content]
              /\ cipher' = [cipher EXCEPT ![k] = f.body.content]
              /\ saved' = [saved EXCEPT ![k] = data'[k]]
              /\ stage' = [stage EXCEPT ![k] = "open"]
         ELSE UNCHANGED <<data, cipher, saved, stage>>
  BY DEF Inv, OnVerificationResponse, Receives, Save, ShowRoom, Opens
<1>2. /\ Away /\ Grows /\ UNCHANGED <<link, draws, issued, said>>
      /\ draws' \in [Keys -> Nat]
      /\ issued' \in [Invites -> [room : Rooms, owner : Keys] \cup {NoInvite}]
  BY <1>1, ReceivesIsAway
<1>3. IF conn[k] = NoConn THEN UNCHANGED wireVars ELSE Talks(conn[k])
  BY <1>1, <1>2, TakingIsTalking
<1>4. CASE ~Opens(k, f)
  <2>1. (\A l \in Keys : SameClient(l)) /\ TypeOK'
    BY <1>1, <1>2, <1>4 DEF SameClient, TypeOK
  <2>2. ClientOK(k)'
    BY <1>1, <1>2, <2>1, ClientStays
  <2> QED
    BY <1>1, <1>2, <1>3, <1>4, <2>1, <2>2, TalkKeepsInv DEF Keyed
<1>5. CASE Opens(k, f)
  <2>1. /\ ~Keyed(k) /\ k \notin Creators /\ saved[k] = NoData /\ stage[k] = "waiting"
        /\ data[k].name # NoRoom
        /\ f \in Answers /\ f.key = k /\ k \in users[f.room]
        /\ f.room = data[k].name /\ f.from = data[k].owner
    BY <1>1, <1>5, OpeningAnswer
  <2>2. data[k] \in Datas /\ data[k] # NoData /\ draws[k] # 0
    BY FrameIsKnown
  <2>3. PICK old \in Datas : old = data[k]
    BY <2>2
  <2>4. PICK key \in RoomKeys : key = f.body.content /\ key.by = old.owner
    BY <2>1, <2>3 DEF Answers
  <2>5. PICK d : d = [old EXCEPT !.roomKey = key]
    OBVIOUS
  <2>6. /\ d \in Datas /\ d.name = old.name /\ d.owner = old.owner /\ d.invite = old.invite
        /\ d.messageCount = old.messageCount /\ d.roomKey = key /\ d.invites = old.invites
    BY <2>4, <2>5 DEF Datas
  <2>7. /\ data' \in [Keys -> Datas \cup {NoData}] /\ data'[k] = d
        /\ saved' \in [Keys -> Datas \cup {NoData}] /\ saved'[k] = d
        /\ cipher' \in [Keys -> RoomKeys \cup {NoCipher}] /\ cipher'[k] = key
        /\ stage'[k] = "open"
        /\ \A l \in Keys : l # k =>
              data'[l] = data[l] /\ saved'[l] = saved[l] /\ cipher'[l] = cipher[l]
    BY <1>1, <1>5, <2>2, <2>3, <2>4, <2>5, <2>6 DEF TypeOK
  <2>8. TypeOK' /\ (\A l \in Keys : l # k => SameClient(l))
    BY <1>1, <1>2, <1>5, <2>7 DEF SameClient, TypeOK
  <2>9. OriginOK(k, old) /\ old.invites = {}
    BY <1>1, <2>1, <2>2, <2>3 DEF ClientOK
  <2>10. OriginOK(k, d)'
    <3>1. OriginOK(k, old)'
      BY <1>2, <2>9, OriginStays
    <3> QED
      BY <2>6, <3>1 DEF OriginOK
  <2>11. RoomOK(k, d)'
    <3>1. /\ d.name = f.room /\ d.owner = f.from /\ d.roomKey.by = d.owner
          /\ f.room \in Rooms /\ f.from \in Creators /\ owner[f.room] = f.from
      BY <2>1, <2>3, <2>4, <2>6 DEF Answers
    <3>2. f.room \in taken
      BY <1>1, <3>1, ConstantsOK, NullsOK DEF ServerOK, Exists
    <3>3. owner' = owner /\ users' = users /\ taken' = taken
      BY <1>2 DEF Away, serverVars
    <3> QED
      BY <2>1, <3>1, <3>2, <3>3 DEF RoomOK
  <2>12. Keyed(k)'
    BY <2>4, <2>7, NullsOK DEF Keyed
  <2>13. ClientOK(k)'
    BY <1>2, <2>1, <2>2, <2>3, <2>6, <2>7, <2>9, <2>10, <2>11, <2>12, ClientSaves
  <2>14. ConnOK(k)'
    <3>1. PICK c \in Conns : c = conn[k] /\ c # NoConn /\ down[c] # << >>
      BY WhoIsThere DEF Takes
    <3>2. down[c] \in Seq(ToClient(k))
      BY <3>1 DEF Inv, ConnOK
    <3>3. ToClient(k) = Others(k)
      BY <2>1 DEF ToClient, Replies, Creating, Reopening
    <3>4. Tail(down[c]) \in Seq(Others(k))
      BY <3>1, <3>2, <3>3, HeadTailProperties
    <3>5. Talks(c)
      BY <1>3, <3>1
    <3>6. SpokenBy(c, k)' /\ link'[c] = "open" /\ Requests(c)' = Requests(c)
      BY <1>1, <1>2, <3>1, <3>5, Talked DEF Requests, Away, serverVars
    <3>7. down'[c] = Tail(down[c])
      BY <1>1, <3>1 DEF TakeDown, ServerTypes
    <3>8. down'[c] \in Seq(Others(k)')
      BY <1>2, <3>4, <3>7, SetsGrow, SeqGrows
    <3>9. Others(k)' \subseteq ToClient(k)'
      BY DEF ToClient
    <3>10. down'[c] \in Seq(ToClient(k)')
      BY <3>8, <3>9, SeqGrows
    <3>11. AtMostOne(down'[c], ReplyCommands)
      BY <3>8, OthersAreNoReplies, NoneIsAtMostOne
    <3>12. PICK r : r = Head(Requests(c))
      OBVIOUS
    <3>13. Requests(c) # << >> /\ r.cmd \in FirstCommands => FirstIs(k, r)
      BY <3>1, <3>12 DEF Inv, ConnOK
    <3>14. FirstIs(k, r) => FirstIs(k, r)'
      BY <2>1 DEF FirstIs, Creating, Reopening
    <3>15. Head(Requests(c))' = r
      BY <3>6, <3>12
    <3>16. /\ SpokenBy(conn[k], k)' /\ conn'[k] = c
           /\ Requests(c)' # << >> /\ Head(Requests(c))'.cmd \in FirstCommands =>
                 FirstIs(k, Head(Requests(c)))'
      BY <1>1, <3>1, <3>6, <3>13, <3>14, <3>15 DEF FirstIs
    <3> QED
      BY <3>6, <3>8, <3>10, <3>11, <3>16 DEF ConnOK
  <2> QED
    BY <1>1, <1>2, <1>3, <2>8, <2>13, <2>14, TalkStep
<1> QED
  BY <1>4, <1>5

LEMMA ReceiveKeepsInv ==
    ASSUME Inv, NEW k \in Keys, OnReceive(k)
    PROVE  Inv'
<1>1. PICK f : f = Head(down[conn[k]])
  OBVIOUS
<1>2. Takes(k, f)
  BY <1>1 DEF OnReceive, Takes
<1>3. CASE OnRoomCreated(k, f)
  BY <1>2, <1>3, CreatedKeepsInv
<1>4. CASE OnRoomOpened(k, f)
  BY <1>2, <1>4, OpenedKeepsInv
<1>5. CASE OnRoomNotExist(k, f)
  BY <1>2, <1>5, NotExistKeepsInv
<1>6. CASE OnVerificationRequest(k, f)
  BY <1>2, <1>6, RequestKeepsInv
<1>7. CASE OnVerificationResponse(k, f)
  BY <1>2, <1>7, ResponseKeepsInv
<1>8. CASE CrashOnFrame(k, f)
  BY <1>2, <1>8, CrashKeepsInv
<1>9. CASE OnMessage(k, f)
  BY <1>2, <1>9, MessageKeepsInv
<1>10. CASE OnKeyRotate(k, f)
  BY <1>2, <1>10, KeyRotateKeepsInv
<1>11. CASE OnDeclined(k, f)
  BY <1>2, <1>11, DeclinedKeepsInv
<1> QED
  BY <1>1, <1>3, <1>4, <1>5, <1>6, <1>7, <1>8, <1>9, <1>10, <1>11 DEF OnReceive

-----------------------------------------------------------------------------
(* The invariant, from the start and through every step.                   *)

LEMMA RestartKeepsInv ==
    ASSUME Inv, RestartServer
    PROVE  Inv'
<1>1. /\ TypeOK /\ ServerTypes /\ ServerOK /\ (\A k \in Keys : ClientOK(k))
      /\ restarts' = restarts + 1 /\ restarts' # 0
      /\ conn' = [k \in Keys |-> NoConn]
      /\ UNCHANGED <<stage, data, cipher, saved, draws, issued, said, opens, taken>>
      /\ link' = [c \in Conns |-> "free"]
      /\ up' = [c \in Conns |-> << >>]
      /\ down' = [c \in Conns |-> << >>]
      /\ owner' = [r \in Rooms |-> NoKey]
      /\ users' = [r \in Rooms |-> {}]
      /\ online' = [k \in Keys |-> NoConn]
      /\ history' = [k \in Keys |-> << >>]
      /\ roomsHistory' = [r \in Rooms |-> << >>]
      /\ pubKey' = [c \in Conns |-> NoKey]
  BY DEF Inv, RestartServer, Restart, ServerTypes
<1>2. TypeOK'
  BY <1>1 DEF TypeOK
<1>3. << >> \in Seq(Frames) /\ << >> \in Seq(Posts)
  BY EmptySeq
<1>4. ServerTypes'
  BY <1>1, <1>3 DEF ServerTypes, LinkStates
<1>5. ServerOK'
  <2>1. \A r \in Rooms : roomsHistory'[r] \in Seq(PostsOf(r))
    BY <1>1, EmptySeq
  <2>2. \A k \in Keys : history'[k] \in Seq(PostsTo(k)')
    BY <1>1, EmptySeq
  <2>3. \A r \in Rooms : ~Exists(r)' /\ users'[r] = {}
    BY <1>1 DEF Exists
  <2>4. \A k \in Keys : online'[k] = NoConn
    BY <1>1
  <2>5. history' \in [Keys -> Seq(Posts)] /\ roomsHistory' \in [Rooms -> Seq(Posts)]
    BY <1>1, <1>3
  <2> QED
    BY <1>1, <2>1, <2>2, <2>3, <2>4, <2>5 DEF ServerOK, PostsOf
<1>6. ASSUME NEW c \in Conns
      PROVE  LinkOK(c)'
  <2>1. link'[c] = "free" /\ up'[c] = << >> /\ down'[c] = << >> /\ pubKey'[c] = NoKey
    BY <1>1
  <2> QED
    BY <2>1 DEF LinkOK
<1>7. ASSUME NEW k \in Keys
      PROVE  ClientOK(k)' /\ ConnOK(k)'
  <2>1. conn'[k] = NoConn
    BY <1>1
  <2>2. ASSUME NEW d \in Datas, RoomOK(k, d)
        PROVE  RoomOK(k, d)'
    BY <1>1, <2>2 DEF RoomOK, Exists, Datas
  <2>3. data[k] # NoData /\ Keyed(k) => RoomOK(k, data[k])'
    BY <1>1, <2>2 DEF TypeOK, ClientOK, RoomOK
  <2>4. saved[k] # NoData => RoomOK(k, saved[k])'
    BY <1>1, <2>2 DEF TypeOK, ClientOK, RoomOK
  <2>5. ClientOK(k)
    BY <1>1
  <2>6. ClientOK(k)'
    BY <1>1, <2>1, <2>3, <2>4, <2>5 DEF ClientOK, OriginOK, Keyed
  <2> QED
    BY <2>1, <2>6 DEF ConnOK
<1> QED
  BY <1>2, <1>4, <1>5, <1>6, <1>7 DEF Inv

LEMMA StutterKeepsInv ==
    ASSUME Inv, UNCHANGED vars
    PROVE  Inv'
<1>1. /\ UNCHANGED wireVars /\ UNCHANGED serverVars /\ UNCHANGED roomVars
      /\ UNCHANGED usageVars
  BY DEF vars
<1>2. Away /\ Grows
  BY <1>1, AwayGrows DEF Away, usageVars
<1>3. (\A c \in Conns : SameLink(c)) /\ (\A k \in Keys : SameClient(k))
  BY <1>1 DEF SameLink, SameClient, wireVars, serverVars, roomVars
<1>4. TypeOK' /\ ServerTypes'
  BY <1>1 DEF Inv, TypeOK, ServerTypes, wireVars, serverVars, roomVars, usageVars
<1>5. \A c \in Conns : LinkOK(c)'
  BY <1>2, <1>3, LinkStays DEF Inv
<1>6. ASSUME NEW k \in Keys
      PROVE  ClientOK(k)' /\ ConnOK(k)'
  <2>1. conn[k] # NoConn => SameLink(conn[k])
    BY <1>3, WhoIsThere
  <2> QED
    BY <1>2, <1>3, <2>1, ClientStays, ConnStays DEF Inv
<1> QED
  BY <1>2, <1>4, <1>5, <1>6, ServerUntouched DEF Inv

LEMMA InitHasInv == Init => Inv
<1> SUFFICES ASSUME Init
             PROVE  Inv
  OBVIOUS
<1> USE DEF Init, WireInit, ServerInit
<1>1. << >> \in Seq(Frames) /\ << >> \in Seq(Posts)
  BY EmptySeq
<1>2. TypeOK
  BY DEF TypeOK
<1>3. ServerTypes
  BY <1>1 DEF ServerTypes, LinkStates
<1>4. ServerOK
  <2>1. \A r \in Rooms : roomsHistory[r] \in Seq(PostsOf(r))
    BY EmptySeq
  <2>2. \A k \in Keys : history[k] \in Seq(PostsTo(k))
    BY EmptySeq
  <2> QED
    BY <1>1, <2>1, <2>2 DEF ServerOK, Exists
<1>5. ASSUME NEW c \in Conns
      PROVE  LinkOK(c)
  BY DEF LinkOK
<1>6. ASSUME NEW k \in Keys
      PROVE  ClientOK(k) /\ ConnOK(k)
  BY DEF ClientOK, ConnOK, Keyed
<1> QED
  BY <1>2, <1>3, <1>4, <1>5, <1>6 DEF Inv

LEMMA NextKeepsInv == Inv /\ [Next]_vars => Inv'
<1> SUFFICES ASSUME Inv, [Next]_vars
             PROVE  Inv'
  OBVIOUS
<1>1. ASSUME NEW k \in Keys, NEW c \in Conns, NewRoomOf(k, c)
      PROVE  Inv'
  BY <1>1, NewRoomOfKeepsInv
<1>2. ASSUME NEW k \in Keys, NEW c \in Conns, NEW i \in Invites, OpenByInvite(k, c, i)
      PROVE  Inv'
  BY <1>2, OpenByInviteKeepsInv
<1>3. ASSUME NEW k \in Keys, NEW c \in Conns, OpenExisting(k, c)
      PROVE  Inv'
  BY <1>3, OpenExistingKeepsInv
<1>4. ASSUME NEW k \in Keys, Leave(k)
      PROVE  Inv'
  BY <1>4, LeaveKeepsInv
<1>5. ASSUME NEW k \in Keys, NEW i \in Invites, GenerateInvite(k, i)
      PROVE  Inv'
  BY <1>5, GenerateInviteKeepsInv
<1>6. ASSUME NEW k \in Keys, NEW t \in Texts, SendMessage(k, t)
      PROVE  Inv'
  BY <1>6, SendMessageKeepsInv
<1>7. ASSUME NEW k \in Keys, OnReceive(k)
      PROVE  Inv'
  BY <1>7, ReceiveKeepsInv
<1>8. ASSUME NEW c \in Conns, Serve(c)
      PROVE  Inv'
  BY <1>8, ServeKeepsInv
<1>9. CASE RestartServer
  BY <1>9, RestartKeepsInv
<1>10. CASE UNCHANGED vars
  BY <1>10, StutterKeepsInv
<1> QED
  BY <1>1, <1>2, <1>3, <1>4, <1>5, <1>6, <1>7, <1>8, <1>9, <1>10 DEF Next, UserStep

(* Every reachable state keeps the invariant: what a connection carries    *)
(* was said by one key, a client finds there only what concerns it and at  *)
(* most the one reply it waits for, and what it knows of a room is what    *)
(* the owner sealed for it (secure_chat_room.hpp:130-245;                  *)
(* server.py:36-159).                                                      *)
THEOREM ConversationsHold == Spec => []Inv
  BY InitHasInv, NextKeepsInv, PTL DEF Spec

(* The client's state keeps its types and the owner's count never rests at *)
(* the limit (secure_chat_room.hpp:201-217).                               *)
THEOREM ClientTypes == Spec => []TypeOK
<1>1. Inv => TypeOK
  BY DEF Inv
<1> QED
  BY <1>1, ConversationsHold, PTL

(* What the file holds can be opened unless the server was restarted: the  *)
(* server has the room, with this owner, and admits this key, and the key  *)
(* kept is the owner's and no join key (secure_chat_room.hpp:139-154,      *)
(* 184-186).                                                               *)
THEOREM SavedRoomsOpen == Spec => []SavedIsMember
<1>1. Inv => SavedIsMember
  BY DEF Inv, SavedIsMember, ServerOK, ClientOK, RoomOK, Exists
<1> QED
  BY <1>1, ConversationsHold, PTL

-----------------------------------------------------------------------------
(* What a step may do to a file, and who may go down.                      *)

LEMMA WhoWritesFiles ==
    ASSUME [Next]_vars, saved' # saved
    PROVE  \E k \in Keys : OnReceive(k)
  BY DEF Next, UserStep, NewRoomOf, OpenByInvite, OpenExisting, Construct, Leave, Forget,
         GenerateInvite, SendMessage, roomVars, Serve, RestartServer, vars

LEMMA ForgetStep ==
    ASSUME Inv, [Next]_vars, NEW k \in Keys, saved[k] # NoData, saved'[k] = NoData
    PROVE  k \notin users[saved[k].name]
<1>1. PICK l \in Keys : OnReceive(l)
  BY WhoWritesFiles
<1>2. PICK f : f = Head(down[conn[l]])
  OBVIOUS
<1>3. Takes(l, f) /\ TypeOK /\ Inv'
  BY <1>1, <1>2, ReceiveKeepsInv DEF OnReceive, Takes, Inv
<1>4. saved' # saved
  OBVIOUS
<1>5. CASE OnRoomNotExist(l, f)
  <2>1. saved' = [saved EXCEPT ![l] = NoData] /\ f.cmd = "ROOM.NOT_EXIST"
    BY <1>5 DEF OnRoomNotExist, Receives
  <2>2. k = l
    BY <1>3, <2>1 DEF TypeOK
  <2>3. f \in Replies(k) /\ data[k] # NoData
    BY <1>3, <2>1, <2>2, FrameIsKnown DEF ReplyCommands
  <2>4. f.room = data[k].name /\ ~Exists(data[k].name)
    BY <2>1, <2>3 DEF Replies
  <2>5. /\ saved[k].name # NoRoom /\ saved[k] \in Datas
        /\ data[k].name = saved[k].name
    BY <1>3, <2>3 DEF Inv, ClientOK, TypeOK
  <2>6. saved[k].name \in Rooms
    BY <2>5 DEF Datas
  <2> QED
    BY <2>4, <2>5, <2>6 DEF Inv, ServerOK
<1>6. CASE \/ OnRoomCreated(l, f) \/ OnRoomOpened(l, f) \/ OnVerificationResponse(l, f)
  <2>1. /\ saved' = [saved EXCEPT ![l] = data'[l]]
        /\ stage' = [stage EXCEPT ![l] = "open"]
    BY <1>4, <1>6 DEF OnRoomCreated, OnRoomOpened, OnVerificationResponse, Save, ShowRoom
  <2>2. k = l /\ saved'[k] = data'[k] /\ stage'[k] = "open"
    BY <1>3, <2>1 DEF TypeOK
  <2> QED
    BY <1>3, <2>2 DEF Inv, ClientOK
<1>7. CASE \/ OnVerificationRequest(l, f) \/ CrashOnFrame(l, f) \/ OnMessage(l, f)
           \/ OnKeyRotate(l, f) \/ OnDeclined(l, f)
  BY <1>4, <1>7 DEF OnVerificationRequest, CrashOnFrame, Forget, OnMessage, OnKeyRotate, OnDeclined
<1> QED
  BY <1>1, <1>2, <1>5, <1>6, <1>7 DEF OnReceive

LEMMA CrashStep ==
    ASSUME Inv, [Next]_vars, NEW k \in Keys, stage'[k] = "crashed", stage[k] # "crashed"
    PROVE  saved[k] = NoData /\ \E r \in Rooms : k \in users[r]
<1>1. stage' # stage /\ TypeOK
  BY DEF Inv
<1>2. PICK l \in Keys : UserStep(l) \/ OnReceive(l)
  BY <1>1 DEF Next, Serve, roomVars, RestartServer, vars
<1>3. ASSUME NEW s, s # "crashed", stage' = [stage EXCEPT ![l] = s]
      PROVE  FALSE
  BY <1>1, <1>3 DEF TypeOK
<1>4. CASE UserStep(l)
  <2>1. \/ stage' = [stage EXCEPT ![l] = "waiting"] \/ stage' = [stage EXCEPT ![l] = "absent"]
    BY <1>1, <1>4 DEF UserStep, NewRoomOf, OpenByInvite, OpenExisting, Construct, Leave,
                      Forget, GenerateInvite, SendMessage, roomVars
  <2> QED
    BY <1>3, <2>1
<1>5. CASE OnReceive(l)
  <2>1. PICK f : f = Head(down[conn[l]])
    OBVIOUS
  <2>2. Takes(l, f)
    BY <1>5, <2>1 DEF OnReceive, Takes
  <2>3. CASE CrashOnFrame(l, f)
    <3>1. stage' = [stage EXCEPT ![l] = "crashed"]
      BY <2>3 DEF CrashOnFrame, Forget
    <3>2. k = l
      BY <1>1, <3>1 DEF TypeOK
    <3> QED
      BY <2>2, <2>3, <3>2, CrashKeepsInv
  <2>4. CASE ~CrashOnFrame(l, f)
    <3>1. stage' = [stage EXCEPT ![l] = "open"]
      BY <1>1, <1>5, <2>1, <2>4
         DEF OnReceive, OnRoomCreated, OnRoomOpened, OnRoomNotExist, OnVerificationRequest,
             OnVerificationResponse, OnMessage, OnKeyRotate, OnDeclined, ShowRoom
    <3> QED
      BY <1>3, <3>1
  <2> QED
    BY <2>3, <2>4
<1> QED
  BY <1>2, <1>4, <1>5

(* A room leaves the file only if the server does not know its member any  *)
(* more: the one refusal that reaches a client is the answer to its own    *)
(* question about its own room (secure_chat_room.hpp:147-150).             *)
THEOREM OnlyLostRoomsAreForgotten == Spec => ForgetsOnlyLostRooms
<1>1. Inv /\ [Next]_vars =>
          [\A k \in Keys : saved[k] # NoData /\ saved'[k] = NoData
              => k \notin users[saved[k].name]]_vars
  BY ForgetStep
<1> QED
  BY <1>1, ConversationsHold, PTL DEF Spec, ForgetsOnlyLostRooms

(* Only a member that was admitted without ever getting the key is taken   *)
(* down by a frame (secure_chat_room.hpp:200, 234 with 109-128).           *)
THEOREM OnlyTheUnkeyedCrash == Spec => CrashOnlyUnkeyed
<1>1. Inv /\ [Next]_vars =>
          [\A k \in Keys : stage'[k] = "crashed" /\ stage[k] # "crashed"
              => saved[k] = NoData /\ \E r \in Rooms : k \in users[r]]_vars
  BY CrashStep
<1> QED
  BY <1>1, ConversationsHold, PTL DEF Spec, CrashOnlyUnkeyed

-----------------------------------------------------------------------------
(* An invitation is used once.                                             *)

LEMMA MostAreHarmless ==
    ASSUME NEW k \in Keys, NEW i \in Invites
    PROVE  /\ \A f \in Frames : f.cmd # "ROOM.INVITE.VERIFICATION_RESPONSE" => f \in Harmless(k, i)
           /\ \A f \in Frames : f.key # k => f \in Harmless(k, i)
           /\ \A f \in Frames : f.body.token # i => f \in Harmless(k, i)
           /\ Posts \subseteq Harmless(k, i)
           /\ \A w : Firsts(w) \subseteq Harmless(k, i)
  BY DEF Harmless, Gives, Posts, Firsts, Asks

LEMMA WireOpens ==
    ASSUME Inv, NEW k \in Keys, NEW i \in Invites, WireUnspent(k, i),
           NEW a \in Keys, NEW c \in Conns, NEW first \in Firsts(a),
           OpenLink(c, <<PublicKey(a), first>>)
    PROVE  WireUnspent(k, i)'
<1>1. first \in Harmless(k, i)
  BY MostAreHarmless
<1>2. PublicKey(a) \in Frames /\ PublicKey(a).cmd = "PUBKEY"
  BY DEF Frames, Commands, PublicKey, Frame
<1>3. PublicKey(a) \in Harmless(k, i)
  BY <1>2, MostAreHarmless
<1>4. <<PublicKey(a), first>> \in Seq(Harmless(k, i))
  BY <1>1, <1>3
<1> QED
  BY <1>4 DEF WireUnspent, OpenLink, Inv, ServerTypes

LEMMA WireCut ==
    ASSUME Inv, NEW k \in Keys, NEW i \in Invites, WireUnspent(k, i),
           NEW c \in Conns, NEW n \in 0 .. Len(up[c]), Disconnect(c, n)
    PROVE  WireUnspent(k, i)'
<1>1. up[c] \in Seq(Harmless(k, i))
  BY DEF WireUnspent
<1>2. SubSeq(up[c], 1, n) \in Seq(Harmless(k, i)) /\ << >> \in Seq(Harmless(k, i))
  BY <1>1, PrefixSeq, EmptySeq
<1> QED
  BY <1>2 DEF WireUnspent, Disconnect, Inv, ServerTypes

LEMMA WireSends ==
    ASSUME Inv, NEW k \in Keys, NEW i \in Invites, WireUnspent(k, i),
           NEW a \in Keys, NEW g \in Harmless(k, i), Submit(conn[a], g), UNCHANGED down
    PROVE  WireUnspent(k, i)'
<1>1. CASE conn[a] = NoConn
  BY <1>1 DEF Submit, WireUnspent
<1>2. CASE conn[a] # NoConn
  <2>1. PICK c \in Conns : c = conn[a]
    BY <1>2, WhoIsThere
  <2>2. Append(up[c], g) \in Seq(Harmless(k, i))
    BY AppendProperties DEF WireUnspent
  <2> QED
    BY <1>2, <2>1, <2>2 DEF Submit, WireUnspent, Inv, ServerTypes
<1> QED
  BY <1>1, <1>2

LEMMA WireTakes ==
    ASSUME Inv, NEW k \in Keys, NEW i \in Invites, WireUnspent(k, i),
           NEW a \in Keys, NEW f, Takes(a, f), TakeDown(a),
           up' = up \/ \E g \in Harmless(k, i) : Submit(conn[a], g)
    PROVE  /\ WireUnspent(k, i)'
           /\ f \in Harmless(k, i)
<1>1. PICK c \in Conns : c = conn[a] /\ c # NoConn /\ down[c] # << >> /\ f = Head(down[c])
  BY WhoIsThere DEF Takes
<1>2. up[c] \in Seq(Harmless(k, i)) /\ down[c] \in Seq(Harmless(k, i))
  BY DEF WireUnspent
<1>3. Tail(down[c]) \in Seq(Harmless(k, i)) /\ f \in Harmless(k, i)
  BY <1>1, <1>2, HeadTailProperties
<1>4. \A g \in Harmless(k, i) : Append(up[c], g) \in Seq(Harmless(k, i))
  BY <1>2, AppendProperties
<1>5. ASSUME NEW x \in Conns
      PROVE  up'[x] \in Seq(Harmless(k, i)) /\ down'[x] \in Seq(Harmless(k, i))
  BY <1>1, <1>3, <1>4 DEF TakeDown, Submit, WireUnspent, Inv, ServerTypes
<1> QED
  BY <1>3, <1>5 DEF WireUnspent

LEMMA WireServes ==
    ASSUME Inv, NEW k \in Keys, NEW i \in Invites, WireUnspent(k, i),
           NEW c \in Conns, up[c] # << >>, TakeUp(c),
           NEW fs, SendDown(fs), \A x \in Conns : fs[x] \in Seq(Harmless(k, i))
    PROVE  WireUnspent(k, i)'
<1>1. up[c] \in Seq(Harmless(k, i))
  BY DEF WireUnspent
<1>2. Tail(up[c]) \in Seq(Harmless(k, i))
  BY <1>1, HeadTailProperties
<1>3. ASSUME NEW x \in Conns
      PROVE  up'[x] \in Seq(Harmless(k, i)) /\ down'[x] \in Seq(Harmless(k, i))
  <2>1. down[x] \in Seq(Harmless(k, i)) /\ fs[x] \in Seq(Harmless(k, i))
    BY DEF WireUnspent
  <2>2. down[x] \o fs[x] \in Seq(Harmless(k, i))
    BY <2>1, ConcatProperties
  <2>3. down'[x] \in Seq(Harmless(k, i))
    BY <2>1, <2>2 DEF SendDown
  <2>4. up'[x] \in Seq(Harmless(k, i))
    BY <1>2 DEF TakeUp, WireUnspent, Inv, ServerTypes
  <2> QED
    BY <2>3, <2>4
<1> QED
  BY <1>3 DEF WireUnspent

LEMMA WireSendsTo ==
    ASSUME Inv, NEW k \in Keys, NEW i \in Invites, WireUnspent(k, i),
           NEW c \in Conns, up[c] # << >>, TakeUp(c),
           NEW d, NEW s \in Seq(Harmless(k, i)), SendTo(d, s)
    PROVE  WireUnspent(k, i)'
<1> DEFINE fs == [x \in Conns |-> IF x = d THEN s ELSE << >>]
<1>1. SendDown(fs)
  BY DEF SendTo
<1>2. \A x \in Conns : fs[x] \in Seq(Harmless(k, i))
  BY EmptySeq
<1> HIDE DEF fs
<1> QED
  BY <1>1, <1>2, WireServes

LEMMA ServeUnspent ==
    ASSUME Inv, NEW k \in Keys, NEW i \in Invites, Unspent(k, i), NEW c \in Conns, Serve(c)
    PROVE  Unspent(k, i)'
<1>1. UNCHANGED roomVars /\ WireUnspent(k, i)
  BY DEF Serve, Unspent
<1>2. WireUnspent(k, i)' => Unspent(k, i)'
  BY <1>1 DEF Unspent, roomVars, Keyed
<1>3. CASE HandleClose(c)
  <2>1. UNCHANGED <<up, down>>
    BY <1>3 DEF HandleClose, FreeLink
  <2> QED
    BY <1>1, <1>2, <2>1 DEF WireUnspent
<1>4. ASSUME up[c] # << >>, Handle(c, Head(up[c]))
      PROVE  WireUnspent(k, i)'
  <2>1. PICK f : f = Head(up[c])
    OBVIOUS
  <2>2. up[c] \in Seq(Harmless(k, i))
    BY <1>1 DEF WireUnspent
  <2>3. f \in Harmless(k, i) /\ f \in Frames
    BY <1>4, <2>1, <2>2, HeadTailProperties DEF Harmless
  <2>4. TakeUp(c)
    BY <1>4, <2>1
       DEF Handle, HandleNewRoom, HandleInvite, DeclineInvite, HandleInviteResponse,
           DropInviteResponse, HandleOpenRoom, HandleMessage, RefuseMessage,
           HandleKeyRotate, RefuseKeyRotate, HandlePublicKey, KeyedRequest, Request
  <2>5. ASSUME NEW d, NEW g \in Harmless(k, i), SendTo(d, <<g>>)
        PROVE  WireUnspent(k, i)'
    <3>1. <<g>> \in Seq(Harmless(k, i))
      OBVIOUS
    <3> QED
      BY <1>1, <1>4, <2>4, <2>5, <3>1, WireSendsTo
  <2>6. ASSUME NEW d, NEW g \in Frames, g.cmd # "ROOM.INVITE.VERIFICATION_RESPONSE",
               SendTo(d, <<g>>)
        PROVE  WireUnspent(k, i)'
    BY <2>5, <2>6, MostAreHarmless
  <2>7. CASE \E r \in Rooms : HandleNewRoom(c, f, r)
    <3>1. PICK r \in Rooms : SendTo(c, <<RoomCreated(r)>>)
      BY <2>7 DEF HandleNewRoom
    <3>2. RoomCreated(r) \in Frames /\ RoomCreated(r).cmd = "ROOM.CREATED"
      BY FrameTypes DEF RoomCreated, Frame
    <3> QED
      BY <2>6, <3>1, <3>2
  <2>8. CASE HandleInvite(c, f)
    BY <2>3, <2>5, <2>8 DEF HandleInvite
  <2>9. CASE DeclineInvite(c, f)
    <3>1. SendTo(c, <<InvalidInvite(f.key)>>) /\ f \in Asks
      BY <1>4, <2>1, <2>9, RequestIsKnown, KnownRequests DEF DeclineInvite, KeyedRequest, Request
    <3>2. /\ InvalidInvite(f.key) \in Frames
          /\ InvalidInvite(f.key).cmd = "ROOM.INVITE.DECLINED"
      BY <3>1, FrameTypes DEF InvalidInvite, Frame, Asks
    <3> QED
      BY <2>6, <3>1, <3>2
  <2>10. CASE HandleInviteResponse(c, f)
    <3>1. f.room \in Rooms
      BY <1>4, <2>1, <2>10, RequestIsKnown, KnownRequests
         DEF HandleInviteResponse, KeyedRequest, Request, Answers
    <3>2. roomsHistory[f.room] \in Seq(Posts)
      BY <3>1 DEF Inv, ServerOK
    <3>3. roomsHistory[f.room] \in Seq(Harmless(k, i)) /\ <<f>> \in Seq(Harmless(k, i))
      BY <2>3, <3>2, MostAreHarmless, SeqGrows
    <3>4. <<f>> \o roomsHistory[f.room] \in Seq(Harmless(k, i))
      BY <3>3, ConcatProperties
    <3> QED
      BY <1>1, <1>4, <2>4, <2>10, <3>4, WireSendsTo DEF HandleInviteResponse
  <2>11. CASE DropInviteResponse(c, f)
    <3>1. Tail(up[c]) \in Seq(Harmless(k, i))
      BY <1>4, <2>2, HeadTailProperties
    <3> QED
      BY <1>1, <2>4, <2>11, <3>1
         DEF DropInviteResponse, WireUnspent, TakeUp, Inv, ServerTypes
  <2>12. CASE HandleOpenRoom(c, f)
    <3>1. f.room \in Rooms
      BY <1>4, <2>1, <2>12, RequestIsKnown, KnownRequests DEF HandleOpenRoom, KeyedRequest, Request
    <3>2. PICK g \in {OpenedRoom, ErrorRoom(f.room)} : SendTo(c, <<g>>)
      BY <2>12 DEF HandleOpenRoom
    <3>3. g \in Frames /\ g.cmd # "ROOM.INVITE.VERIFICATION_RESPONSE"
      BY <3>1, <3>2, FrameTypes DEF OpenedRoom, ErrorRoom, Frame
    <3> QED
      BY <2>6, <3>2, <3>3
  <2>13. CASE RefuseMessage(c, f) \/ RefuseKeyRotate(c, f)
    <3>1. f \in Posts /\ SendTo(c, <<MessageError(f.room)>>)
      BY <1>4, <2>1, <2>13, RequestIsKnown, KnownRequests
         DEF RefuseMessage, RefuseKeyRotate, KeyedRequest, Request, Refuse
    <3>2. MessageError(f.room) \in Frames /\ MessageError(f.room).cmd = "ROOM.MESSAGE.ERROR"
      BY <3>1, FrameTypes DEF MessageError, Frame, Posts
    <3> QED
      BY <2>6, <3>1, <3>2
  <2>14. CASE HandleMessage(c, f) \/ HandleKeyRotate(c, f)
    <3>1. FanOut(f.room, pubKey[c], f)
      BY <2>14 DEF HandleMessage, HandleKeyRotate
    <3> DEFINE present == Present(f.room, pubKey[c])
               fs == [x \in Conns |->
                        IF \E u \in present : online[u] = x THEN <<f>> ELSE << >>]
    <3>2. SendDown(fs)
      BY <3>1 DEF FanOut
    <3>3. <<f>> \in Seq(Harmless(k, i)) /\ << >> \in Seq(Harmless(k, i))
      BY <2>3, EmptySeq
    <3> HIDE DEF present
    <3>4. \A x \in Conns : fs[x] \in Seq(Harmless(k, i))
      BY <3>3
    <3> HIDE DEF fs
    <3> QED
      BY <1>1, <1>4, <2>4, <3>2, <3>4, WireServes
  <2>15. CASE HandlePublicKey(c, f)
    <3>1. f.cmd = "PUBKEY" /\ SendTo(c, history[f.key])
      BY <2>15 DEF HandlePublicKey, Request
    <3>2. PICK w \in Keys : f = PublicKey(w)
      BY <1>4, <2>1, <3>1, RequestIsKnown, KnownRequests
    <3>3. f.key \in Keys
      BY <3>2 DEF PublicKey, Frame
    <3>4. history[f.key] \in Seq(Posts)
      BY <3>3 DEF Inv, ServerOK
    <3>5. history[f.key] \in Seq(Harmless(k, i))
      BY <3>4, MostAreHarmless, SeqGrows
    <3> QED
      BY <1>1, <1>4, <2>4, <3>1, <3>5, WireSendsTo
  <2> QED
    BY <1>4, <2>1, <2>7, <2>8, <2>9, <2>10, <2>11, <2>12, <2>13, <2>14, <2>15 DEF Handle
<1> QED
  BY <1>2, <1>3, <1>4 DEF Serve, ServerStep

LEMMA SpentStays ==
    ASSUME SpentOK,
           \A k \in Keys : \A i \in Invites : Unspent(k, i) => Unspent(k, i)',
           \A i \in Invites : issued[i] # NoInvite => issued'[i] # NoInvite,
           \A l \in Keys : data'[l] # NoData =>
               \A i \in data'[l].invites : data[l] # NoData /\ i \in data[l].invites
    PROVE  SpentOK'
<1>1. ASSUME NEW i \in Invites, NEW k \in Keys, ~Unspent(k, i)'
      PROVE  /\ issued'[i] # NoInvite
             /\ \A l \in Keys : ~Unspent(l, i)' => l = k
             /\ \A l \in Keys : data'[l] # NoData => i \notin data'[l].invites
  <2>1. ~Unspent(k, i)
    BY <1>1
  <2>2. /\ issued[i] # NoInvite
        /\ \A l \in Keys : ~Unspent(l, i) => l = k
        /\ \A l \in Keys : data[l] # NoData => i \notin data[l].invites
    BY <2>1 DEF SpentOK
  <2> QED
    BY <2>2
<1> QED
  BY <1>1 DEF SpentOK

(* What a client holds: it got nothing it did not have before.             *)
LEMMA StillUnspent ==
    ASSUME NEW k \in Keys, NEW i \in Invites, Unspent(k, i), WireUnspent(k, i)',
           data'[k] # NoData /\ Keyed(k)' =>
               \/ data[k] # NoData /\ Keyed(k) /\ data'[k].invite = data[k].invite
               \/ saved[k] # NoData /\ data'[k].invite = saved[k].invite
               \/ data'[k].invite # i,
           saved'[k] # NoData =>
               \/ data[k] # NoData /\ Keyed(k) /\ saved'[k].invite = data[k].invite
               \/ saved[k] # NoData /\ saved'[k].invite = saved[k].invite
               \/ saved'[k].invite # i
    PROVE  Unspent(k, i)'
  BY DEF Unspent

LEMMA ConstructKeepsSpent ==
    ASSUME Inv, SpentOK, NEW a \in Keys, NEW c \in Conns, NEW d \in Datas,
           NEW ciph \in RoomKeys \cup {NoCipher}, NEW first \in Firsts(a),
           Construct(a, c, d, ciph, first), d.invites = {},
           \/ ciph = NoCipher
           \/ d.invite = NoInvite
           \/ saved[a] # NoData /\ d.invite = saved[a].invite
    PROVE  SpentOK'
<1>1. /\ OpenLink(c, <<PublicKey(a), first>>)
      /\ data' = [data EXCEPT ![a] = d] /\ cipher' = [cipher EXCEPT ![a] = ciph]
      /\ saved' = saved /\ issued' = issued /\ TypeOK
  BY DEF Construct, Inv
<1>2. /\ data'[a] = d /\ cipher'[a] = ciph
      /\ \A l \in Keys : l # a => data'[l] = data[l] /\ cipher'[l] = cipher[l]
  BY <1>1 DEF TypeOK
<1>3. ASSUME NEW k \in Keys, NEW i \in Invites, Unspent(k, i)
      PROVE  Unspent(k, i)'
  <2>1. WireUnspent(k, i)'
    BY <1>1, <1>3, WireOpens DEF Unspent
  <2>2. i # NoInvite
    BY NullsOK
  <2>3. CASE k = a
    BY <1>1, <1>2, <1>3, <2>1, <2>2, <2>3, StillUnspent DEF Keyed
  <2>4. CASE k # a
    BY <1>1, <1>2, <1>3, <2>1, <2>4, StillUnspent DEF Keyed
  <2> QED
    BY <2>3, <2>4
<1> QED
  BY <1>1, <1>2, <1>3, SpentStays

LEMMA NewRoomOfKeepsSpent ==
    ASSUME Inv, SpentOK, NEW a \in Keys, NEW c \in Conns, NewRoomOf(a, c)
    PROVE  SpentOK'
<1>1. PICK key \in RoomKeys : key = RoomKey(a, 1)
  BY DEF RoomKey, RoomKeys
<1>2. PICK d : d = RoomData(NoRoom, a, key, 0, {}, NoInvite)
  OBVIOUS
<1>3. Construct(a, c, d, key, NewRoom) /\ a \in Creators
  BY <1>1, <1>2 DEF NewRoomOf
<1>4. d \in Datas /\ d.invites = {} /\ d.invite = NoInvite
  <2>1. 0 \in Null .. KeyRotationLimit - 1
    BY ConstantsOK DEF Null
  <2> QED
    BY <1>2, <2>1 DEF Datas, RoomData
<1>5. NewRoom \in Firsts(a)
  BY <1>3 DEF Firsts, Frames, Commands, NewRoom, Frame
<1> QED
  BY <1>3, <1>4, <1>5, ConstructKeepsSpent

LEMMA OpenByInviteKeepsSpent ==
    ASSUME Inv, SpentOK, NEW a \in Keys, NEW c \in Conns, NEW i \in Invites,
           OpenByInvite(a, c, i)
    PROVE  SpentOK'
<1>1. PICK key \in RoomKeys : key = RoomKey(a, 1) /\ key.by = a
  <2>1. RoomKey(a, 1) \in RoomKeys /\ RoomKey(a, 1).by = a
    BY DEF RoomKey, RoomKeys
  <2> QED
    BY <2>1
<1>2. PICK inv : inv = issued[i]
  OBVIOUS
<1>3. inv # NoInvite /\ a \notin Creators
  BY <1>2 DEF OpenByInvite
<1>4. inv \in [room : Rooms, owner : Keys] /\ inv = Invitation(inv.room, inv.owner)
  BY <1>2, <1>3 DEF Inv, ServerTypes, Invitation
<1>5. PICK d : d = RoomData(inv.room, inv.owner, key, Null, {}, i)
  OBVIOUS
<1>6. PICK body : body = Seal(NoCipher, i, key)
  OBVIOUS
<1>7. PICK first : first = Invite(inv.owner, inv.room, a, body)
  OBVIOUS
<1>8. Construct(a, c, d, NoCipher, first)
  BY <1>1, <1>2, <1>5, <1>6, <1>7 DEF OpenByInvite
<1>9. d \in Datas /\ d.invites = {}
  <2>1. Null \in Null .. KeyRotationLimit - 1
    BY ConstantsOK DEF Null
  <2> QED
    BY <1>4, <1>5, <2>1 DEF Datas, RoomData
<1>10. body \in Seals /\ body.token = i /\ body.content = key
  BY <1>6 DEF Seals, Seal
<1>11. /\ first \in Frames /\ first.cmd = "ROOM.INVITE.VERIFICATION_REQUEST"
       /\ first.key = inv.owner /\ first.room = inv.room /\ first.from = a /\ first.body = body
  BY <1>4, <1>7, <1>10 DEF Frames, Commands, Invite, Frame
<1>12. first \in Asks
  BY <1>1, <1>2, <1>3, <1>4, <1>10, <1>11 DEF Asks
<1>13. first \in Firsts(a)
  BY <1>12 DEF Firsts
<1> QED
  BY <1>8, <1>9, <1>13, ConstructKeepsSpent

LEMMA OpenExistingKeepsSpent ==
    ASSUME Inv, SpentOK, NEW a \in Keys, NEW c \in Conns, OpenExisting(a, c)
    PROVE  SpentOK'
<1>1. PICK d : d = saved[a]
  OBVIOUS
<1>2. /\ d # NoData /\ Construct(a, c, d, d.roomKey, OpenRoom(d.name))
  BY <1>1 DEF OpenExisting
<1>3. d \in Datas /\ d.invites = {} /\ d.name # NoRoom
  BY <1>1, <1>2 DEF Inv, ClientOK, TypeOK
<1>4. PICK ciph \in RoomKeys \cup {NoCipher} : ciph = d.roomKey
  BY <1>3 DEF Datas
<1>5. PICK first : first = OpenRoom(d.name)
  OBVIOUS
<1>6. first \in Firsts(a)
  BY <1>3, <1>5 DEF Datas, Firsts, Frames, Commands, OpenRoom, Frame
<1> QED
  BY <1>1, <1>2, <1>3, <1>4, <1>5, <1>6, ConstructKeepsSpent

LEMMA ForgetKeepsSpent ==
    ASSUME Inv, SpentOK, NEW a \in Keys, NEW s, Forget(a, s),
           IF conn[a] = NoConn
           THEN UNCHANGED wireVars
           ELSE \E n \in 0 .. Len(up[conn[a]]) : Disconnect(conn[a], n)
    PROVE  SpentOK'
<1>1. /\ data' = [data EXCEPT ![a] = NoData] /\ cipher' = [cipher EXCEPT ![a] = NoCipher]
      /\ saved' = saved /\ issued' = issued /\ TypeOK
  BY DEF Forget, usageVars, Inv
<1>2. \A l \in Keys : \/ data'[l] = NoData
                      \/ data'[l] = data[l] /\ cipher'[l] = cipher[l]
  BY <1>1 DEF TypeOK
<1>3. ASSUME NEW k \in Keys, NEW i \in Invites, Unspent(k, i)
      PROVE  Unspent(k, i)'
  <2>1. WireUnspent(k, i)
    BY <1>3 DEF Unspent
  <2>2. CASE conn[a] = NoConn
    <3>1. WireUnspent(k, i)'
      BY <2>1, <2>2 DEF WireUnspent, wireVars
    <3> QED
      BY <1>1, <1>2, <1>3, <3>1, StillUnspent DEF Keyed
  <2>3. CASE conn[a] # NoConn
    <3>1. PICK c \in Conns : c = conn[a]
      BY <2>3, WhoIsThere
    <3>2. PICK n \in 0 .. Len(up[c]) : Disconnect(c, n)
      BY <2>3, <3>1
    <3>3. WireUnspent(k, i)'
      BY <2>1, <3>2, WireCut
    <3> QED
      BY <1>1, <1>2, <1>3, <3>3, StillUnspent DEF Keyed
  <2> QED
    BY <2>2, <2>3
<1> QED
  BY <1>1, <1>2, <1>3, SpentStays

LEMMA GenerateInviteKeepsSpent ==
    ASSUME Inv, SpentOK, NEW a \in Keys, NEW j \in Invites, GenerateInvite(a, j)
    PROVE  SpentOK'
<1>1. /\ issued[j] = NoInvite /\ TypeOK /\ ServerTypes
      /\ issued' = [issued EXCEPT ![j] = [room |-> data[a].name, owner |-> a]]
      /\ data' = [data EXCEPT ![a].invites = @ \cup {j}]
      /\ UNCHANGED <<wireVars, cipher, saved>>
      /\ data[a] # NoData /\ data[a] \in Datas
  BY DEF GenerateInvite, Inv, ClientOK, TypeOK
<1>2. /\ data'[a].invite = data[a].invite
      /\ data'[a].invites = data[a].invites \cup {j}
      /\ \A l \in Keys : l # a => data'[l] = data[l]
  BY <1>1 DEF TypeOK, Datas
<1>3. \A i \in Invites : i # j => issued'[i] = issued[i]
  BY <1>1 DEF ServerTypes
<1>4. ASSUME NEW k \in Keys, NEW i \in Invites, Unspent(k, i)
      PROVE  Unspent(k, i)'
  <2>1. WireUnspent(k, i)'
    BY <1>1, <1>4 DEF Unspent, WireUnspent, wireVars
  <2>2. data'[k] # NoData => data[k] # NoData /\ data'[k].invite = data[k].invite
    BY <1>1, <1>2
  <2> QED
    BY <1>1, <1>4, <2>1, <2>2, StillUnspent DEF Keyed
<1>5. \A k \in Keys : Unspent(k, j)
  BY <1>1 DEF SpentOK
<1>6. ASSUME NEW i \in Invites, NEW k \in Keys, ~Unspent(k, i)'
      PROVE  /\ issued'[i] # NoInvite
             /\ \A l \in Keys : ~Unspent(l, i)' => l = k
             /\ \A l \in Keys : data'[l] # NoData => i \notin data'[l].invites
  <2>1. ~Unspent(k, i) /\ i # j
    BY <1>4, <1>5, <1>6
  <2>2. /\ issued[i] # NoInvite
        /\ \A l \in Keys : ~Unspent(l, i) => l = k
        /\ \A l \in Keys : data[l] # NoData => i \notin data[l].invites
    BY <2>1 DEF SpentOK
  <2> QED
    BY <1>1, <1>2, <1>3, <1>4, <2>1, <2>2
<1> QED
  BY <1>6 DEF SpentOK

LEMMA SendMessageKeepsSpent ==
    ASSUME Inv, SpentOK, NEW a \in Keys, NEW t \in Texts, SendMessage(a, t)
    PROVE  SpentOK'
<1>1. PICK f : f = Message(data[a].name, Seal(cipher[a], NoInvite, t))
  OBVIOUS
<1>2. /\ Submit(conn[a], f) /\ UNCHANGED <<down, data, cipher, saved, issued>>
      /\ stage[a] = "open"
  BY <1>1 DEF SendMessage, roomVars
<1>3. /\ data[a] \in Datas /\ data[a].name # NoRoom
      /\ cipher[a] \in RoomKeys
  BY <1>2 DEF Inv, ClientOK, TypeOK, Keyed
<1>4. f \in Frames /\ f.cmd = "ROOM.MESSAGE"
  BY <1>1, <1>3 DEF Datas, Frames, Commands, Seals, Message, Frame, Seal
<1>5. ASSUME NEW k \in Keys, NEW i \in Invites, Unspent(k, i)
      PROVE  Unspent(k, i)'
  <2>1. f \in Harmless(k, i)
    BY <1>4, MostAreHarmless
  <2>2. WireUnspent(k, i)'
    BY <1>2, <1>5, <2>1, WireSends DEF Unspent
  <2> QED
    BY <1>2, <1>5, <2>2, StillUnspent DEF Keyed
<1> QED
  BY <1>2, <1>5, SpentStays

(* The one step that spends: an invitation that is still the owner's goes  *)
(* to the key pair that asked, and out of the owner's invitations.         *)
LEMMA RequestKeepsSpent ==
    ASSUME Inv, SpentOK, NEW a \in Keys, NEW f, Takes(a, f), OnVerificationRequest(a, f)
    PROVE  SpentOK'
<1>1. PICK j : j = f.body.token
  OBVIOUS
<1>2. PICK token : token = IF j \in data[a].invites THEN j ELSE NoInvite
  OBVIOUS
<1>3. PICK body : body = Seal(f.body.content, token, data[a].roomKey)
  OBVIOUS
<1>4. PICK answer : answer = InviteResponse(f.from, f.room, f.key, body)
  OBVIOUS
<1>5. /\ TypeOK /\ TakeDown(a) /\ UNCHANGED <<cipher, saved, issued>>
      /\ f.cmd = "ROOM.INVITE.VERIFICATION_REQUEST"
      /\ IF f.key = a /\ f.room = data[a].name
         THEN /\ Submit(conn[a], answer)
              /\ data' = [data EXCEPT ![a].invites = @ \ {j}]
         ELSE UNCHANGED <<up, data>>
  BY <1>1, <1>2, <1>3, <1>4 DEF Inv, OnVerificationRequest, Receives, usageVars
<1>6. f \in Asks /\ f.key = a /\ data[a] \in Datas /\ data[a] # NoData /\ ClientOK(a)
  BY <1>5, FrameIsKnown DEF Inv
<1>7. CASE f.room # data[a].name
  <2>1. ASSUME NEW k \in Keys, NEW i \in Invites, Unspent(k, i)
        PROVE  Unspent(k, i)'
    <3>1. WireUnspent(k, i)'
      BY <1>5, <1>7, <2>1, WireTakes DEF Unspent
    <3> QED
      BY <1>5, <1>7, <2>1, <3>1, StillUnspent DEF Keyed
  <2> QED
    BY <1>5, <1>7, <2>1, SpentStays
<1>8. CASE f.room = data[a].name
  <2>1. /\ Submit(conn[a], answer) /\ data' = [data EXCEPT ![a].invites = @ \ {j}]
    BY <1>5, <1>6, <1>8
  <2>2. /\ data'[a].invites = data[a].invites \ {j} /\ data'[a].invite = data[a].invite
        /\ data'[a] # NoData
        /\ \A l \in Keys : l # a => data'[l] = data[l]
    <3>1. PICK old \in Datas : old = data[a]
      BY <1>6
    <3>2. PICK d : d = [old EXCEPT !.invites = @ \ {j}]
      OBVIOUS
    <3>3. d \in Datas /\ d.invites = old.invites \ {j} /\ d.invite = old.invite
      BY <3>1, <3>2 DEF Datas
    <3>4. data'[a] = d /\ \A l \in Keys : l # a => data'[l] = data[l]
      BY <1>5, <2>1, <3>1, <3>2 DEF TypeOK
    <3> QED
      BY <3>1, <3>3, <3>4, NullsOK
  <2>3. /\ f.body \in Seals /\ f.body.content \in RoomKeys /\ f.from \in Keys
        /\ f.room \in Rooms /\ j \in Invites /\ token \in Invites \cup {NoInvite}
        /\ data[a].roomKey \in RoomKeys
    BY <1>1, <1>2, <1>6 DEF Asks, Datas
  <2>4. body \in Seals /\ body.token = token
    BY <1>3, <2>3 DEF Seals, Seal
  <2>5. answer \in Frames /\ answer.key = f.from /\ answer.body = body
    BY <1>4, <1>6, <2>3, <2>4 DEF Frames, Commands, InviteResponse, Frame
  <2>6. ASSUME NEW k \in Keys, NEW i \in Invites, Unspent(k, i), k # f.from \/ i # token
        PROVE  Unspent(k, i)'
    <3>1. answer \in Harmless(k, i)
      BY <2>4, <2>5, <2>6, MostAreHarmless
    <3>2. WireUnspent(k, i)'
      BY <1>5, <2>1, <2>6, <3>1, WireTakes DEF Unspent
    <3>3. data'[k] # NoData => data[k] # NoData /\ data'[k].invite = data[k].invite
      BY <1>6, <2>2
    <3> QED
      BY <1>5, <2>6, <3>2, <3>3, StillUnspent DEF Keyed
  <2>7. \A l \in Keys : data'[l] # NoData =>
            /\ data[l] # NoData
            /\ data'[l].invites \subseteq data[l].invites
            /\ l = a => j \notin data'[l].invites
    BY <1>6, <2>2
  <2>8. CASE token = NoInvite
    <3>1. \A k \in Keys : \A i \in Invites : Unspent(k, i) => Unspent(k, i)'
      BY <2>6, <2>8, NullsOK
    <3> QED
      BY <1>5, <2>7, <3>1, SpentStays
  <2>9. CASE token # NoInvite
    <3>1. token = j /\ j \in data[a].invites
      BY <1>2, <2>9
    <3>2. \A k \in Keys : Unspent(k, j)
      BY <1>6, <2>3, <3>1 DEF SpentOK
    <3>3. issued[j] = Invitation(data[a].name, a) /\ issued[j] # NoInvite
      BY <1>6, <1>8, <2>3, <3>1, InvitationIsSome DEF ClientOK
    <3>4. ASSUME NEW l \in Keys, data'[l] # NoData
          PROVE  j \notin data'[l].invites
      <4>1. CASE l = a
        BY <2>7, <3>4, <4>1
      <4>2. CASE l # a
        <5>1. j \in data[l].invites => issued[j] = Invitation(data[l].name, l)
          BY <2>7, <3>4 DEF Inv, ClientOK
        <5> QED
          BY <2>7, <3>3, <3>4, <4>2, <5>1 DEF Invitation
      <4> QED
        BY <4>1, <4>2
    <3>5. ASSUME NEW i \in Invites, NEW k \in Keys, ~Unspent(k, i)'
          PROVE  /\ issued'[i] # NoInvite
                 /\ \A l \in Keys : ~Unspent(l, i)' => l = k
                 /\ \A l \in Keys : data'[l] # NoData => i \notin data'[l].invites
      <4>1. CASE i = j
        <5>1. \A l \in Keys : ~Unspent(l, i)' => l = f.from
          BY <2>6, <3>2, <4>1
        <5> QED
          BY <1>5, <3>3, <3>4, <3>5, <4>1, <5>1
      <4>2. CASE i # j
        <5>1. \A l \in Keys : Unspent(l, i) => Unspent(l, i)'
          BY <2>6, <3>1, <4>2
        <5>2. ~Unspent(k, i)
          BY <3>5, <5>1
        <5>3. /\ issued[i] # NoInvite
              /\ \A l \in Keys : ~Unspent(l, i) => l = k
              /\ \A l \in Keys : data[l] # NoData => i \notin data[l].invites
          BY <5>2 DEF SpentOK
        <5> QED
          BY <1>5, <2>7, <5>1, <5>3
      <4> QED
        BY <4>1, <4>2
    <3> QED
      BY <3>5 DEF SpentOK
  <2> QED
    BY <2>8, <2>9
<1> QED
  BY <1>7, <1>8

(* No other frame gives the client more than its own invitation.           *)
LEMMA ReceiveKeepsSpent ==
    ASSUME Inv, SpentOK, NEW a \in Keys, OnReceive(a)
    PROVE  SpentOK'
<1>1. PICK f : f = Head(down[conn[a]])
  OBVIOUS
<1>2. Takes(a, f) /\ TypeOK /\ ClientOK(a)
  BY <1>1 DEF OnReceive, Takes, Inv
<1>3. data[a] \in Datas /\ data[a] # NoData
  BY <1>2, FrameIsKnown
<1>4. CASE OnVerificationRequest(a, f)
  BY <1>2, <1>4, RequestKeepsSpent
<1>5. CASE CrashOnFrame(a, f)
  <2>1. /\ Forget(a, "crashed") /\ conn[a] \in Conns /\ conn[a] # NoConn
        /\ Disconnect(conn[a], Len(up[conn[a]]))
    BY <1>2, <1>5, WhoIsThere DEF CrashOnFrame, Takes
  <2>2. Len(up[conn[a]]) \in 0 .. Len(up[conn[a]])
    BY <2>1, LenProperties DEF Inv, ServerTypes
  <2> QED
    BY <2>1, <2>2, ForgetKeepsSpent
<1>6. ASSUME UNCHANGED issued, TakeDown(a),
             data' \in [Keys -> Datas \cup {NoData}], data'[a] # NoData,
             \A l \in Keys : l # a =>
                 data'[l] = data[l] /\ cipher'[l] = cipher[l] /\ saved'[l] = saved[l],
             data'[a].invite = data[a].invite, data'[a].invites = data[a].invites,
             \/ /\ saved'[a] \in {saved[a], NoData}
                /\ Keyed(a)' => Keyed(a)
             \/ /\ saved'[a] = data'[a]
                /\ \/ Keyed(a)
                   \/ f.cmd = "ROOM.INVITE.VERIFICATION_RESPONSE" /\ Opens(a, f),
             up' = up \/ \E g \in Frames : /\ g.cmd # "ROOM.INVITE.VERIFICATION_RESPONSE"
                                           /\ Submit(conn[a], g)
      PROVE  SpentOK'
  <2>1. ASSUME NEW k \in Keys, NEW i \in Invites, Unspent(k, i)
        PROVE  Unspent(k, i)'
    <3>1. up' = up \/ \E g \in Harmless(k, i) : Submit(conn[a], g)
      BY <1>6, MostAreHarmless
    <3>2. WireUnspent(k, i)' /\ f \in Harmless(k, i)
      BY <1>2, <1>6, <2>1, <3>1, WireTakes DEF Unspent
    <3>3. CASE k # a
      BY <1>6, <2>1, <3>2, <3>3, StillUnspent DEF Keyed
    <3>4. CASE k = a /\ saved'[a] \in {saved[a], NoData} /\ (Keyed(a)' => Keyed(a))
      BY <1>3, <1>6, <2>1, <3>2, <3>4, StillUnspent
    <3>5. CASE k = a /\ saved'[a] = data'[a] /\ Keyed(a)
      BY <1>3, <1>6, <2>1, <3>2, <3>5, StillUnspent
    <3>6. CASE /\ k = a /\ saved'[a] = data'[a]
               /\ f.cmd = "ROOM.INVITE.VERIFICATION_RESPONSE" /\ Opens(a, f)
      <4>1. f.key = a /\ f.body.token = data[a].invite
        BY <1>2, <3>6, OpeningAnswer
      <4>2. data'[a].invite # i
        BY <1>6, <3>2, <3>6, <4>1 DEF Harmless, Gives
      <4> QED
        BY <2>1, <3>2, <3>6, <4>2, StillUnspent
    <3> QED
      BY <1>6, <3>3, <3>4, <3>5, <3>6
  <2> QED
    BY <1>3, <1>6, <2>1, SpentStays
<1>7. CASE OnRoomCreated(a, f) \/ OnRoomOpened(a, f)
  <2>1. /\ UNCHANGED <<issued, up, cipher>> /\ TakeDown(a)
        /\ data' = data \/ data' = [data EXCEPT ![a].name = f.room]
        /\ saved' = [saved EXCEPT ![a] = data'[a]]
        /\ f.cmd \in {"ROOM.CREATED", "ROOM.OPENED"}
    BY <1>7 DEF OnRoomCreated, OnRoomOpened, Receives, usageVars, Save
  <2>2. f \in Replies(a)
    BY <1>2, <2>1, FrameIsKnown DEF ReplyCommands
  <2>3. Keyed(a) /\ (f.cmd = "ROOM.CREATED" => f.room \in Rooms)
    BY <1>2, <1>3, <2>1, <2>2 DEF Replies, Creating, Reopening, ClientOK, OriginOK
  <2>4. data' = data \/ f.room \in Rooms
    BY <1>7, <2>3 DEF OnRoomCreated, OnRoomOpened, Receives
  <2>5. PICK old \in Datas : old = data[a]
    BY <1>3
  <2>6. PICK d : d = [old EXCEPT !.name = f.room]
    OBVIOUS
  <2>7. f.room \in Rooms => d \in Datas /\ d.invite = old.invite /\ d.invites = old.invites
    BY <2>5, <2>6 DEF Datas
  <2>8. /\ data' \in [Keys -> Datas \cup {NoData}] /\ data'[a] \in Datas
        /\ data'[a].invite = data[a].invite /\ data'[a].invites = data[a].invites
        /\ saved'[a] = data'[a]
        /\ \A l \in Keys : l # a => data'[l] = data[l] /\ saved'[l] = saved[l]
    BY <1>2, <1>3, <2>1, <2>4, <2>5, <2>6, <2>7 DEF TypeOK
  <2> QED
    BY <1>6, <2>1, <2>3, <2>8, NullsOK
<1>8. CASE OnRoomNotExist(a, f) \/ OnDeclined(a, f)
  <2>1. /\ UNCHANGED <<issued, up, cipher, data>> /\ TakeDown(a)
        /\ saved' = saved \/ saved' = [saved EXCEPT ![a] = NoData]
    BY <1>8 DEF OnRoomNotExist, OnDeclined, Receives, usageVars
  <2>2. /\ saved'[a] \in {saved[a], NoData} /\ (Keyed(a)' => Keyed(a))
        /\ \A l \in Keys : l # a => saved'[l] = saved[l]
    BY <1>2, <2>1 DEF TypeOK, Keyed
  <2> QED
    BY <1>2, <1>3, <1>6, <2>1, <2>2 DEF TypeOK
<1>9. CASE OnVerificationResponse(a, f)
  <2>1. /\ UNCHANGED <<issued, up>> /\ TakeDown(a)
        /\ f.cmd = "ROOM.INVITE.VERIFICATION_RESPONSE"
        /\ IF Opens(a, f)
           THEN /\ data' = [data EXCEPT ![a].roomKey = f.body.content]
                /\ cipher' = [cipher EXCEPT ![a] = f.body.content]
                /\ saved' = [saved EXCEPT ![a] = data'[a]]
           ELSE UNCHANGED <<data, cipher, saved>>
    BY <1>9 DEF OnVerificationResponse, Opens, Receives, usageVars, Save
  <2>2. CASE ~Opens(a, f)
    BY <1>2, <1>3, <1>6, <2>1, <2>2 DEF TypeOK, Keyed
  <2>3. CASE Opens(a, f)
    <3>1. f.body.content \in RoomKeys
      BY <1>2, <2>1, FrameIsKnown DEF Answers
    <3>2. PICK old \in Datas : old = data[a]
      BY <1>3
    <3>3. PICK d : d = [old EXCEPT !.roomKey = f.body.content]
      OBVIOUS
    <3>4. d \in Datas /\ d.invite = old.invite /\ d.invites = old.invites
      BY <3>1, <3>2, <3>3 DEF Datas
    <3>5. /\ data' \in [Keys -> Datas \cup {NoData}] /\ data'[a] = d /\ saved'[a] = d
          /\ \A l \in Keys : l # a =>
                data'[l] = data[l] /\ saved'[l] = saved[l] /\ cipher'[l] = cipher[l]
      BY <1>2, <1>3, <2>1, <2>3, <3>2, <3>3, <3>4 DEF TypeOK
    <3> QED
      BY <1>6, <2>1, <2>3, <3>2, <3>4, <3>5, NullsOK
  <2> QED
    BY <2>2, <2>3
<1>10. CASE OnKeyRotate(a, f)
  <2>1. /\ UNCHANGED <<issued, up, saved>> /\ TakeDown(a)
        /\ f.cmd = "ROOM.MESSAGE.KEY.ROTATE"
        /\ IF Readable(a, f)
           THEN /\ data' = [data EXCEPT ![a].roomKey = f.body.content]
                /\ cipher' = [cipher EXCEPT ![a] = f.body.content]
           ELSE UNCHANGED <<data, cipher>>
    BY <1>10 DEF OnKeyRotate, Receives, usageVars
  <2>2. CASE ~Readable(a, f)
    BY <1>2, <1>3, <1>6, <2>1, <2>2 DEF TypeOK, Keyed
  <2>3. CASE Readable(a, f)
    <3>1. f \in Posts /\ Keyed(a)
      BY <1>2, <2>1, <2>3, ReadableIsOwners
    <3>2. f.body.content \in RoomKeys
      BY <2>1, <3>1 DEF Posts
    <3>3. PICK old \in Datas : old = data[a]
      BY <1>3
    <3>4. PICK d : d = [old EXCEPT !.roomKey = f.body.content]
      OBVIOUS
    <3>5. d \in Datas /\ d.invite = old.invite /\ d.invites = old.invites
      BY <3>2, <3>3, <3>4 DEF Datas
    <3>6. /\ data' \in [Keys -> Datas \cup {NoData}] /\ data'[a] = d
          /\ \A l \in Keys : l # a => data'[l] = data[l] /\ cipher'[l] = cipher[l]
      BY <1>2, <1>3, <2>1, <2>3, <3>3, <3>4, <3>5 DEF TypeOK
    <3> QED
      BY <1>6, <2>1, <3>1, <3>3, <3>5, <3>6, NullsOK
  <2> QED
    BY <2>2, <2>3
<1>11. CASE OnMessage(a, f)
  <2>1. /\ UNCHANGED <<issued, saved>> /\ TakeDown(a) /\ f.cmd = "ROOM.MESSAGE"
        /\ IF ~Readable(a, f) THEN UNCHANGED <<up, data, cipher, draws>>
           ELSE IF RotationDue(a) THEN RotateKey(a)
           ELSE CountMessage(a)
    BY <1>11 DEF OnMessage, usageVars
  <2>2. PICK old \in Datas : old = data[a]
    BY <1>3
  <2>3. CASE ~Readable(a, f)
    BY <1>2, <1>3, <1>6, <2>1, <2>3 DEF TypeOK, Keyed
  <2>4. CASE Readable(a, f) /\ RotationDue(a)
    <3>1. Keyed(a) /\ old.name \in Rooms /\ cipher[a] \in RoomKeys
      BY <1>2, <2>1, <2>2, <2>4, ReadableIsOwners
    <3>2. PICK key \in RoomKeys : key = RoomKey(a, draws[a] + 1)
      <4>1. RoomKey(a, draws[a] + 1) \in RoomKeys
        BY DEF Inv, ServerTypes, RoomKey, RoomKeys
      <4> QED
        BY <4>1
    <3>3. PICK g : g = MessageKeyRotate(old.name, Seal(cipher[a], NoInvite, key))
      OBVIOUS
    <3>4. /\ Submit(conn[a], g)
          /\ data' = [data EXCEPT ![a].roomKey = key, ![a].messageCount = 0]
          /\ cipher' = [cipher EXCEPT ![a] = key]
      BY <2>1, <2>2, <2>4, <3>2, <3>3 DEF RotateKey
    <3>5. g \in Frames /\ g.cmd = "ROOM.MESSAGE.KEY.ROTATE"
      BY <3>1, <3>3 DEF Frames, Commands, Seals, MessageKeyRotate, Frame, Seal
    <3>6. PICK d : d = [old EXCEPT !.roomKey = key, !.messageCount = 0]
      OBVIOUS
    <3>7. d \in Datas /\ d.invite = old.invite /\ d.invites = old.invites
      <4>1. 0 \in Null .. KeyRotationLimit - 1
        BY ConstantsOK DEF Null
      <4> QED
        BY <3>6, <4>1 DEF Datas
    <3>8. /\ data' \in [Keys -> Datas \cup {NoData}] /\ data'[a] = d
          /\ \A l \in Keys : l # a => data'[l] = data[l] /\ cipher'[l] = cipher[l]
      BY <1>2, <1>3, <2>2, <3>4, <3>6, <3>7 DEF TypeOK
    <3> QED
      BY <1>6, <2>1, <2>2, <3>1, <3>4, <3>5, <3>7, <3>8, NullsOK
  <2>5. CASE Readable(a, f) /\ ~RotationDue(a)
    <3>1. UNCHANGED <<up, cipher>>
      BY <2>1, <2>5 DEF CountMessage
    <3>2. PICK d : d = IF old.messageCount # Null
                       THEN [old EXCEPT !.messageCount = @ + 1] ELSE old
      OBVIOUS
    <3>3. d \in Datas /\ d.invite = old.invite /\ d.invites = old.invites
      <4>1. old.messageCount # Null => old.messageCount + 1 \in Null .. KeyRotationLimit - 1
        BY <2>2, <2>5, ConstantsOK DEF RotationDue, Datas, Null
      <4> QED
        BY <3>2, <4>1 DEF Datas
    <3>4. /\ data' \in [Keys -> Datas \cup {NoData}] /\ data'[a] = d
          /\ \A l \in Keys : l # a => data'[l] = data[l]
      BY <1>2, <1>3, <2>1, <2>2, <2>5, <3>2, <3>3 DEF TypeOK, CountMessage
    <3>5. Keyed(a)' => Keyed(a)
      BY <3>1 DEF Keyed
    <3> QED
      BY <1>6, <2>1, <2>2, <3>1, <3>3, <3>4, <3>5, NullsOK
  <2> QED
    BY <2>3, <2>4, <2>5
<1> QED
  BY <1>1, <1>4, <1>5, <1>7, <1>8, <1>9, <1>10, <1>11 DEF OnReceive

LEMMA OthersKeepSpent ==
    ASSUME Inv, SpentOK,
           (\E c \in Conns : Serve(c)) \/ RestartServer \/ UNCHANGED vars
    PROVE  SpentOK'
<1>1. UNCHANGED <<data, cipher, saved, issued>>
  BY DEF Serve, RestartServer, vars, roomVars, usageVars
<1>2. ASSUME NEW k \in Keys, NEW i \in Invites, Unspent(k, i)
      PROVE  Unspent(k, i)'
  <2>1. CASE \E c \in Conns : Serve(c)
    BY <1>2, <2>1, ServeUnspent
  <2>2. CASE RestartServer
    <3>1. WireUnspent(k, i)'
      BY <2>2, EmptySeq DEF RestartServer, Restart, WireUnspent
    <3> QED
      BY <1>1, <1>2, <3>1, StillUnspent DEF Keyed
  <2>3. CASE UNCHANGED vars
    <3>1. WireUnspent(k, i)'
      BY <1>2, <2>3 DEF Unspent, WireUnspent, vars, wireVars
    <3> QED
      BY <1>1, <1>2, <3>1, StillUnspent DEF Keyed
  <2> QED
    BY <2>1, <2>2, <2>3
<1> QED
  BY <1>1, <1>2, SpentStays

LEMMA NextKeepsSpent == Inv /\ SpentOK /\ [Next]_vars => SpentOK'
<1> SUFFICES ASSUME Inv, SpentOK, [Next]_vars
             PROVE  SpentOK'
  OBVIOUS
<1>1. ASSUME NEW k \in Keys, UserStep(k)
      PROVE  SpentOK'
  <2>1. CASE \E c \in Conns : NewRoomOf(k, c)
    BY <2>1, NewRoomOfKeepsSpent
  <2>2. CASE \E c \in Conns, i \in Invites : OpenByInvite(k, c, i)
    BY <2>2, OpenByInviteKeepsSpent
  <2>3. CASE \E c \in Conns : OpenExisting(k, c)
    BY <2>3, OpenExistingKeepsSpent
  <2>4. CASE Leave(k)
    BY <2>4, ForgetKeepsSpent DEF Leave
  <2>5. CASE \E i \in Invites : GenerateInvite(k, i)
    BY <2>5, GenerateInviteKeepsSpent
  <2>6. CASE \E t \in Texts : SendMessage(k, t)
    BY <2>6, SendMessageKeepsSpent
  <2> QED
    BY <1>1, <2>1, <2>2, <2>3, <2>4, <2>5, <2>6 DEF UserStep
<1>2. ASSUME NEW k \in Keys, OnReceive(k)
      PROVE  SpentOK'
  BY <1>2, ReceiveKeepsSpent
<1> QED
  BY <1>1, <1>2, OthersKeepSpent DEF Next

LEMMA InitHasSpent == Init => SpentOK
<1> SUFFICES ASSUME Init
             PROVE  SpentOK
  OBVIOUS
<1>1. ASSUME NEW k \in Keys, NEW i \in Invites
      PROVE  Unspent(k, i)
  BY EmptySeq DEF Init, WireInit, Unspent, WireUnspent
<1> QED
  BY <1>1 DEF SpentOK

(* An invitation gives the room key to at most one key pair, whoever else  *)
(* presents it, whenever, and however often connections break, rooms are   *)
(* opened again or the server restarts (secure_chat_room.hpp:155-191;      *)
(* README.md:13).                                                          *)
THEOREM InvitationsOpenOnce == Spec => []InviteOpensOnce
<1>1. Spec => []SpentOK
  BY InitHasSpent, NextKeepsSpent, ConversationsHold, PTL DEF Spec
<1>2. Inv /\ SpentOK => InviteOpensOnce
  <2> SUFFICES ASSUME Inv, SpentOK, NEW k \in Keys, NEW l \in Keys, k # l,
                      Keyed(k), Keyed(l), data[k].invite # NoInvite,
                      data[k].invite = data[l].invite
               PROVE  FALSE
    BY DEF InviteOpensOnce
  <2>1. data[k] # NoData /\ data[l] # NoData
    BY DEF Inv, ClientOK
  <2>2. data[k].invite \in Invites
    BY <2>1 DEF Inv, TypeOK, Datas
  <2>3. ~Unspent(k, data[k].invite) /\ ~Unspent(l, data[k].invite)
    BY <2>1 DEF Unspent
  <2> QED
    BY <2>2, <2>3 DEF SpentOK
<1> QED
  BY <1>1, <1>2, ConversationsHold, PTL
=============================================================================
