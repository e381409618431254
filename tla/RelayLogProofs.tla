--------------------------- MODULE RelayLogProofs ---------------------------
(***************************************************************************)
(* Theorems about RelayLog: for any sets of keys, rooms, connections and   *)
(* bodies, what the relay keeps is well typed; no route it keeps leads to  *)
(* a connection whose handler has ended; it relays among members only;     *)
(* others' frames wait only for who is away; what a room keeps for new     *)
(* members is its log since the last rotation; and nobody is relayed a     *)
(* frame twice.                                                            *)
(***************************************************************************)
EXTENDS RelayLog, SequenceTheorems, TLAPS

(* The frames of the clients and of the server are frames.                 *)
LEMMA ClientFrames ==
    /\ \A k \in Keys : PublicKey(k) \in Frames
    /\ NewRoom \in Frames
    /\ \A r \in Rooms : OpenRoom(r) \in Frames
    /\ \A o, k \in Keys, r \in Rooms :
          /\ Invite(o, r, k, NoBody) \in Frames
          /\ InviteResponse(k, r, o, NoBody) \in Frames
    /\ \A r \in Rooms, b \in Bodies :
          /\ Message(r, b) \in Frames
          /\ MessageKeyRotate(r, b) \in Frames
  BY DEF Frames, WellFormed, Commands, Posted, Verification, Frame, PublicKey,
         NewRoom, OpenRoom, Invite, InviteResponse, Message, MessageKeyRotate

LEMMA ServerFrames ==
    /\ \A r \in Rooms : RoomCreated(r) \in Frames
    /\ OpenedRoom \in Frames
    /\ \A r \in Rooms : ErrorRoom(r) \in Frames
    /\ \A k \in Keys : InvalidInvite(k) \in Frames
    /\ \A r \in Rooms : MessageError(r) \in Frames
  BY DEF Frames, WellFormed, Commands, Posted, Verification, Frame, RoomCreated,
         OpenedRoom, ErrorRoom, InvalidInvite, MessageError

(* What the server sends leaves the queues towards the clients well typed. *)
LEMMA SendDownType ==
    ASSUME link \in [Conns -> LinkStates], down \in [Conns -> Seq(Frames)],
           NEW fs, \A c \in Conns : fs[c] \in Seq(Frames), SendDown(fs)
    PROVE  down' \in [Conns -> Seq(Frames)]
<1>1. \A c \in Conns : down[c] \o fs[c] \in Seq(Frames)
  BY ConcatProperties
<1> QED
  BY <1>1 DEF SendDown

LEMMA SendToType ==
    ASSUME link \in [Conns -> LinkStates], down \in [Conns -> Seq(Frames)],
           NEW d, NEW fs \in Seq(Frames), SendTo(d, fs)
    PROVE  down' \in [Conns -> Seq(Frames)]
<1> DEFINE sent == [x \in Conns |-> IF x = d THEN fs ELSE << >>]
<1>1. << >> \in Seq(Frames)
  BY EmptySeq
<1>2. \A c \in Conns : sent[c] \in Seq(Frames)
  BY <1>1
<1>3. SendDown(sent)
  BY DEF SendTo
<1> HIDE DEF sent
<1> QED
  BY <1>2, <1>3, SendDownType

(* The request a handler takes is a frame, and the rest stay frames.       *)
LEMMA TakeUpType ==
    ASSUME up \in [Conns -> Seq(Frames)], NEW c \in Conns, up[c] # << >>, TakeUp(c)
    PROVE  /\ Head(up[c]) \in Frames
           /\ up' \in [Conns -> Seq(Frames)]
<1>1. Head(up[c]) \in Frames /\ Tail(up[c]) \in Seq(Frames)
  BY HeadTailProperties
<1> QED
  BY <1>1 DEF TakeUp

LEMMA FanOutType ==
    ASSUME TypeOK, NEW r \in Rooms, NEW k \in Keys, NEW f \in Frames, FanOut(r, k, f)
    PROVE  /\ down' \in [Conns -> Seq(Frames)]
           /\ history' \in [Keys -> Seq(Frames)]
<1> DEFINE sent == [c \in Conns |->
                      IF \E u \in Present(r, k) : online[u] = c THEN <<f>> ELSE << >>]
<1>1. << >> \in Seq(Frames) /\ <<f>> \in Seq(Frames)
  BY EmptySeq
<1>2. \A c \in Conns : sent[c] \in Seq(Frames)
  BY <1>1
<1>3. SendDown(sent)
  BY DEF FanOut
<1>4. down' \in [Conns -> Seq(Frames)]
  <2> HIDE DEF sent
  <2> QED
    BY <1>2, <1>3, SendDownType DEF TypeOK
<1>5. \A u \in Keys : Append(history[u], f) \in Seq(Frames)
  BY AppendProperties DEF TypeOK
<1>6. history' \in [Keys -> Seq(Frames)]
  BY <1>5 DEF FanOut, TypeOK
<1> QED
  BY <1>4, <1>6

LEMMA RelayedType ==
    ASSUME TypeOK, NEW r \in Rooms, NEW k \in Keys, NEW f \in Frames, Relayed(r, k, f)
    PROVE  /\ log' \in [Rooms -> Seq(Frames)]
           /\ handed' \in [Keys -> Seq(Frames)]
<1>1. Append(log[r], f) \in Seq(Frames)
  BY AppendProperties DEF TypeOK
<1>2. \A u \in Keys : Append(handed[u], f) \in Seq(Frames)
  BY AppendProperties DEF TypeOK
<1> QED
  BY <1>1, <1>2 DEF Relayed, TypeOK

-----------------------------------------------------------------------------
(* Type correctness, one lemma per action.                                 *)

USE DEF LinkStates

LEMMA ConnectType ==
    ASSUME TypeOK, NEW k \in Keys, NEW c \in Conns, NEW first \in Frames,
           Connect(k, c, first)
    PROVE  TypeOK'
<1>1. <<PublicKey(k), first>> \in Seq(Frames)
  BY ClientFrames
<1>2. up' \in [Conns -> Seq(Frames)]
  BY <1>1 DEF Connect, OpenLink, TypeOK
<1> QED
  BY <1>2 DEF Connect, OpenLink, serverVars, logVars, TypeOK

LEMMA PostType ==
    ASSUME TypeOK, NEW c \in Conns, PostAny(c)
    PROVE  TypeOK'
<1>1. PICK r \in Rooms, b \in Bodies :
        Post(c, b, Message(r, b)) \/ Post(c, b, MessageKeyRotate(r, b))
  BY DEF PostAny
<1>2. PICK f \in Frames : Post(c, b, f)
  BY <1>1, ClientFrames
<1>3. Append(up[c], f) \in Seq(Frames)
  BY AppendProperties DEF TypeOK
<1>4. up' \in [Conns -> Seq(Frames)]
  BY <1>2, <1>3 DEF Post, Send, TypeOK
<1>5. author' \in [Bodies -> Keys \cup {NoKey}]
  BY <1>2 DEF Post, TypeOK
<1> QED
  BY <1>2, <1>4, <1>5 DEF Post, Send, serverVars, clientVars, TypeOK

LEMMA ReceiveType ==
    ASSUME TypeOK, NEW c \in Conns, Receive(c)
    PROVE  TypeOK'
<1> DEFINE f == Head(down[c])
           answer == InviteResponse(f.from, f.room, f.key, NoBody)
<1>1. f \in Frames /\ Tail(down[c]) \in Seq(Frames)
  BY HeadTailProperties DEF Receive, TypeOK
<1>2. down' \in [Conns -> Seq(Frames)]
  BY <1>1 DEF Receive, TypeOK
<1>3. CASE f.cmd = "ROOM.INVITE.VERIFICATION_REQUEST"
  <2>1. answer \in Frames
    BY <1>1, <1>3, ClientFrames DEF Frames, WellFormed, Verification
  <2>2. Append(up[c], answer) \in Seq(Frames)
    <3> HIDE DEF answer
    <3> QED
      BY <2>1, AppendProperties DEF TypeOK
  <2>3. Send(c, answer)
    BY <1>3 DEF Receive
  <2>4. up' \in [Conns -> Seq(Frames)]
    BY <2>2, <2>3 DEF Send, TypeOK
  <2> QED
    BY <1>2, <2>3, <2>4 DEF Receive, Send, serverVars, clientVars, TypeOK
<1>4. CASE f.cmd # "ROOM.INVITE.VERIFICATION_REQUEST"
  BY <1>2, <1>4 DEF Receive, serverVars, clientVars, TypeOK
<1> QED
  BY <1>3, <1>4

LEMMA LeaveType ==
    ASSUME TypeOK, NEW c \in Conns, Leave(c)
    PROVE  TypeOK'
<1>1. PICK n \in 0 .. Len(up[c]) : Disconnect(c, n)
  BY DEF Leave
<1>2. /\ SubSeq(up[c], 1, n) \in Seq(Frames)
      /\ << >> \in Seq(Frames)
  <2>1. Len(up[c]) \in Nat /\ \A i \in 1 .. Len(up[c]) : up[c][i] \in Frames
    BY LenProperties, ElementOfSeq DEF TypeOK
  <2> QED
    BY <2>1, SubSeqProperties, EmptySeq
<1>3. up' \in [Conns -> Seq(Frames)] /\ down' \in [Conns -> Seq(Frames)]
  BY <1>1, <1>2 DEF Disconnect, TypeOK
<1> QED
  BY <1>1, <1>3 DEF Leave, Disconnect, serverVars, logVars, TypeOK

(* A frame answered or refused by the server changes none of the records.  *)
LEMMA AnswerType ==
    ASSUME TypeOK, NEW c \in Conns, up[c] # << >>, NEW f, f = Head(up[c]),
           AnswerFrame(c, f), UNCHANGED <<log, handed, clientVars, author>>
    PROVE  TypeOK'
<1>1. TakeUp(c) /\ UNCHANGED link
  BY DEF AnswerFrame, HandleNewRoom, HandleInvite, DeclineInvite,
         DropInviteResponse, HandleOpenRoom, RefuseMessage, RefuseKeyRotate,
         KeyedRequest, Request
<1>2. f \in Frames /\ up' \in [Conns -> Seq(Frames)]
  BY <1>1, TakeUpType DEF TypeOK
<1>3. \A d, g : g \in Frames /\ SendTo(d, <<g>>) => down' \in [Conns -> Seq(Frames)]
  <2>1. \A g \in Frames : <<g>> \in Seq(Frames)
    OBVIOUS
  <2> QED
    BY <2>1, SendToType DEF TypeOK
<1>4. ASSUME NEW r \in Rooms, HandleNewRoom(c, f, r)
      PROVE  TypeOK'
  <2>1. pubKey[c] \in Keys
    BY <1>4 DEF HandleNewRoom, KeyedRequest, TypeOK
  <2>2. down' \in [Conns -> Seq(Frames)]
    BY <1>3, <1>4, ServerFrames DEF HandleNewRoom
  <2> QED
    BY <1>1, <1>2, <1>4, <2>1, <2>2 DEF HandleNewRoom, clientVars, TypeOK
<1>5. CASE \/ HandleInvite(c, f) \/ DeclineInvite(c, f) \/ DropInviteResponse(c, f)
           \/ HandleOpenRoom(c, f) \/ RefuseMessage(c, f) \/ RefuseKeyRotate(c, f)
  <2>1. down' \in [Conns -> Seq(Frames)]
    <3>1. CASE HandleInvite(c, f)
      BY <1>2, <1>3, <3>1 DEF HandleInvite
    <3>2. CASE DeclineInvite(c, f)
      <4>1. f.key \in Keys
        BY <1>2, <3>2 DEF DeclineInvite, KeyedRequest, Request, Frames, WellFormed,
                          Verification
      <4> QED
        BY <1>3, <3>2, <4>1, ServerFrames DEF DeclineInvite
    <3>3. CASE DropInviteResponse(c, f)
      BY <3>3 DEF DropInviteResponse, TypeOK
    <3>4. CASE HandleOpenRoom(c, f)
      <4>1. f.room \in Rooms
        BY <1>2, <3>4 DEF HandleOpenRoom, KeyedRequest, Request, Frames, WellFormed
      <4> QED
        BY <1>3, <3>4, <4>1, ServerFrames DEF HandleOpenRoom
    <3>5. CASE RefuseMessage(c, f) \/ RefuseKeyRotate(c, f)
      <4>1. f.room \in Rooms
        BY <1>2, <3>5 DEF RefuseMessage, RefuseKeyRotate, KeyedRequest, Request,
                          Frames, WellFormed, Posted
      <4> QED
        BY <1>3, <3>5, <4>1, ServerFrames DEF RefuseMessage, RefuseKeyRotate, Refuse
    <3> QED
      BY <1>5, <3>1, <3>2, <3>3, <3>4, <3>5
  <2>2. UNCHANGED serverVars
    BY <1>5 DEF HandleInvite, DeclineInvite, DropInviteResponse, HandleOpenRoom,
                RefuseMessage, RefuseKeyRotate, Refuse
  <2> QED
    BY <1>1, <1>2, <2>1, <2>2 DEF serverVars, clientVars, TypeOK
<1> QED
  BY <1>4, <1>5 DEF AnswerFrame

(* A frame relayed, or a backlog or history handed over.                   *)
LEMMA RelayType ==
    ASSUME TypeOK, NEW c \in Conns, up[c] # << >>, NEW f, f = Head(up[c]),
           RelayFrame(c, f), UNCHANGED <<clientVars, author>>
    PROVE  TypeOK'
<1>1. TakeUp(c) /\ UNCHANGED link
  BY DEF RelayFrame, HandleMessage, HandleKeyRotate, HandleInviteResponse,
         HandlePublicKey, KeyedRequest, Request
<1>2. f \in Frames /\ up' \in [Conns -> Seq(Frames)]
  BY <1>1, TakeUpType DEF TypeOK
<1>3. CASE (HandleMessage(c, f) \/ HandleKeyRotate(c, f)) /\ Relayed(f.room, pubKey[c], f)
  <2>1. f.room \in Rooms /\ pubKey[c] \in Keys
    BY <1>2, <1>3 DEF HandleMessage, HandleKeyRotate, KeyedRequest, Request, Frames,
                      WellFormed, Posted, TypeOK
  <2>2. down' \in [Conns -> Seq(Frames)] /\ history' \in [Keys -> Seq(Frames)]
    BY <1>2, <1>3, <2>1, FanOutType DEF HandleMessage, HandleKeyRotate
  <2>3. log' \in [Rooms -> Seq(Frames)] /\ handed' \in [Keys -> Seq(Frames)]
    BY <1>2, <1>3, <2>1, RelayedType
  <2>4. Append(roomsHistory[f.room], f) \in Seq(Frames) /\ <<f>> \in Seq(Frames)
    BY <1>2, <2>1, AppendProperties DEF TypeOK
  <2>5. roomsHistory' \in [Rooms -> Seq(Frames)]
    BY <1>3, <2>4 DEF HandleMessage, HandleKeyRotate, TypeOK
  <2>6. UNCHANGED <<owner, users, online, pubKey>>
    BY <1>3 DEF HandleMessage, HandleKeyRotate
  <2> QED
    BY <1>1, <1>2, <2>2, <2>3, <2>5, <2>6 DEF clientVars, TypeOK
<1>4. CASE HandleInviteResponse(c, f) /\ Hand(f.key, roomsHistory[f.room])
  <2>1. f.room \in Rooms /\ f.key \in Keys
    BY <1>2, <1>4 DEF HandleInviteResponse, KeyedRequest, Request, Frames, WellFormed,
                      Verification
  <2>2. <<f>> \o roomsHistory[f.room] \in Seq(Frames)
    <3>1. <<f>> \in Seq(Frames) /\ roomsHistory[f.room] \in Seq(Frames)
      BY <1>2, <2>1 DEF TypeOK
    <3> QED
      BY <3>1, ConcatProperties
  <2>3. down' \in [Conns -> Seq(Frames)]
    BY <1>4, <2>2, SendToType DEF HandleInviteResponse, TypeOK
  <2>4. handed[f.key] \o roomsHistory[f.room] \in Seq(Frames)
    BY <2>1, ConcatProperties DEF TypeOK
  <2>5. handed' \in [Keys -> Seq(Frames)]
    BY <1>4, <2>4 DEF Hand, TypeOK
  <2>6. users' \in [Rooms -> SUBSET Keys]
    BY <1>4, <2>1 DEF HandleInviteResponse, TypeOK
  <2> QED
    BY <1>1, <1>2, <1>4, <2>3, <2>5, <2>6 DEF HandleInviteResponse, Hand, clientVars, TypeOK
<1>5. CASE HandlePublicKey(c, f) /\ Hand(f.key, history[f.key])
  <2>1. f.key \in Keys
    BY <1>2, <1>5 DEF HandlePublicKey, Request, Frames, WellFormed, Verification
  <2>2. history[f.key] \in Seq(Frames) /\ << >> \in Seq(Frames)
    BY <2>1, EmptySeq DEF TypeOK
  <2>3. down' \in [Conns -> Seq(Frames)]
    BY <1>5, <2>2, SendToType DEF HandlePublicKey, TypeOK
  <2>4. handed[f.key] \o history[f.key] \in Seq(Frames)
    BY <2>1, ConcatProperties DEF TypeOK
  <2>5. handed' \in [Keys -> Seq(Frames)] /\ history' \in [Keys -> Seq(Frames)]
    BY <1>5, <2>2, <2>4 DEF HandlePublicKey, Hand, TypeOK
  <2>6. /\ pubKey' \in [Conns -> Keys \cup {NoKey}]
        /\ online' \in [Keys -> Conns \cup {NoConn}]
    BY <1>5, <2>1 DEF HandlePublicKey, TypeOK
  <2> QED
    BY <1>1, <1>2, <1>5, <2>3, <2>5, <2>6 DEF HandlePublicKey, Hand, clientVars, TypeOK
<1> QED
  BY <1>3, <1>4, <1>5 DEF RelayFrame

LEMMA ServeType ==
    ASSUME TypeOK, NEW c \in Conns, Serve(c)
    PROVE  TypeOK'
<1>1. CASE HandleClose(c) /\ UNCHANGED <<clientVars, logVars>>
  BY <1>1 DEF HandleClose, FreeLink, clientVars, logVars, TypeOK
<1>2. CASE up[c] # << >> /\ RelayFrame(c, Head(up[c])) /\ UNCHANGED <<clientVars, author>>
  BY <1>2, RelayType
<1>3. CASE /\ up[c] # << >>
           /\ AnswerFrame(c, Head(up[c]))
           /\ UNCHANGED <<log, handed, clientVars, author>>
  BY <1>3, AnswerType
<1> QED
  BY <1>1, <1>2, <1>3 DEF Serve

LEMMA NextType ==
    ASSUME TypeOK, [Next]_vars
    PROVE  TypeOK'
<1>1. ASSUME NEW k \in Keys, NEW c \in Conns, FirstConnect(k, c) \/ Reconnect(k, c)
      PROVE  TypeOK'
  <2>1. PICK first \in Frames : Connect(k, c, first)
    BY <1>1, ClientFrames DEF FirstConnect, Reconnect
  <2> QED
    BY <2>1, ConnectType
<1>2. CASE UNCHANGED vars
  BY <1>2 DEF vars, wireVars, serverVars, clientVars, logVars, TypeOK
<1> QED
  BY <1>1, <1>2, PostType, ReceiveType, LeaveType, ServeType DEF Next

LEMMA InitType == Init => TypeOK
<1>1. << >> \in Seq(Frames)
  BY EmptySeq
<1> QED
  BY <1>1 DEF Init, WireInit, ServerInit, TypeOK

(* Whatever clients do, everything the relay keeps or sends is a frame of  *)
(* the protocol addressed the way the handlers of server.py rely on.       *)
THEOREM TypeCorrect == Spec => []TypeOK
  BY InitType, NextType, PTL DEF Spec

-----------------------------------------------------------------------------
(* A connection speaks for one key: one lemma per action.                  *)

(* The speaker is a key, so a body with an author is not a fresh one.      *)
LEMMA SpeakerIsKey ==
    ASSUME TypeOK, SpeakersOK, NEW c \in Conns,
           pubKey[c] # NoKey \/ up[c] # << >>
    PROVE  Speaker(c) \in Keys
<1>1. CASE pubKey[c] # NoKey
  BY <1>1 DEF Speaker, TypeOK
<1>2. CASE pubKey[c] = NoKey /\ up[c] # << >>
  <2>1. 1 \in DOMAIN up[c] /\ up[c][1] \in Frames
    BY <1>2, EmptySeq, LenProperties, ElementOfSeq DEF TypeOK
  <2>2. up[c][1].cmd = "PUBKEY"
    BY <1>2, <2>1 DEF SpeakersOK, SpeaksForOne
  <2> QED
    BY <1>2, <2>1, <2>2 DEF Speaker, Frames, WellFormed
<1> QED
  BY <1>1, <1>2

LEMMA ConnectSpeakers ==
    ASSUME TypeOK, SpeakersOK, NEW k \in Keys, NEW c \in Conns, NEW first \in Frames,
           first.cmd \notin Posted \cup {"PUBKEY"}, Connect(k, c, first)
    PROVE  SpeakersOK'
<1>1. /\ link[c] = "free" /\ pubKey[c] = NoKey /\ pubKey' = pubKey
      /\ link'[c] = "open" /\ peer'[c] = k /\ author' = author
      /\ up'[c] = <<PublicKey(k), first>>
  BY DEF Connect, OpenLink, serverVars, logVars, SpeakersOK, SpeaksForOne, TypeOK
<1>2. PublicKey(k).cmd = "PUBKEY" /\ PublicKey(k).key = k
  BY DEF PublicKey, Frame
<1>3. SpeaksForOne(c)'
  BY <1>1, <1>2, ConstantsOK DEF SpeaksForOne, Speaker, Posted
<1>4. ASSUME NEW d \in Conns, d # c
      PROVE  SpeaksForOne(d)'
  BY <1>1, <1>4 DEF Connect, OpenLink, serverVars, logVars, SpeakersOK, SpeaksForOne,
                    Speaker, TypeOK
<1> QED
  BY <1>3, <1>4 DEF SpeakersOK

(* A client adds a request to what it sent; a body's author, if it had     *)
(* one, stays.                                                             *)
LEMMA AppendSpeakers ==
    ASSUME TypeOK, SpeakersOK, NEW c \in Conns, NEW f \in Frames, f.cmd # "PUBKEY",
           Send(c, f),
           \A b \in Bodies : author[b] # NoKey => author'[b] = author[b],
           f.cmd \in Posted => author'[f.body] = peer[c]
    PROVE  SpeakersOK'
<1>1. /\ link[c] = "open" /\ link' = link /\ pubKey' = pubKey /\ peer' = peer
      /\ up'[c] = Append(up[c], f)
      /\ \A d \in Conns : d # c => up'[d] = up[d]
  BY DEF Send, serverVars, clientVars, TypeOK
<1>2. ASSUME NEW d \in Conns, NEW i \in DOMAIN up[d], up[d][i].cmd \in Posted
      PROVE  author'[up[d][i].body] = Speaker(d)
  <2>1. up[d][i] \in Frames /\ up[d] # << >>
    BY ElementOfSeq, LenProperties, EmptySeq DEF TypeOK
  <2>2. author[up[d][i].body] = Speaker(d) /\ Speaker(d) \in Keys
    BY <1>2, <2>1, SpeakerIsKey DEF SpeakersOK, SpeaksForOne
  <2> QED
    BY <1>2, <2>1, <2>2, ConstantsOK DEF Frames, WellFormed
<1>3. /\ Len(up[c]) \in Nat
      /\ DOMAIN up[c] = 1 .. Len(up[c])
      /\ DOMAIN Append(up[c], f) = 1 .. Len(up[c]) + 1
      /\ \A i \in 1 .. Len(up[c]) : Append(up[c], f)[i] = up[c][i]
      /\ Append(up[c], f)[Len(up[c]) + 1] = f
      /\ up[c] # << >> => Len(up[c]) > 0
  BY AppendProperties, LenProperties, EmptySeq DEF TypeOK
<1>4. Speaker(c)' = Speaker(c)
  <2>1. CASE pubKey[c] = NoKey
    <3>1. 1 \in 1 .. Len(up[c])
      BY <1>1, <1>3, <2>1 DEF SpeakersOK, SpeaksForOne
    <3> QED
      BY <1>1, <1>3, <3>1 DEF Speaker
  <2>2. CASE pubKey[c] # NoKey
    BY <1>1, <2>2 DEF Speaker
  <2> QED
    BY <2>1, <2>2
<1>5. SpeaksForOne(c)'
  <2>1. ASSUME NEW i \in DOMAIN up'[c]
        PROVE  /\ up'[c][i].cmd = "PUBKEY" <=> i = 1 /\ pubKey'[c] = NoKey
               /\ up'[c][i].cmd \in Posted => author'[up'[c][i].body] = Speaker(c)'
    <3>1. CASE i \in DOMAIN up[c]
      BY <1>1, <1>2, <1>3, <1>4, <3>1 DEF SpeakersOK, SpeaksForOne
    <3>2. CASE i = Len(up[c]) + 1
      <4>1. up'[c][i] = f
        BY <1>1, <1>3, <3>2
      <4>2. ~ (i = 1 /\ pubKey[c] = NoKey)
        BY <1>1, <1>3, <3>2 DEF SpeakersOK, SpeaksForOne
      <4>3. peer[c] = Speaker(c)
        BY <1>1 DEF SpeakersOK, SpeaksForOne
      <4> QED
        BY <1>1, <1>4, <4>1, <4>2, <4>3
    <3> QED
      BY <1>1, <1>3, <2>1, <3>1, <3>2
  <2>2. up'[c] # << >>
    <3>1. up[c] \in Seq(Frames)
      BY DEF TypeOK
    <3> QED
      BY <1>1, <3>1, AppendProperties
  <2> QED
    BY <1>1, <1>4, <2>1, <2>2 DEF SpeakersOK, SpeaksForOne
<1>6. ASSUME NEW d \in Conns, d # c
      PROVE  SpeaksForOne(d)'
  <2>1. up'[d] = up[d] /\ Speaker(d)' = Speaker(d)
    BY <1>1, <1>6 DEF Speaker
  <2> QED
    BY <1>1, <1>2, <2>1 DEF SpeakersOK, SpeaksForOne
<1> QED
  BY <1>5, <1>6 DEF SpeakersOK

LEMMA LeaveSpeakers ==
    ASSUME TypeOK, SpeakersOK, NEW c \in Conns, Leave(c)
    PROVE  SpeakersOK'
<1>1. PICK n \in 0 .. Len(up[c]) : Disconnect(c, n)
  BY DEF Leave
<1>2. /\ link'[c] = "closed" /\ pubKey' = pubKey /\ author' = author
      /\ up'[c] = SubSeq(up[c], 1, n)
      /\ \A d \in Conns : d # c => /\ up'[d] = up[d]
                                   /\ link'[d] = link[d]
                                   /\ peer'[d] = peer[d]
  BY <1>1 DEF Leave, Disconnect, serverVars, logVars, TypeOK
<1>3. /\ Len(up[c]) \in Nat
      /\ DOMAIN up[c] = 1 .. Len(up[c])
      /\ \A i \in 1 .. Len(up[c]) : up[c][i] \in Frames
  BY LenProperties, ElementOfSeq DEF TypeOK
<1>4. /\ DOMAIN up'[c] = 1 .. n
      /\ \A i \in 1 .. n : up'[c][i] = up[c][i]
  <2>1. /\ SubSeq(up[c], 1, n) \in Seq(Frames)
        /\ Len(SubSeq(up[c], 1, n)) = n
        /\ \A i \in 1 .. n : SubSeq(up[c], 1, n)[i] = up[c][i]
    BY <1>3, SubSeqProperties
  <2> QED
    BY <1>2, <2>1, LenProperties
<1>5. SpeaksForOne(c)'
  <2>1. ASSUME NEW i \in DOMAIN up'[c]
        PROVE  Speaker(c)' = Speaker(c)
    BY <1>2, <1>4, <2>1 DEF Speaker
  <2>2. DOMAIN up'[c] \subseteq DOMAIN up[c]
    BY <1>3, <1>4
  <2> QED
    BY <1>2, <1>4, <2>1, <2>2 DEF SpeakersOK, SpeaksForOne
<1>6. ASSUME NEW d \in Conns, d # c
      PROVE  SpeaksForOne(d)'
  BY <1>2, <1>6 DEF SpeakersOK, SpeaksForOne, Speaker
<1> QED
  BY <1>5, <1>6 DEF SpeakersOK

(* The server's handlers take the first request; only PUBKEY's changes for *)
(* whom the connection speaks, and to the key it spoke for already.        *)
LEMMA TakeSpeakers ==
    ASSUME TypeOK, SpeakersOK, NEW c \in Conns, up[c] # << >>, TakeUp(c),
           UNCHANGED <<link, peer, author>>,
           \/ pubKey[c] # NoKey /\ pubKey' = pubKey
           \/ /\ up[c][1].cmd = "PUBKEY"
              /\ pubKey' = [pubKey EXCEPT ![c] = up[c][1].key]
    PROVE  SpeakersOK'
<1>1. /\ Len(up[c]) \in Nat /\ Len(up[c]) > 0
      /\ DOMAIN up[c] = 1 .. Len(up[c])
      /\ up[c][1] \in Frames
  BY EmptySeq, LenProperties, ElementOfSeq DEF TypeOK
<1>2. /\ DOMAIN up'[c] = 1 .. Len(up[c]) - 1
      /\ \A i \in 1 .. Len(up[c]) - 1 : up'[c][i] = up[c][i + 1]
  <2>1. up'[c] = Tail(up[c])
    BY DEF TakeUp, TypeOK
  <2>2. /\ Tail(up[c]) \in Seq(Frames)
        /\ Len(Tail(up[c])) = Len(up[c]) - 1
        /\ \A i \in 1 .. Len(Tail(up[c])) : Tail(up[c])[i] = up[c][i + 1]
    BY HeadTailProperties DEF TypeOK
  <2> QED
    BY <2>1, <2>2, LenProperties
<1>3. pubKey'[c] # NoKey /\ pubKey'[c] = Speaker(c)
  <2>1. CASE pubKey[c] # NoKey /\ pubKey' = pubKey
    BY <2>1 DEF Speaker
  <2>2. CASE /\ up[c][1].cmd = "PUBKEY"
             /\ pubKey' = [pubKey EXCEPT ![c] = up[c][1].key]
    <3>1. pubKey[c] = NoKey
      BY <1>1, <2>2 DEF SpeakersOK, SpeaksForOne
    <3>2. up[c][1].key \in Keys
      BY <1>1, <2>2 DEF Frames, WellFormed
    <3> QED
      BY <2>2, <3>1, <3>2, ConstantsOK DEF Speaker, TypeOK
  <2> QED
    BY <2>1, <2>2
<1>4. Speaker(c)' = Speaker(c)
  BY <1>3 DEF Speaker
<1>5. SpeaksForOne(c)'
  <2>1. ASSUME NEW i \in DOMAIN up'[c]
        PROVE  /\ up'[c][i].cmd = "PUBKEY" <=> i = 1 /\ pubKey'[c] = NoKey
               /\ up'[c][i].cmd \in Posted => author'[up'[c][i].body] = Speaker(c)'
    <3>1. i + 1 \in DOMAIN up[c] /\ i + 1 # 1 /\ up'[c][i] = up[c][i + 1]
      BY <1>1, <1>2, <2>1
    <3> QED
      BY <1>3, <1>4, <3>1 DEF SpeakersOK, SpeaksForOne
  <2>2. link[c] # "free"
    BY DEF SpeakersOK, SpeaksForOne
  <2> QED
    BY <1>3, <1>4, <2>1, <2>2 DEF SpeakersOK, SpeaksForOne
<1>6. ASSUME NEW d \in Conns, d # c
      PROVE  SpeaksForOne(d)'
  <2>1. up'[d] = up[d] /\ pubKey'[d] = pubKey[d]
    BY <1>6 DEF TakeUp, TypeOK
  <2> QED
    BY <2>1 DEF SpeakersOK, SpeaksForOne, Speaker
<1> QED
  BY <1>5, <1>6 DEF SpeakersOK

LEMMA CloseSpeakers ==
    ASSUME TypeOK, SpeakersOK, NEW c \in Conns, HandleClose(c),
           UNCHANGED <<clientVars, logVars>>
    PROVE  SpeakersOK'
<1>1. /\ up[c] = << >> /\ up' = up /\ peer' = peer /\ author' = author
      /\ link'[c] = "free" /\ pubKey'[c] = NoKey
      /\ \A d \in Conns : d # c => link'[d] = link[d] /\ pubKey'[d] = pubKey[d]
  BY DEF HandleClose, FreeLink, Closing, clientVars, logVars, TypeOK
<1> QED
  BY <1>1 DEF SpeakersOK, SpeaksForOne, Speaker

LEMMA ServeSpeakers ==
    ASSUME TypeOK, SpeakersOK, NEW c \in Conns, Serve(c)
    PROVE  SpeakersOK'
<1>1. CASE HandleClose(c) /\ UNCHANGED <<clientVars, logVars>>
  BY <1>1, CloseSpeakers
<1>2. CASE /\ up[c] # << >> /\ UNCHANGED <<clientVars, author>>
           /\ RelayFrame(c, Head(up[c])) \/ AnswerFrame(c, Head(up[c]))
  <2>1. TakeUp(c) /\ UNCHANGED <<link, peer, author>>
    BY <1>2 DEF clientVars, RelayFrame, AnswerFrame, HandleMessage, HandleKeyRotate,
                HandleInviteResponse, HandlePublicKey, HandleNewRoom, HandleInvite,
                DeclineInvite, DropInviteResponse, HandleOpenRoom, RefuseMessage,
                RefuseKeyRotate, KeyedRequest, Request
  <2>2. Head(up[c]) = up[c][1]
    BY <1>2
  <2>3. \/ pubKey[c] # NoKey /\ pubKey' = pubKey
        \/ /\ up[c][1].cmd = "PUBKEY"
           /\ pubKey' = [pubKey EXCEPT ![c] = up[c][1].key]
    BY <1>2, <2>2 DEF RelayFrame, AnswerFrame, HandleMessage, HandleKeyRotate,
                HandleInviteResponse, HandlePublicKey, HandleNewRoom, HandleInvite,
                DeclineInvite, DropInviteResponse, HandleOpenRoom, RefuseMessage,
                RefuseKeyRotate, Refuse, KeyedRequest, Request, serverVars
  <2> QED
    BY <1>2, <2>1, <2>3, TakeSpeakers
<1> QED
  BY <1>1, <1>2 DEF Serve

LEMMA NextSpeakers ==
    ASSUME TypeOK, SpeakersOK, [Next]_vars
    PROVE  SpeakersOK'
<1>1. ASSUME NEW k \in Keys, NEW c \in Conns, FirstConnect(k, c) \/ Reconnect(k, c)
      PROVE  SpeakersOK'
  <2>1. PICK first \in Frames :
          first.cmd \notin Posted \cup {"PUBKEY"} /\ Connect(k, c, first)
    BY <1>1, ClientFrames DEF FirstConnect, Reconnect, NewRoom, Invite, OpenRoom, Frame,
                              Posted
  <2> QED
    BY <2>1, ConnectSpeakers
<1>2. ASSUME NEW c \in Conns, PostAny(c)
      PROVE  SpeakersOK'
  <2>1. PICK f \in Frames, b \in Bodies :
          f.cmd # "PUBKEY" /\ f.body = b /\ Post(c, b, f)
    BY <1>2, ClientFrames DEF PostAny, Message, MessageKeyRotate, Frame
  <2> QED
    BY <2>1, AppendSpeakers DEF Post, TypeOK
<1>3. ASSUME NEW c \in Conns, Receive(c)
      PROVE  SpeakersOK'
  <2> DEFINE f == Head(down[c])
             answer == InviteResponse(f.from, f.room, f.key, NoBody)
  <2>1. CASE f.cmd = "ROOM.INVITE.VERIFICATION_REQUEST"
    <3>1. f \in Frames
      BY <1>3, HeadTailProperties DEF Receive, TypeOK
    <3>2. answer \in Frames /\ answer.cmd \notin Posted \cup {"PUBKEY"}
      BY <2>1, <3>1, ClientFrames DEF Frames, WellFormed, Verification, InviteResponse,
                                      Frame, Posted
    <3>3. Send(c, answer) /\ author' = author
      BY <1>3, <2>1 DEF Receive
    <3> HIDE DEF answer
    <3> QED
      BY <3>2, <3>3, AppendSpeakers
  <2>2. CASE f.cmd # "ROOM.INVITE.VERIFICATION_REQUEST"
    BY <1>3, <2>2 DEF Receive, serverVars, clientVars, SpeakersOK, SpeaksForOne, Speaker
  <2> QED
    BY <2>1, <2>2
<1>4. CASE UNCHANGED vars
  BY <1>4 DEF vars, wireVars, serverVars, clientVars, logVars, SpeakersOK, SpeaksForOne,
              Speaker
<1> QED
  BY <1>1, <1>2, <1>3, <1>4, LeaveSpeakers, ServeSpeakers DEF Next

LEMMA InitSpeakers == Init => SpeakersOK
  BY DEF Init, WireInit, ServerInit, SpeakersOK, SpeaksForOne

-----------------------------------------------------------------------------
(* Routes and rooms.                                                       *)

(* A step of the server is one of a frame's handlers or the close.         *)
HandledBy(c, f) ==
    /\ up[c] # << >>
    /\ f = Head(up[c])
    /\ UNCHANGED <<clientVars, author>>
    /\ RelayFrame(c, f) \/ (AnswerFrame(c, f) /\ UNCHANGED <<log, handed>>)

LEMMA NextCases ==
    ASSUME TypeOK, [Next]_vars
    PROVE  \/ \E c \in Conns, k \in Keys : \E first \in Frames : Connect(k, c, first)
           \/ \E c \in Conns : \/ PostAny(c)
                               \/ Receive(c)
                               \/ Leave(c)
                               \/ HandleClose(c) /\ UNCHANGED <<clientVars, logVars>>
                               \/ \E f \in Frames : HandledBy(c, f)
           \/ UNCHANGED vars
<1>1. ASSUME NEW c \in Conns, up[c] # << >>
      PROVE  Head(up[c]) \in Frames
  BY <1>1, HeadTailProperties DEF TypeOK
<1> QED
  BY <1>1, ClientFrames DEF Next, FirstConnect, Reconnect, Serve, HandledBy

LEMMA NextRoutes ==
    ASSUME TypeOK, SpeakersOK, RoutesAreLive, [Next]_vars
    PROVE  RoutesAreLive'
<1>1. ASSUME NEW c \in Conns, NEW k \in Keys, NEW first \in Frames, Connect(k, c, first)
      PROVE  RoutesAreLive'
  BY <1>1 DEF Connect, OpenLink, serverVars, RoutesAreLive, TypeOK
<1>2. ASSUME NEW c \in Conns, PostAny(c) \/ Receive(c)
      PROVE  RoutesAreLive'
  <2>1. UNCHANGED <<link, serverVars>>
    BY <1>2 DEF PostAny, Post, Receive, Send
  <2> QED
    BY <2>1 DEF serverVars, RoutesAreLive
<1>3. ASSUME NEW c \in Conns, Leave(c)
      PROVE  RoutesAreLive'
  BY <1>3 DEF Leave, Disconnect, serverVars, RoutesAreLive, TypeOK
<1>4. ASSUME NEW c \in Conns, HandleClose(c)
      PROVE  RoutesAreLive'
  BY <1>4, ConstantsOK DEF HandleClose, FreeLink, RoutesAreLive, TypeOK
<1>5. ASSUME NEW c \in Conns, NEW f \in Frames, HandledBy(c, f)
      PROVE  RoutesAreLive'
  <2>1. CASE HandlePublicKey(c, f)
    <3>1. f.key \in Keys
      BY <2>1 DEF HandlePublicKey, Request, Frames, WellFormed
    <3>2. pubKey[c] = NoKey /\ link[c] # "free"
      <4>1. 1 \in DOMAIN up[c] /\ up[c][1] = f
        BY <1>5, EmptySeq, LenProperties DEF HandledBy, TypeOK
      <4> QED
        BY <1>5, <2>1, <4>1 DEF HandledBy, HandlePublicKey, Request, SpeakersOK, SpeaksForOne
    <3>3. \A k \in Keys : online[k] # c
      BY <3>2, ConstantsOK DEF RoutesAreLive, TypeOK
    <3> QED
      BY <2>1, <3>1, <3>2, <3>3, ConstantsOK DEF HandlePublicKey, Request, RoutesAreLive, TypeOK
  <2>2. CASE ~HandlePublicKey(c, f)
    <3>1. UNCHANGED <<link, online, pubKey>>
      BY <1>5, <2>2 DEF HandledBy, RelayFrame, AnswerFrame, HandleMessage, HandleKeyRotate,
                HandleInviteResponse, HandleNewRoom, HandleInvite,
                DeclineInvite, DropInviteResponse, HandleOpenRoom, RefuseMessage,
                RefuseKeyRotate, Refuse, KeyedRequest, Request, serverVars
    <3> QED
      BY <3>1 DEF RoutesAreLive
  <2> QED
    BY <2>1, <2>2
<1>6. CASE UNCHANGED vars
  BY <1>6 DEF vars, wireVars, serverVars, RoutesAreLive
<1> QED
  BY <1>1, <1>2, <1>3, <1>4, <1>5, <1>6, NextCases

(* Routing to one key's connections only: no fan-out ever writes to a      *)
(* connection that the server already let go of.                           *)
THEOREM RoutesStayLive == Spec => []RoutesAreLive
<1>1. Init => RoutesAreLive
  BY DEF Init, ServerInit, RoutesAreLive
<1> QED
  BY <1>1, InitType, NextType, InitSpeakers, NextSpeakers, NextRoutes, PTL DEF Spec

(* Rooms only come into being and grow: what relayed frames rest on.       *)
RoomsGrow ==
    /\ \A r \in Rooms : users[r] \subseteq users'[r]
    /\ \A r \in Rooms : Exists(r) => owner'[r] = owner[r]

LEMMA NextRooms ==
    ASSUME TypeOK, RoomsOK, [Next]_vars
    PROVE  RoomsOK' /\ RoomsGrow
<1>1. CASE UNCHANGED <<owner, users>>
  BY <1>1 DEF RoomsOK, RoomsGrow, Exists
<1>2. ASSUME NEW c \in Conns, NEW f \in Frames, NEW r \in Rooms, HandleNewRoom(c, f, r)
      PROVE  RoomsOK' /\ RoomsGrow
  <2>1. pubKey[c] # NoKey /\ ~Exists(r) /\ users[r] = {}
    BY <1>2 DEF HandleNewRoom, KeyedRequest, RoomsOK
  <2>2. /\ owner' = [owner EXCEPT ![r] = pubKey[c]]
        /\ users' = [users EXCEPT ![r] = {pubKey[c]}]
    BY <1>2 DEF HandleNewRoom
  <2> QED
    BY <2>1, <2>2 DEF RoomsOK, RoomsGrow, Exists, TypeOK
<1>3. ASSUME NEW c \in Conns, NEW f \in Frames, HandleInviteResponse(c, f)
      PROVE  RoomsOK' /\ RoomsGrow
  BY <1>3 DEF HandleInviteResponse, ResponseIsValid, RoomsOK, RoomsGrow, Exists, TypeOK
<1>4. ASSUME NEW c \in Conns, NEW f \in Frames, HandledBy(c, f)
      PROVE  RoomsOK' /\ RoomsGrow
  <2>1. \/ UNCHANGED <<owner, users>>
        \/ \E r \in Rooms : HandleNewRoom(c, f, r)
        \/ HandleInviteResponse(c, f)
    BY <1>4 DEF HandledBy, RelayFrame, AnswerFrame, HandleMessage, HandleKeyRotate,
                HandlePublicKey, HandleInvite, DeclineInvite, DropInviteResponse,
                HandleOpenRoom, RefuseMessage, RefuseKeyRotate, Refuse, serverVars
  <2> QED
    BY <1>1, <1>2, <1>3, <2>1
<1>5. ASSUME NEW c \in Conns,
             \/ \E k \in Keys : \E first \in Frames : Connect(k, c, first)
             \/ PostAny(c) \/ Receive(c) \/ Leave(c) \/ HandleClose(c)
      PROVE  UNCHANGED <<owner, users>>
  BY <1>5 DEF Connect, PostAny, Post, Receive, Send, Leave, HandleClose, serverVars
<1>6. CASE UNCHANGED vars
  BY <1>1, <1>6 DEF vars, serverVars
<1> QED
  BY <1>1, <1>4, <1>5, <1>6, NextCases

LEMMA InitRooms == Init => RoomsOK
  BY DEF Init, ServerInit, RoomsOK, Exists

-----------------------------------------------------------------------------
(* What is kept was posted by members, for members.                        *)

AuthorsStay == \A b \in Bodies : author[b] # NoKey => author'[b] = author[b]

LEMMA NextAuthors ==
    ASSUME TypeOK, [Next]_vars
    PROVE  AuthorsStay
<1>1. ASSUME NEW c \in Conns, PostAny(c)
      PROVE  AuthorsStay
  BY <1>1 DEF PostAny, Post, AuthorsStay, TypeOK
<1>2. ASSUME NEW c \in Conns,
             \/ \E k \in Keys : \E first \in Frames : Connect(k, c, first)
             \/ Receive(c) \/ Leave(c)
             \/ HandleClose(c) /\ UNCHANGED <<clientVars, logVars>>
             \/ \E f \in Frames : HandledBy(c, f)
      PROVE  author' = author
  BY <1>2 DEF Connect, Receive, Leave, HandledBy, logVars
<1>3. CASE UNCHANGED vars
  BY <1>3 DEF vars, logVars, AuthorsStay
<1> QED
  BY <1>1, <1>2, <1>3, NextCases DEF AuthorsStay

(* Once allowed, always allowed: rooms grow and authors stay.              *)
LEMMA RelayableStays ==
    ASSUME TypeOK, RoomsOK, RoomsGrow, AuthorsStay, NEW f \in Frames, Relayable(f)
    PROVE  Relayable(f)' /\ \A k \in users[f.room] : k \in users'[f.room]
<1>1. f.room \in Rooms /\ f.body \in Bodies
  BY DEF Relayable, Frames, WellFormed
<1>2. author[f.body] \in Keys
  BY <1>1 DEF Relayable, TypeOK
<1>3. Exists(f.room)
  BY <1>1 DEF Relayable, RoomsOK
<1> QED
  BY <1>1, <1>2, <1>3, ConstantsOK DEF Relayable, RoomsGrow, AuthorsStay

LEMMA KeptStays ==
    ASSUME TypeOK, RoomsOK, RoomsGrow, AuthorsStay,
           NEW k \in Keys, NEW fs \in Seq(Frames), KeptFor(k, fs)
    PROVE  KeptFor(k, fs)'
<1>1. \A i \in DOMAIN fs : fs[i] \in Frames
  BY ElementOfSeq, LenProperties
<1>2. \A f \in Frames : Relayable(f) => Relayable(f)' /\ \A u \in users[f.room] : u \in users'[f.room]
  BY RelayableStays
<1> QED
  BY <1>1, <1>2 DEF KeptFor

LEMMA KeptAppend ==
    ASSUME NEW k, NEW fs \in Seq(Frames), NEW f \in Frames,
           KeptFor(k, fs), Relayable(f), k \in users[f.room]
    PROVE  KeptFor(k, Append(fs, f))
<1>1. /\ DOMAIN Append(fs, f) = 1 .. Len(fs) + 1
      /\ DOMAIN fs = 1 .. Len(fs) /\ Len(fs) \in Nat
      /\ \A i \in 1 .. Len(fs) : Append(fs, f)[i] = fs[i]
      /\ Append(fs, f)[Len(fs) + 1] = f
  BY AppendProperties, LenProperties
<1>2. \A i \in 1 .. Len(fs) + 1 : i \in 1 .. Len(fs) \/ i = Len(fs) + 1
  BY <1>1
<1> QED
  BY <1>1, <1>2 DEF KeptFor

(* What a concatenation holds, one of its parts holds.                     *)
LEMMA ConcatElements ==
    ASSUME NEW s \in Seq(Frames), NEW t \in Seq(Frames), NEW i \in DOMAIN (s \o t)
    PROVE  \/ \E j \in DOMAIN s : (s \o t)[i] = s[j]
           \/ \E j \in DOMAIN t : (s \o t)[i] = t[j]
<1>1. /\ DOMAIN (s \o t) = 1 .. Len(s) + Len(t)
      /\ DOMAIN s = 1 .. Len(s) /\ Len(s) \in Nat
      /\ DOMAIN t = 1 .. Len(t) /\ Len(t) \in Nat
      /\ \A j \in 1 .. Len(s) + Len(t) :
            (s \o t)[j] = IF j <= Len(s) THEN s[j] ELSE t[j - Len(s)]
  BY ConcatProperties, LenProperties
<1>2. CASE i <= Len(s)
  BY <1>1, <1>2
<1>3. CASE i > Len(s)
  <2>1. i - Len(s) \in DOMAIN t /\ (s \o t)[i] = t[i - Len(s)]
    BY <1>1, <1>3
  <2> QED
    BY <2>1
<1> QED
  BY <1>1, <1>2, <1>3

(* Nothing new is kept.                                                    *)
LEMMA KeptUnchanged ==
    ASSUME TypeOK, RoomsOK, KeptOK, RoomsGrow, AuthorsStay,
           UNCHANGED <<history, handed, roomsHistory>>
    PROVE  KeptOK'
<1>1. ASSUME NEW k \in Keys
      PROVE  KeptFor(k, history[k])' /\ KeptFor(k, handed[k])'
  <2>1. /\ history[k] \in Seq(Frames) /\ KeptFor(k, history[k])
        /\ handed[k] \in Seq(Frames) /\ KeptFor(k, handed[k])
    BY DEF TypeOK, KeptOK
  <2>2. \A fs \in Seq(Frames) : KeptFor(k, fs) => KeptFor(k, fs)'
    BY KeptStays
  <2> QED
    BY <2>1, <2>2 DEF KeptFor
<1>2. ASSUME NEW r \in Rooms, NEW i \in DOMAIN roomsHistory[r]
      PROVE  Relayable(roomsHistory[r][i])'
  <2>1. roomsHistory[r][i] \in Frames /\ Relayable(roomsHistory[r][i])
    BY LenProperties, ElementOfSeq DEF TypeOK, KeptOK
  <2>2. \A f \in Frames : Relayable(f) => Relayable(f)'
    BY RelayableStays
  <2> QED
    BY <2>1, <2>2 DEF Relayable
<1> QED
  BY <1>1, <1>2 DEF KeptOK

(* A frame accepted by HandleMessage or HandleKeyRotate may be relayed.    *)
LEMMA AcceptedIsRelayable ==
    ASSUME TypeOK, SpeakersOK, RoomsOK, NEW c \in Conns, NEW f \in Frames,
           up[c] # << >>, f = Head(up[c]),
           HandleMessage(c, f) \/ HandleKeyRotate(c, f)
    PROVE  /\ f.room \in Rooms /\ pubKey[c] \in Keys
           /\ author[f.body] = pubKey[c]
           /\ Relayable(f)
<1>1. f.cmd \in Posted /\ f.room \in Rooms
  BY DEF HandleMessage, HandleKeyRotate, KeyedRequest, Request, Posted, Frames, WellFormed
<1>2. pubKey[c] # NoKey /\ pubKey[c] \in Keys
  BY DEF HandleMessage, HandleKeyRotate, KeyedRequest, TypeOK
<1>3. 1 \in DOMAIN up[c] /\ up[c][1] = f
  BY EmptySeq, LenProperties DEF TypeOK
<1>4. author[f.body] = pubKey[c]
  BY <1>1, <1>2, <1>3 DEF SpeakersOK, SpeaksForOne, Speaker
<1>5. pubKey[c] \in users[f.room]
  BY <1>1 DEF HandleMessage, HandleKeyRotate, MayPost, MayRotate, RoomsOK
<1>6. f.cmd = "ROOM.MESSAGE.KEY.ROTATE" => pubKey[c] = owner[f.room]
  BY DEF HandleMessage, HandleKeyRotate, KeyedRequest, Request, MayRotate
<1> QED
  BY <1>1, <1>2, <1>4, <1>5, <1>6 DEF Relayable

LEMMA KeptRelayed ==
    ASSUME TypeOK, SpeakersOK, RoomsOK, KeptOK, NEW c \in Conns, NEW f \in Frames,
           up[c] # << >>, f = Head(up[c]), author' = author,
           HandleMessage(c, f) \/ HandleKeyRotate(c, f), Relayed(f.room, pubKey[c], f)
    PROVE  KeptOK'
<1>1. f.room \in Rooms /\ pubKey[c] \in Keys /\ Relayable(f)
  BY AcceptedIsRelayable
<1>2. UNCHANGED <<owner, users, online, author>>
  BY DEF HandleMessage, HandleKeyRotate
<1>3. ASSUME NEW k \in Keys
      PROVE  KeptFor(k, history[k])' /\ KeptFor(k, handed[k])'
  <2>1. /\ history[k] \in Seq(Frames) /\ KeptFor(k, history[k])
        /\ handed[k] \in Seq(Frames) /\ KeptFor(k, handed[k])
    BY DEF TypeOK, KeptOK
  <2>2. k \in users[f.room] => /\ KeptFor(k, Append(history[k], f))
                               /\ KeptFor(k, Append(handed[k], f))
    BY <1>1, <2>1, KeptAppend
  <2>3. \/ history'[k] = history[k]
        \/ k \in users[f.room] /\ history'[k] = Append(history[k], f)
    BY DEF HandleMessage, HandleKeyRotate, FanOut
  <2>4. \/ handed'[k] = handed[k]
        \/ k \in users[f.room] /\ handed'[k] = Append(handed[k], f)
    BY DEF Relayed, Present
  <2>5. KeptFor(k, history'[k]) /\ KeptFor(k, handed'[k])
    BY <2>1, <2>2, <2>3, <2>4
  <2> QED
    BY <1>2, <2>5 DEF KeptFor, Relayable
<1>4. ASSUME NEW r \in Rooms, NEW i \in DOMAIN roomsHistory'[r]
      PROVE  Relayable(roomsHistory[r][i])' /\ roomsHistory'[r][i].room = r
  <2>1. /\ roomsHistory[r] \in Seq(Frames)
        /\ DOMAIN roomsHistory[r] = 1 .. Len(roomsHistory[r])
        /\ Len(roomsHistory[r]) \in Nat
        /\ Append(roomsHistory[r], f) \in Seq(Frames)
        /\ DOMAIN Append(roomsHistory[r], f) = 1 .. Len(roomsHistory[r]) + 1
        /\ \A j \in 1 .. Len(roomsHistory[r]) :
              Append(roomsHistory[r], f)[j] = roomsHistory[r][j]
        /\ Append(roomsHistory[r], f)[Len(roomsHistory[r]) + 1] = f
    BY AppendProperties, LenProperties DEF TypeOK
  <2>2. \/ roomsHistory'[r] = roomsHistory[r]
        \/ r = f.room /\ roomsHistory'[r] = Append(roomsHistory[r], f)
        \/ r = f.room /\ roomsHistory'[r] = <<f>>
    BY DEF HandleMessage, HandleKeyRotate, TypeOK
  <2>3. \/ i \in DOMAIN roomsHistory[r] /\ roomsHistory'[r][i] = roomsHistory[r][i]
        \/ r = f.room /\ roomsHistory'[r][i] = f
    BY <1>4, <2>1, <2>2
  <2>4. Relayable(roomsHistory'[r][i]) /\ roomsHistory'[r][i].room = r
    BY <1>1, <2>3 DEF KeptOK
  <2> QED
    BY <1>2, <2>4 DEF Relayable
<1> QED
  BY <1>3, <1>4 DEF KeptOK

(* Stores that are handed over: fs to key k.                               *)
LEMMA KeptHanded ==
    ASSUME TypeOK, RoomsOK, KeptOK, RoomsGrow, AuthorsStay,
           NEW k \in Keys, NEW fs \in Seq(Frames),
           \A i \in DOMAIN fs : Relayable(fs[i]) /\ k \in users'[fs[i].room],
           handed' = [handed EXCEPT ![k] = @ \o fs],
           roomsHistory' = roomsHistory,
           \A u \in Keys : history'[u] \in {history[u], << >>}
    PROVE  KeptOK'
<1>1. \A f \in Frames : Relayable(f) => Relayable(f)'
  BY RelayableStays
<1>2. ASSUME NEW u \in Keys
      PROVE  KeptFor(u, handed[u])' /\ KeptFor(u, history[u])'
  <2>1. /\ handed[u] \in Seq(Frames) /\ KeptFor(u, handed[u])
        /\ history[u] \in Seq(Frames) /\ KeptFor(u, history[u])
    BY DEF TypeOK, KeptOK
  <2>2. \A g \in Frames :
          Relayable(g) /\ u \in users[g.room] => Relayable(g)' /\ u \in users'[g.room]
    BY RelayableStays
  <2>3. \A g \in Frames :
          Relayable(g) /\ k \in users'[g.room] => Relayable(g)' /\ k \in users'[g.room]
    BY RelayableStays
  <2>4. ASSUME NEW i \in DOMAIN handed'[u], NEW g, g = handed'[u][i]
        PROVE  Relayable(g)' /\ u \in users'[g.room]
    <3>1. CASE \E j \in DOMAIN handed[u] : g = handed[u][j]
      <4>1. g \in Frames /\ Relayable(g) /\ u \in users[g.room]
        BY <2>1, <3>1, ElementOfSeq, LenProperties DEF KeptFor
      <4> QED
        BY <2>2, <4>1
    <3>2. CASE u = k /\ \E j \in DOMAIN fs : g = fs[j]
      <4>1. g \in Frames /\ Relayable(g) /\ k \in users'[g.room]
        BY <3>2, ElementOfSeq, LenProperties
      <4> QED
        BY <2>3, <3>2, <4>1
    <3>3. CASE u # k
      BY <2>4, <3>1, <3>3 DEF TypeOK
    <3>4. CASE u = k
      <4>1. handed'[u] = handed[u] \o fs
        BY <3>4 DEF TypeOK
      <4> QED
        BY <2>1, <2>4, <3>1, <3>2, <3>4, <4>1, ConcatElements
    <3> QED
      BY <3>3, <3>4
  <2>5. ASSUME NEW i \in DOMAIN history'[u], NEW g, g = history'[u][i]
        PROVE  Relayable(g)' /\ u \in users'[g.room]
    <3>1. history'[u] = history[u]
      BY <2>5
    <3>2. g \in Frames /\ Relayable(g) /\ u \in users[g.room]
      BY <2>1, <2>5, <3>1, ElementOfSeq, LenProperties DEF KeptFor
    <3> QED
      BY <2>2, <3>2
  <2>6. KeptFor(u, handed[u])'
    BY <2>4 DEF KeptFor, Relayable
  <2>7. KeptFor(u, history[u])'
    BY <2>5 DEF KeptFor, Relayable
  <2> QED
    BY <2>6, <2>7
<1>3. ASSUME NEW r \in Rooms, NEW i \in DOMAIN roomsHistory[r]
      PROVE  Relayable(roomsHistory[r][i])' /\ roomsHistory'[r][i].room = r
  <2>1. roomsHistory[r][i] \in Frames /\ Relayable(roomsHistory[r][i])
    BY LenProperties, ElementOfSeq DEF TypeOK, KeptOK
  <2> QED
    BY <1>1, <2>1 DEF Relayable, KeptOK
<1> QED
  BY <1>2, <1>3 DEF KeptOK

LEMMA NextKept ==
    ASSUME TypeOK, SpeakersOK, RoomsOK, KeptOK, [Next]_vars
    PROVE  KeptOK'
<1>1. RoomsGrow /\ AuthorsStay
  BY NextRooms, NextAuthors
<1>2. CASE UNCHANGED <<history, handed, roomsHistory>>
  BY <1>1, <1>2, KeptUnchanged
<1>3. ASSUME NEW c \in Conns, NEW f \in Frames, HandledBy(c, f)
      PROVE  KeptOK'
  <2>1. CASE HandleInviteResponse(c, f) /\ Hand(f.key, roomsHistory[f.room])
    <3>1. f.key \in Keys /\ f.room \in Rooms
      BY <2>1 DEF HandleInviteResponse, KeyedRequest, Request, Frames, WellFormed,
                  Verification
    <3>2. roomsHistory[f.room] \in Seq(Frames)
      BY <3>1 DEF TypeOK
    <3>3. \A i \in DOMAIN roomsHistory[f.room] :
            /\ Relayable(roomsHistory[f.room][i])
            /\ f.key \in users'[roomsHistory[f.room][i].room]
      BY <2>1, <3>1 DEF HandleInviteResponse, KeptOK, TypeOK
    <3>4. /\ handed' = [handed EXCEPT ![f.key] = @ \o roomsHistory[f.room]]
          /\ roomsHistory' = roomsHistory /\ history' = history
      BY <2>1 DEF HandleInviteResponse, Hand
    <3> QED
      BY <1>1, <3>1, <3>2, <3>3, <3>4, KeptHanded
  <2>2. CASE HandlePublicKey(c, f) /\ Hand(f.key, history[f.key])
    <3>1. f.key \in Keys
      BY <2>2 DEF HandlePublicKey, Request, Frames, WellFormed
    <3>2. history[f.key] \in Seq(Frames)
      BY <3>1 DEF TypeOK
    <3>3. \A i \in DOMAIN history[f.key] :
            Relayable(history[f.key][i]) /\ f.key \in users'[history[f.key][i].room]
      BY <2>2, <3>1 DEF HandlePublicKey, KeptOK, KeptFor
    <3>4. /\ handed' = [handed EXCEPT ![f.key] = @ \o history[f.key]]
          /\ roomsHistory' = roomsHistory
          /\ history' = [history EXCEPT ![f.key] = << >>]
      BY <2>2 DEF HandlePublicKey, Hand
    <3>5. \A u \in Keys : history'[u] \in {history[u], << >>}
      BY <3>4 DEF TypeOK
    <3> QED
      BY <1>1, <3>1, <3>2, <3>3, <3>4, <3>5, KeptHanded
  <2>3. CASE /\ HandleMessage(c, f) \/ HandleKeyRotate(c, f)
             /\ Relayed(f.room, pubKey[c], f)
    BY <1>3, <2>3, KeptRelayed DEF HandledBy
  <2>4. CASE AnswerFrame(c, f) /\ UNCHANGED <<log, handed>>
    BY <1>2, <2>4 DEF AnswerFrame, HandleNewRoom, HandleInvite, DeclineInvite,
         DropInviteResponse, HandleOpenRoom, RefuseMessage, RefuseKeyRotate, Refuse,
         serverVars
  <2> QED
    BY <1>3, <2>1, <2>2, <2>3, <2>4 DEF HandledBy, RelayFrame
<1>4. ASSUME NEW c \in Conns,
             \/ \E k \in Keys : \E first \in Frames : Connect(k, c, first)
             \/ PostAny(c) \/ Receive(c) \/ Leave(c)
             \/ HandleClose(c) /\ UNCHANGED <<clientVars, logVars>>
      PROVE  UNCHANGED <<history, handed, roomsHistory>>
  BY <1>4 DEF Connect, PostAny, Post, Receive, Send, Leave, HandleClose, serverVars, logVars
<1>5. CASE UNCHANGED vars
  BY <1>2, <1>5 DEF vars, serverVars, logVars
<1> QED
  BY <1>2, <1>3, <1>4, <1>5, NextCases

LEMMA InitKept == Init => KeptOK
  BY DEF Init, ServerInit, KeptOK, KeptFor

Inv == TypeOK /\ SpeakersOK /\ RoomsOK /\ KeptOK

LEMMA Invariance == Spec => []Inv
<1>1. Init => Inv
  BY InitType, InitSpeakers, InitRooms, InitKept DEF Inv
<1>2. Inv /\ [Next]_vars => Inv'
  BY NextType, NextSpeakers, NextRooms, NextKept DEF Inv
<1> QED
  BY <1>1, <1>2, PTL DEF Spec

(* Only members post, only owners rotate, and only members are relayed to, *)
(* whatever requests clients send: what server.py checks when it accepts a *)
(* frame still holds when a backlog or a room's history is handed over.    *)
THEOREM RelaysAmongMembers == Spec => []MembersOnly
<1>1. Inv => MembersOnly
  <2>1. \A k \in Keys : \A fs \in Seq(Frames) :
          KeptFor(k, fs) => \A i \in DOMAIN fs : FromAndToMembers(k, fs[i])
    BY DEF KeptFor, Relayable, FromAndToMembers
  <2> QED
    BY <2>1 DEF Inv, TypeOK, KeptOK, MembersOnly
<1> QED
  BY <1>1, Invariance, PTL

-----------------------------------------------------------------------------
(* What waits for a key that is online is its own.                         *)

OwnOnly(k, fs) == \A i \in DOMAIN fs : author[fs[i].body] = k

LEMMA OwnOnlyStays ==
    ASSUME TypeOK, KeptOK, AuthorsStay, ConstantsOK, NEW k \in Keys, OwnOnly(k, history[k])
    PROVE  \A i \in DOMAIN history[k] : author'[history[k][i].body] = k
<1>1. ASSUME NEW i \in DOMAIN history[k]
      PROVE  history[k][i].body \in Bodies
  <2>1. history[k][i] \in Frames /\ Relayable(history[k][i])
    BY <1>1, ElementOfSeq, LenProperties DEF TypeOK, KeptOK, KeptFor
  <2> QED
    BY <2>1 DEF Relayable, Frames, WellFormed
<1> QED
  BY <1>1 DEF OwnOnly, AuthorsStay

(* No step but a relay makes a backlog longer, and none but PUBKEY routes  *)
(* a key; PUBKEY empties the backlog of the key it routes.                 *)
LEMMA BacklogShrinks ==
    ASSUME TypeOK, KeptOK, AuthorsStay, BacklogWhileAway,
           \A k \in Keys : \/ history'[k] = << >>
                           \/ history'[k] = history[k] /\ online'[k] \in {online[k], NoConn}
    PROVE  BacklogWhileAway'
<1>1. ASSUME NEW k \in Keys, online'[k] # NoConn, NEW i \in DOMAIN history'[k]
      PROVE  author'[history'[k][i].body] = k
  <2>1. history'[k] = history[k] /\ online[k] # NoConn
    BY <1>1
  <2>2. OwnOnly(k, history[k])
    BY <2>1 DEF BacklogWhileAway, OwnOnly
  <2> QED
    BY <1>1, <2>1, <2>2, OwnOnlyStays, ConstantsOK
<1> QED
  BY <1>1 DEF BacklogWhileAway

LEMMA BacklogRelayed ==
    ASSUME TypeOK, SpeakersOK, RoomsOK, KeptOK, BacklogWhileAway,
           NEW c \in Conns, NEW f \in Frames,
           up[c] # << >>, f = Head(up[c]), author' = author,
           HandleMessage(c, f) \/ HandleKeyRotate(c, f)
    PROVE  BacklogWhileAway'
<1>1. f.room \in Rooms /\ pubKey[c] \in Keys /\ author[f.body] = pubKey[c]
  BY AcceptedIsRelayable
<1>2. ASSUME NEW k \in Keys, online'[k] # NoConn, NEW i \in DOMAIN history'[k]
      PROVE  author[history'[k][i].body] = k
  <2>1. online[k] # NoConn
    BY <1>2 DEF HandleMessage, HandleKeyRotate
  <2>2. \A j \in DOMAIN history[k] : author[history[k][j].body] = k
    BY <2>1 DEF BacklogWhileAway
  <2>3. \/ history'[k] = history[k]
        \/ k = pubKey[c] /\ history'[k] = Append(history[k], f)
    BY <1>1, <2>1 DEF HandleMessage, HandleKeyRotate, FanOut, Present
  <2>4. CASE history'[k] = history[k]
    BY <1>2, <2>2, <2>4
  <2>5. CASE k = pubKey[c] /\ history'[k] = Append(history[k], f)
    <3>1. /\ history[k] \in Seq(Frames)
          /\ DOMAIN history[k] = 1 .. Len(history[k]) /\ Len(history[k]) \in Nat
          /\ DOMAIN history'[k] = 1 .. Len(history[k]) + 1
          /\ \A j \in 1 .. Len(history[k]) : history'[k][j] = history[k][j]
          /\ history'[k][Len(history[k]) + 1] = f
      BY <2>5, AppendProperties, LenProperties DEF TypeOK
    <3> QED
      BY <1>1, <1>2, <2>2, <2>5, <3>1
  <2> QED
    BY <2>3, <2>4, <2>5
<1> QED
  BY <1>2 DEF BacklogWhileAway

LEMMA NextBacklog ==
    ASSUME Inv, BacklogWhileAway, [Next]_vars
    PROVE  BacklogWhileAway'
<1> USE DEF Inv
<1>1. AuthorsStay
  BY NextAuthors
<1>2. CASE UNCHANGED <<online, history>>
  BY <1>1, <1>2, BacklogShrinks
<1>3. ASSUME NEW c \in Conns, NEW f \in Frames, HandledBy(c, f)
      PROVE  BacklogWhileAway'
  <2>1. CASE HandleMessage(c, f) \/ HandleKeyRotate(c, f)
    BY <1>3, <2>1, BacklogRelayed DEF HandledBy
  <2>2. CASE HandlePublicKey(c, f)
    <3>1. \A k \in Keys : \/ history'[k] = << >>
                          \/ history'[k] = history[k] /\ online'[k] = online[k]
      BY <2>2 DEF HandlePublicKey, TypeOK
    <3> QED
      BY <1>1, <3>1, BacklogShrinks
  <2>3. CASE /\ ~(HandleMessage(c, f) \/ HandleKeyRotate(c, f))
             /\ ~HandlePublicKey(c, f)
    <3>1. UNCHANGED <<online, history>>
      BY <1>3, <2>3 DEF HandledBy, RelayFrame, AnswerFrame, HandleInviteResponse,
         HandleNewRoom, HandleInvite, DeclineInvite, DropInviteResponse,
         HandleOpenRoom, RefuseMessage, RefuseKeyRotate, Refuse, serverVars
    <3> QED
      BY <1>2, <3>1
  <2> QED
    BY <2>1, <2>2, <2>3
<1>4. ASSUME NEW c \in Conns, HandleClose(c)
      PROVE  BacklogWhileAway'
  <2>1. \A k \in Keys : history'[k] = history[k] /\ online'[k] \in {online[k], NoConn}
    BY <1>4 DEF HandleClose
  <2> QED
    BY <1>1, <2>1, BacklogShrinks
<1>5. ASSUME NEW c \in Conns,
             \/ \E k \in Keys : \E first \in Frames : Connect(k, c, first)
             \/ PostAny(c) \/ Receive(c) \/ Leave(c)
      PROVE  BacklogWhileAway'
  <2>1. UNCHANGED <<online, history>>
    BY <1>5 DEF Connect, PostAny, Post, Receive, Send, Leave, serverVars
  <2> QED
    BY <1>2, <2>1
<1>6. CASE UNCHANGED vars
  BY <1>2, <1>6 DEF vars, serverVars
<1> QED
  BY <1>3, <1>4, <1>5, <1>6, NextCases

LEMMA InitBacklog == Init => BacklogWhileAway
  BY DEF Init, ServerInit, BacklogWhileAway

(* PUBKEY hands the backlog over before anything is relayed live again, so *)
(* nobody's frames wait for who is online: only the author's own do.       *)
THEOREM BacklogOnlyWhileAway == Spec => []BacklogWhileAway
<1>1. Inv /\ BacklogWhileAway /\ [Next]_vars => BacklogWhileAway'
  BY NextBacklog
<1> QED
  BY <1>1, InitBacklog, Invariance, PTL DEF Spec

-----------------------------------------------------------------------------
(* What is kept for new members.                                           *)

(* What a suffix is, position by position.                                 *)
LEMMA SuffixMeans ==
    ASSUME NEW s \in Seq(Frames), NEW t \in Seq(Frames)
    PROVE  IsSuffix(s, t) <=> /\ Len(s) <= Len(t)
                              /\ \A i \in 1 .. Len(s) : s[i] = t[Len(t) - Len(s) + i]
<1> DEFINE m == Len(s)
           n == Len(t)
<1>1. m \in Nat /\ n \in Nat /\ DOMAIN s = 1 .. m /\ DOMAIN t = 1 .. n
  BY LenProperties
<1>2. /\ Reverse(s) = [i \in 1 .. m |-> s[(m - i) + 1]]
      /\ Reverse(t) = [i \in 1 .. n |-> t[(n - i) + 1]]
  BY DEF Reverse
<1>3. /\ Reverse(s) \in Seq(Frames) /\ Len(Reverse(s)) = m
      /\ Reverse(t) \in Seq(Frames) /\ Len(Reverse(t)) = n
  <2>1. \A i \in 1 .. m : s[(m - i) + 1] \in Frames
    BY <1>1, ElementOfSeq
  <2>2. \A i \in 1 .. n : t[(n - i) + 1] \in Frames
    BY <1>1, ElementOfSeq
  <2> QED
    BY <1>1, <1>2, <2>1, <2>2
<1>4. CASE m <= n
  <2>1. /\ SubSeq(Reverse(s), 1, m) = Reverse(s)
        /\ SubSeq(Reverse(t), 1, m) = [i \in 1 .. m |-> t[(n - i) + 1]]
    <3>1. SubSeq(Reverse(s), 1, m) = Reverse(s)
      BY <1>3, SubSeqFull
    <3>2. SubSeq(Reverse(t), 1, m) = [i \in 1 .. m |-> Reverse(t)[i]]
      BY <1>1, <1>3, <1>4
    <3>3. \A i \in 1 .. m : Reverse(t)[i] = t[(n - i) + 1]
      BY <1>1, <1>2, <1>4
    <3> QED
      BY <3>1, <3>2, <3>3
  <2>2. IsSuffix(s, t) <=> \A i \in 1 .. m : s[(m - i) + 1] = t[(n - i) + 1]
    <3>1. IsSuffix(s, t) <=> Reverse(s) = [i \in 1 .. m |-> t[(n - i) + 1]]
      BY <1>3, <1>4, <2>1 DEF IsSuffix, IsPrefix
    <3>2. [i \in 1 .. m |-> s[(m - i) + 1]] = [i \in 1 .. m |-> t[(n - i) + 1]]
          <=> \A i \in 1 .. m : s[(m - i) + 1] = t[(n - i) + 1]
      <4> DEFINE f == [i \in 1 .. m |-> s[(m - i) + 1]]
                 g == [i \in 1 .. m |-> t[(n - i) + 1]]
      <4>1. \A i \in 1 .. m : f[i] = s[(m - i) + 1] /\ g[i] = t[(n - i) + 1]
        OBVIOUS
      <4>2. f = g <=> \A i \in 1 .. m : f[i] = g[i]
        OBVIOUS
      <4> HIDE DEF f, g
      <4>3. f = g <=> \A i \in 1 .. m : s[(m - i) + 1] = t[(n - i) + 1]
        BY <4>1, <4>2
      <4> QED
        BY <4>3 DEF f, g
    <3> HIDE DEF m, n
    <3> QED
      BY <1>2, <3>1, <3>2
  <2>3. ASSUME \A i \in 1 .. m : s[(m - i) + 1] = t[(n - i) + 1], NEW i \in 1 .. m
        PROVE  s[i] = t[n - m + i]
    <3>1. (m - i) + 1 \in 1 .. m /\ (m - ((m - i) + 1)) + 1 = i
          /\ (n - ((m - i) + 1)) + 1 = n - m + i
      BY <1>1
    <3> QED
      BY <2>3, <3>1
  <2>4. ASSUME \A i \in 1 .. m : s[i] = t[n - m + i], NEW i \in 1 .. m
        PROVE  s[(m - i) + 1] = t[(n - i) + 1]
    <3>1. (m - i) + 1 \in 1 .. m /\ n - m + ((m - i) + 1) = (n - i) + 1
      BY <1>1
    <3> QED
      BY <2>4, <3>1
  <2> QED
    BY <1>4, <2>2, <2>3, <2>4
<1>5. CASE ~(m <= n)
  BY <1>3, <1>5 DEF IsSuffix, IsPrefix
<1> QED
  BY <1>4, <1>5

Rotates(f) == f.cmd = "ROOM.MESSAGE.KEY.ROTATE"

(* SinceLastRotation of one room with history h and log l, and what makes  *)
(* it inductive: only of an empty log is nothing kept.                     *)
Since(h, l) ==
    LET start == Len(l) - Len(h) + 1
    IN  /\ IsSuffix(h, l)
        /\ \A i \in DOMAIN l : Rotates(l[i]) => i <= start
        /\ start > 1 => Rotates(l[start])
        /\ Len(h) = 0 => Len(l) = 0

SinceOK == \A r \in Rooms : Since(roomsHistory[r], log[r])

LEMMA SinceAppends ==
    ASSUME NEW h \in Seq(Frames), NEW l \in Seq(Frames), NEW f \in Frames,
           Since(h, l), ~Rotates(f)
    PROVE  Since(Append(h, f), Append(l, f))
<1> DEFINE h2 == Append(h, f)
           l2 == Append(l, f)
           start == Len(l) - Len(h) + 1
<1>1. /\ Len(h) \in Nat /\ Len(l) \in Nat
      /\ DOMAIN l = 1 .. Len(l) /\ DOMAIN l2 = 1 .. Len(l) + 1
  BY LenProperties, AppendProperties
<1>2. /\ h2 \in Seq(Frames) /\ Len(h2) = Len(h) + 1 /\ h2[Len(h) + 1] = f
      /\ \A i \in 1 .. Len(h) : h2[i] = h[i]
  BY AppendProperties
<1>3. /\ l2 \in Seq(Frames) /\ Len(l2) = Len(l) + 1 /\ l2[Len(l) + 1] = f
      /\ \A i \in 1 .. Len(l) : l2[i] = l[i]
  BY AppendProperties
<1>4. Len(h) <= Len(l) /\ \A i \in 1 .. Len(h) : h[i] = l[Len(l) - Len(h) + i]
  BY SuffixMeans DEF Since
<1> HIDE DEF h2, l2
<1>5. IsSuffix(h2, l2)
  <2>1. ASSUME NEW i \in 1 .. Len(h2)
        PROVE  h2[i] = l2[Len(l2) - Len(h2) + i]
    <3>1. Len(l2) - Len(h2) + i = Len(l) - Len(h) + i
      BY <1>1, <1>2, <1>3
    <3>2. CASE i \in 1 .. Len(h)
      <4>1. Len(l) - Len(h) + i \in 1 .. Len(l)
        BY <1>1, <1>4, <3>2
      <4> QED
        BY <1>2, <1>3, <1>4, <3>1, <3>2, <4>1
    <3>3. CASE i = Len(h) + 1
      <4>1. Len(l) - Len(h) + i = Len(l) + 1
        BY <1>1, <3>3
      <4> QED
        BY <1>2, <1>3, <3>1, <3>3, <4>1
    <3> QED
      BY <1>1, <1>2, <2>1, <3>2, <3>3
  <2>2. Len(h2) <= Len(l2)
    BY <1>1, <1>2, <1>3, <1>4
  <2> QED
    BY <1>2, <1>3, <2>1, <2>2, SuffixMeans
<1>6. Len(l2) - Len(h2) + 1 = start
  BY <1>1, <1>2, <1>3
<1>7. ASSUME NEW i \in DOMAIN l2, Rotates(l2[i])
      PROVE  i <= start
  <2>1. i \in 1 .. Len(l)
    BY <1>1, <1>3, <1>7 DEF l2
  <2> QED
    BY <1>1, <1>3, <1>7, <2>1 DEF Since
<1>8. start > 1 => Rotates(l2[start])
  <2>1. start > 1 => start \in 1 .. Len(l)
    BY <1>1, <1>4 DEF Since
  <2> QED
    BY <1>3, <2>1 DEF Since
<1> HIDE DEF start
<1>9. Len(h2) # 0
  BY <1>1, <1>2
<1> QED
  BY <1>5, <1>6, <1>7, <1>8, <1>9 DEF Since, h2, l2

LEMMA SinceRotates ==
    ASSUME NEW l \in Seq(Frames), NEW f \in Frames, Rotates(f)
    PROVE  Since(<<f>>, Append(l, f))
<1> DEFINE h2 == <<f>>
           l2 == Append(l, f)
<1>1. /\ Len(l) \in Nat /\ l2 \in Seq(Frames) /\ Len(l2) = Len(l) + 1
      /\ DOMAIN l2 = 1 .. Len(l) + 1 /\ l2[Len(l) + 1] = f
  BY LenProperties, AppendProperties
<1>2. h2 \in Seq(Frames) /\ Len(h2) = 1 /\ h2[1] = f
  OBVIOUS
<1> HIDE DEF h2, l2
<1>3. IsSuffix(h2, l2)
  <2>1. Len(l2) - 1 + 1 = Len(l) + 1 /\ 1 <= Len(l2)
    BY <1>1
  <2>2. \A i \in 1 .. 1 : h2[i] = l2[Len(l2) - 1 + i]
    BY <1>1, <1>2, <2>1
  <2> QED
    BY <1>1, <1>2, <2>1, <2>2, SuffixMeans
<1>4. Len(l2) - Len(h2) + 1 = Len(l) + 1
  BY <1>1, <1>2
<1> QED
  BY <1>1, <1>2, <1>3, <1>4 DEF Since, h2, l2

LEMMA NextSince ==
    ASSUME TypeOK, SinceOK, [Next]_vars
    PROVE  SinceOK'
<1>1. CASE UNCHANGED <<roomsHistory, log>>
  BY <1>1 DEF SinceOK
<1>2. ASSUME NEW c \in Conns, NEW f \in Frames,
             HandleMessage(c, f) \/ HandleKeyRotate(c, f), Relayed(f.room, pubKey[c], f)
      PROVE  SinceOK'
  <2>1. f.room \in Rooms
    BY <1>2 DEF HandleMessage, HandleKeyRotate, KeyedRequest, Request, Frames,
                WellFormed, Posted
  <2>2. log' = [log EXCEPT ![f.room] = Append(@, f)]
    BY <1>2 DEF Relayed
  <2>3. ASSUME NEW r \in Rooms
        PROVE  Since(roomsHistory'[r], log'[r])
    <3>1. /\ roomsHistory[r] \in Seq(Frames) /\ log[r] \in Seq(Frames)
          /\ Since(roomsHistory[r], log[r])
      BY DEF TypeOK, SinceOK
    <3>2. CASE r # f.room
      BY <1>2, <2>1, <2>2, <3>1, <3>2 DEF HandleMessage, HandleKeyRotate, TypeOK
    <3>3. CASE r = f.room /\ HandleMessage(c, f)
      <4>1. ~Rotates(f)
        BY <3>3 DEF HandleMessage, KeyedRequest, Request, Rotates
      <4>2. /\ roomsHistory'[r] = Append(roomsHistory[r], f)
            /\ log'[r] = Append(log[r], f)
        BY <2>1, <2>2, <3>3 DEF HandleMessage, TypeOK
      <4> QED
        BY <3>1, <4>1, <4>2, SinceAppends
    <3>4. CASE r = f.room /\ HandleKeyRotate(c, f)
      <4>1. Rotates(f)
        BY <3>4 DEF HandleKeyRotate, KeyedRequest, Request, Rotates
      <4>2. roomsHistory'[r] = <<f>> /\ log'[r] = Append(log[r], f)
        BY <2>1, <2>2, <3>4 DEF HandleKeyRotate, TypeOK
      <4> QED
        BY <3>1, <4>1, <4>2, SinceRotates
    <3> QED
      BY <1>2, <3>2, <3>3, <3>4
  <2> QED
    BY <2>3 DEF SinceOK
<1>3. ASSUME NEW c \in Conns, NEW f \in Frames, HandledBy(c, f)
      PROVE  SinceOK'
  <2>1. CASE HandleMessage(c, f) \/ HandleKeyRotate(c, f)
    <3>1. Relayed(f.room, pubKey[c], f)
      BY <1>3, <2>1 DEF HandledBy, RelayFrame, AnswerFrame, HandleMessage,
         HandleKeyRotate, HandleInviteResponse, HandlePublicKey, HandleNewRoom,
         HandleInvite, DeclineInvite, DropInviteResponse, HandleOpenRoom, RefuseMessage,
         RefuseKeyRotate, KeyedRequest, Request
    <3> QED
      BY <1>2, <2>1, <3>1
  <2>2. CASE ~(HandleMessage(c, f) \/ HandleKeyRotate(c, f))
    <3>1. UNCHANGED <<roomsHistory, log>>
      BY <1>3, <2>2 DEF HandledBy, RelayFrame, Hand, AnswerFrame, HandleInviteResponse,
         HandlePublicKey, HandleNewRoom, HandleInvite, DeclineInvite,
         DropInviteResponse, HandleOpenRoom, RefuseMessage, RefuseKeyRotate, Refuse,
         serverVars
    <3> QED
      BY <1>1, <3>1
  <2> QED
    BY <2>1, <2>2
<1>4. ASSUME NEW c \in Conns,
             \/ \E k \in Keys : \E first \in Frames : Connect(k, c, first)
             \/ PostAny(c) \/ Receive(c) \/ Leave(c)
             \/ HandleClose(c) /\ UNCHANGED <<clientVars, logVars>>
      PROVE  UNCHANGED <<roomsHistory, log>>
  BY <1>4 DEF Connect, PostAny, Post, Receive, Send, Leave, HandleClose, serverVars, logVars
<1>5. CASE UNCHANGED vars
  BY <1>1, <1>5 DEF vars, serverVars, logVars
<1> QED
  BY <1>1, <1>3, <1>4, <1>5, NextCases

LEMMA InitSince == Init => SinceOK
<1> DEFINE none == << >>
<1>1. none \in Seq(Frames) /\ Len(none) = 0 /\ DOMAIN none = {}
  BY EmptySeq
<1> HIDE DEF none
<1>2. IsSuffix(none, none)
  <2>1. Len(none) <= Len(none) /\ \A i \in 1 .. Len(none) : none[i] = none[Len(none) - Len(none) + i]
    BY <1>1
  <2> QED
    BY <1>1, <2>1, SuffixMeans
<1>3. Since(none, none)
  BY <1>1, <1>2 DEF Since
<1> QED
  BY <1>3 DEF none, Init, ServerInit, SinceOK

(* A new member is given the room's log since the last rotation, whole, in *)
(* order and with the rotation: MESSAGE appends to rooms_history what KEY. *)
(* ROTATE replaces (server.py:104-107, 123).                               *)
THEOREM KeepsSinceRotation == Spec => []SinceLastRotation
<1>1. SinceOK => SinceLastRotation
  BY DEF SinceOK, Since, SinceLastRotation, Rotates
<1> QED
  BY <1>1, InitType, NextType, InitSince, NextSince, PTL DEF Spec

-----------------------------------------------------------------------------
(* Frames that travel only once.  F is a set of frames; q and q2 are the   *)
(* queues of all connections before and after a step.                      *)

Nowhere(q, F) == \A c \in Conns : \A i \in DOMAIN q[c] : q[c][i] \notin F

AtMostOnce(q, F) ==
    \A c, d \in Conns : \A i \in DOMAIN q[c], j \in DOMAIN q[d] :
        q[c][i] \in F /\ q[d][j] \in F => c = d /\ i = j

Keeps(q, q2, F) ==
    /\ Nowhere(q, F) => Nowhere(q2, F)
    /\ AtMostOnce(q, F) => AtMostOnce(q2, F)

(* Every frame of F was there before, o[c] positions further back.         *)
LEMMA Carried ==
    ASSUME NEW q, NEW q2, NEW F, NEW o \in [Conns -> Nat],
           \A c \in Conns : DOMAIN q2[c] \subseteq Nat,
           \A c \in Conns : \A i \in DOMAIN q2[c] :
              q2[c][i] \in F => i + o[c] \in DOMAIN q[c] /\ q2[c][i] = q[c][i + o[c]]
    PROVE  Keeps(q, q2, F)
<1>1. ASSUME Nowhere(q, F)
      PROVE  Nowhere(q2, F)
  BY <1>1 DEF Nowhere
<1>2. ASSUME AtMostOnce(q, F), NEW c \in Conns, NEW d \in Conns,
             NEW i \in DOMAIN q2[c], NEW j \in DOMAIN q2[d], q2[c][i] \in F, q2[d][j] \in F
      PROVE  c = d /\ i = j
  <2>1. /\ i + o[c] \in DOMAIN q[c] /\ q[c][i + o[c]] \in F
        /\ j + o[d] \in DOMAIN q[d] /\ q[d][j + o[d]] \in F
    BY <1>2
  <2>2. c = d /\ i + o[c] = j + o[d]
    BY <1>2, <2>1 DEF AtMostOnce
  <2>3. i \in Nat /\ j \in Nat /\ o[c] \in Nat
    BY <1>2
  <2> QED
    BY <2>2, <2>3
<1> QED
  BY <1>1, <1>2 DEF Keeps, AtMostOnce

LEMMA TailKeeps ==
    ASSUME NEW q \in [Conns -> Seq(Frames)], NEW c \in Conns, q[c] # << >>,
           NEW q2, q2 = [q EXCEPT ![c] = Tail(@)], NEW F
    PROVE  /\ Keeps(q, q2, F)
           /\ AtMostOnce(q, F) /\ Head(q[c]) \in F => Nowhere(q2, F)
           /\ \A d \in Conns : \A i \in DOMAIN q2[d] :
                 \E j \in DOMAIN q[d] : q2[d][i] = q[d][j]
<1> DEFINE o == [d \in Conns |-> IF d = c THEN 1 ELSE 0]
<1>1. /\ Len(q[c]) \in Nat /\ Len(q[c]) > 0
      /\ DOMAIN q[c] = 1 .. Len(q[c])
      /\ Head(q[c]) = q[c][1]
  BY EmptySeq, LenProperties
<1>2. /\ DOMAIN q2[c] = 1 .. Len(q[c]) - 1
      /\ \A i \in 1 .. Len(q[c]) - 1 : q2[c][i] = q[c][i + 1]
  <2>1. q2[c] = Tail(q[c])
    OBVIOUS
  <2>2. /\ Tail(q[c]) \in Seq(Frames)
        /\ Len(Tail(q[c])) = Len(q[c]) - 1
        /\ \A i \in 1 .. Len(Tail(q[c])) : Tail(q[c])[i] = q[c][i + 1]
    BY HeadTailProperties
  <2> QED
    BY <2>1, <2>2, LenProperties
<1>3. \A d \in Conns : d # c => q2[d] = q[d] /\ DOMAIN q[d] = 1 .. Len(q[d])
  BY LenProperties
<1>4. ASSUME NEW d \in Conns, NEW i \in DOMAIN q2[d]
      PROVE  i \in Nat /\ i + o[d] \in DOMAIN q[d] /\ q2[d][i] = q[d][i + o[d]]
  <2>1. CASE d = c
    BY <1>1, <1>2, <1>4, <2>1
  <2>2. CASE d # c
    BY <1>3, <1>4, <2>2
  <2> QED
    BY <2>1, <2>2
<1>5. o \in [Conns -> Nat]
  OBVIOUS
<1>6. Keeps(q, q2, F)
  <2> HIDE DEF o
  <2> QED
    BY <1>4, <1>5, Carried
<1>7. ASSUME AtMostOnce(q, F), Head(q[c]) \in F
      PROVE  Nowhere(q2, F)
  <2>1. ASSUME NEW d \in Conns, NEW i \in DOMAIN q2[d], q2[d][i] \in F
        PROVE  FALSE
    <3>1. 1 \in DOMAIN q[c] /\ q[c][1] \in F
      BY <1>1, <1>7
    <3>2. d = c /\ i + o[d] = 1
      BY <1>4, <1>7, <2>1, <3>1 DEF AtMostOnce
    <3> QED
      BY <1>1, <1>2, <2>1, <3>2
  <2> QED
    BY <2>1 DEF Nowhere
<1> QED
  BY <1>4, <1>6, <1>7

(* A queue grows by frame f, or by the sequence fs of frames not in F.     *)
LEMMA AppendKeeps ==
    ASSUME NEW q \in [Conns -> Seq(Frames)], NEW c \in Conns, NEW f \in Frames,
           NEW q2, q2 = [q EXCEPT ![c] = Append(@, f)], NEW F
    PROVE  /\ f \notin F => Keeps(q, q2, F)
           /\ Nowhere(q, F) => AtMostOnce(q2, F)
           /\ \A d \in Conns : \A i \in DOMAIN q2[d] :
                 q2[d][i] = f \/ \E j \in DOMAIN q[d] : q2[d][i] = q[d][j]
<1> DEFINE o == [d \in Conns |-> 0]
<1>1. /\ Len(q[c]) \in Nat
      /\ DOMAIN q[c] = 1 .. Len(q[c])
      /\ q2[c] = Append(q[c], f)
      /\ DOMAIN Append(q[c], f) = 1 .. Len(q[c]) + 1
      /\ \A i \in 1 .. Len(q[c]) : Append(q[c], f)[i] = q[c][i]
      /\ Append(q[c], f)[Len(q[c]) + 1] = f
  BY AppendProperties, LenProperties
<1>2. \A d \in Conns : d # c => q2[d] = q[d] /\ DOMAIN q[d] = 1 .. Len(q[d])
  BY LenProperties
<1>3. ASSUME NEW d \in Conns, NEW i \in DOMAIN q2[d]
      PROVE  /\ i \in Nat
             /\ \/ i + o[d] \in DOMAIN q[d] /\ q2[d][i] = q[d][i + o[d]]
                \/ d = c /\ i = Len(q[c]) + 1 /\ q2[d][i] = f
  <2>1. CASE d = c
    BY <1>1, <1>3, <2>1
  <2>2. CASE d # c
    BY <1>2, <1>3, <2>2
  <2> QED
    BY <2>1, <2>2
<1>4. o \in [Conns -> Nat]
  OBVIOUS
<1> HIDE DEF o
<1>5. f \notin F => Keeps(q, q2, F)
  BY <1>3, <1>4, Carried
<1>6. Nowhere(q, F) => AtMostOnce(q2, F)
  BY <1>3 DEF Nowhere, AtMostOnce
<1> QED
  BY <1>3, <1>5, <1>6

LEMMA CutKeeps ==
    ASSUME NEW q \in [Conns -> Seq(Frames)], NEW c \in Conns, NEW n \in 0 .. Len(q[c]),
           NEW q2, q2 = [q EXCEPT ![c] = SubSeq(@, 1, n)], NEW F
    PROVE  /\ Keeps(q, q2, F)
           /\ \A d \in Conns : \A i \in DOMAIN q2[d] :
                 i \in DOMAIN q[d] /\ q2[d][i] = q[d][i]
<1> DEFINE o == [d \in Conns |-> 0]
<1>1. /\ Len(q[c]) \in Nat
      /\ DOMAIN q[c] = 1 .. Len(q[c])
      /\ \A i \in 1 .. Len(q[c]) : q[c][i] \in Frames
  BY LenProperties, ElementOfSeq
<1>2. /\ DOMAIN q2[c] = 1 .. n
      /\ \A i \in 1 .. n : q2[c][i] = q[c][i]
  <2>1. /\ SubSeq(q[c], 1, n) \in Seq(Frames)
        /\ Len(SubSeq(q[c], 1, n)) = n
        /\ \A i \in 1 .. n : SubSeq(q[c], 1, n)[i] = q[c][i]
    BY <1>1, SubSeqProperties
  <2>2. q2[c] = SubSeq(q[c], 1, n)
    OBVIOUS
  <2> QED
    BY <2>1, <2>2, LenProperties
<1>3. \A d \in Conns : d # c => q2[d] = q[d] /\ DOMAIN q[d] = 1 .. Len(q[d])
  BY LenProperties
<1>4. ASSUME NEW d \in Conns, NEW i \in DOMAIN q2[d]
      PROVE  /\ i \in Nat /\ i + o[d] \in DOMAIN q[d] /\ q2[d][i] = q[d][i + o[d]]
             /\ i \in DOMAIN q[d] /\ q2[d][i] = q[d][i]
  <2>1. CASE d = c
    BY <1>1, <1>2, <1>4, <2>1
  <2>2. CASE d # c
    BY <1>3, <1>4, <2>2
  <2> QED
    BY <2>1, <2>2
<1>5. o \in [Conns -> Nat]
  OBVIOUS
<1> HIDE DEF o
<1>6. Keeps(q, q2, F)
  <2>1. \A d \in Conns : DOMAIN q2[d] \subseteq Nat
    BY <1>4
  <2>2. \A d \in Conns : \A i \in DOMAIN q2[d] :
          i + o[d] \in DOMAIN q[d] /\ q2[d][i] = q[d][i + o[d]]
    BY <1>4
  <2> QED
    BY <1>5, <2>1, <2>2, Carried
<1> QED
  BY <1>4, <1>6

LEMMA OpenKeeps ==
    ASSUME NEW q \in [Conns -> Seq(Frames)], NEW c \in Conns, q[c] = << >>,
           NEW a \in Frames, NEW b \in Frames, NEW F, a \notin F,
           NEW q2, q2 = [q EXCEPT ![c] = <<a, b>>]
    PROVE  /\ b \notin F => Keeps(q, q2, F)
           /\ Nowhere(q, F) => AtMostOnce(q2, F)
<1>1. ASSUME NEW d \in Conns, NEW i \in DOMAIN q2[d]
      PROVE  \/ i \in DOMAIN q[d] /\ q2[d][i] = q[d][i]
             \/ q2[d][i] = a
             \/ d = c /\ i = 2 /\ q2[d][i] = b
  BY <1>1
<1>2. \A d \in Conns : \A i \in DOMAIN q2[d] :
        q2[d][i] \in F => \/ i \in DOMAIN q[d] /\ q2[d][i] = q[d][i]
                          \/ d = c /\ i = 2 /\ q2[d][i] = b
  BY <1>1
<1>3. b \notin F => Keeps(q, q2, F)
  BY <1>2 DEF Keeps, Nowhere, AtMostOnce
<1>4. Nowhere(q, F) => AtMostOnce(q2, F)
  BY <1>2 DEF Nowhere, AtMostOnce
<1> QED
  BY <1>3, <1>4

(* What the server sends: nothing of F, or one frame to one connection.    *)
LEMMA SendKeeps ==
    ASSUME down \in [Conns -> Seq(Frames)], NEW fs, NEW F,
           \A c \in Conns : fs[c] \in Seq(Frames) /\ \A i \in DOMAIN fs[c] : fs[c][i] \notin F,
           SendDown(fs)
    PROVE  Keeps(down, down', F)
<1> DEFINE o == [d \in Conns |-> 0]
<1>1. ASSUME NEW c \in Conns, NEW i \in DOMAIN down'[c]
      PROVE  /\ i \in Nat
             /\ down'[c][i] \in F => i + o[c] \in DOMAIN down[c]
                                     /\ down'[c][i] = down[c][i + o[c]]
  <2> DEFINE s == down[c]
             t == fs[c]
  <2>1. /\ s \in Seq(Frames) /\ Len(s) \in Nat /\ DOMAIN s = 1 .. Len(s)
        /\ t \in Seq(Frames) /\ Len(t) \in Nat /\ DOMAIN t = 1 .. Len(t)
        /\ \A j \in DOMAIN t : t[j] \notin F
        /\ down'[c] = s \/ down'[c] = s \o t
    BY LenProperties DEF SendDown
  <2> HIDE DEF s, t
  <2>2. /\ DOMAIN (s \o t) = 1 .. Len(s) + Len(t)
        /\ \A j \in 1 .. Len(s) + Len(t) :
              (s \o t)[j] = IF j <= Len(s) THEN s[j] ELSE t[j - Len(s)]
    BY <2>1, ConcatProperties, LenProperties
  <2>3. i \in Nat /\ (down'[c][i] \in F => i \in DOMAIN s /\ down'[c][i] = s[i])
    <3>1. CASE down'[c] = s
      BY <1>1, <2>1, <3>1
    <3>2. CASE down'[c] = s \o t /\ i <= Len(s)
      BY <1>1, <2>1, <2>2, <3>2
    <3>3. CASE down'[c] = s \o t /\ ~(i <= Len(s))
      <4>1. i \in 1 .. Len(s) + Len(t) /\ i - Len(s) \in DOMAIN t /\ (s \o t)[i] = t[i - Len(s)]
        BY <1>1, <2>1, <2>2, <3>3
      <4> QED
        BY <2>1, <3>3, <4>1
    <3> QED
      BY <2>1, <3>1, <3>2, <3>3
  <2>4. o[c] = 0
    OBVIOUS
  <2> QED
    BY <2>3, <2>4 DEF s
<1>2. o \in [Conns -> Nat]
  OBVIOUS
<1> HIDE DEF o
<1> QED
  BY <1>1, <1>2, Carried

LEMMA SendToKeeps ==
    ASSUME down \in [Conns -> Seq(Frames)], NEW d, NEW fs \in Seq(Frames), NEW F,
           \A i \in DOMAIN fs : fs[i] \notin F, SendTo(d, fs)
    PROVE  Keeps(down, down', F)
<1> DEFINE sent == [x \in Conns |-> IF x = d THEN fs ELSE << >>]
<1>1. << >> \in Seq(Frames) /\ DOMAIN << >> = {}
  BY EmptySeq
<1>2. \A c \in Conns : sent[c] \in Seq(Frames) /\ \A i \in DOMAIN sent[c] : sent[c][i] \notin F
  BY <1>1
<1>3. SendDown(sent)
  BY DEF SendTo
<1> HIDE DEF sent
<1> QED
  BY <1>2, <1>3, SendKeeps

LEMMA SendOneKeeps ==
    ASSUME down \in [Conns -> Seq(Frames)], NEW d, NEW f \in Frames, NEW F,
           SendTo(d, <<f>>)
    PROVE  /\ f \notin F => Keeps(down, down', F)
           /\ Nowhere(down, F) => AtMostOnce(down', F)
<1>1. f \notin F => Keeps(down, down', F)
  <2> DEFINE fs == <<f>>
  <2>1. fs \in Seq(Frames) /\ \A i \in DOMAIN fs : fs[i] = f
    OBVIOUS
  <2> HIDE DEF fs
  <2> QED
    BY <2>1, SendToKeeps DEF fs
<1>2. ASSUME NEW c \in Conns
      PROVE  \/ down'[c] = down[c]
             \/ c = d /\ down'[c] = Append(down[c], f)
  <2>1. \/ down'[c] = down[c]
        \/ c = d /\ down'[c] = down[c] \o <<f>>
        \/ down'[c] = down[c] \o << >>
    BY DEF SendTo, SendDown
  <2>2. down[c] \o << >> = down[c] /\ down[c] \o <<f>> = Append(down[c], f)
    BY ConcatEmptySeq, AppendIsConcat
  <2> QED
    BY <2>1, <2>2
<1>3. ASSUME NEW c \in Conns, NEW i \in DOMAIN down'[c]
      PROVE  \/ i \in DOMAIN down[c] /\ down'[c][i] = down[c][i]
             \/ c = d /\ i = Len(down[c]) + 1
  <2>1. /\ Len(down[c]) \in Nat
        /\ DOMAIN down[c] = 1 .. Len(down[c])
        /\ DOMAIN Append(down[c], f) = 1 .. Len(down[c]) + 1
        /\ \A j \in 1 .. Len(down[c]) : Append(down[c], f)[j] = down[c][j]
    BY AppendProperties, LenProperties
  <2> QED
    BY <1>2, <1>3, <2>1
<1>4. Nowhere(down, F) => AtMostOnce(down', F)
  BY <1>3 DEF Nowhere, AtMostOnce
<1> QED
  BY <1>1, <1>4

-----------------------------------------------------------------------------
(* A key asks to be let in once.                                           *)

(* Key k's request on its way to the server, be it from k or, as the       *)
(* owner's answer, on its behalf; and on its way to the owner.             *)
AskUp(k) ==
    {f \in Frames : \/ f.cmd = "ROOM.INVITE.VERIFICATION_REQUEST" /\ f.from = k
                    \/ f.cmd = "ROOM.INVITE.VERIFICATION_RESPONSE" /\ f.key = k}

AskDown(k) ==
    {f \in Frames : f.cmd = "ROOM.INVITE.VERIFICATION_REQUEST" /\ f.from = k}

NotAsking(k) == Nowhere(up, AskUp(k)) /\ Nowhere(down, AskDown(k))

Creating(k) ==
    \E c \in Conns : \E i \in DOMAIN up[c] :
        up[c][i].cmd = "ROOM.CREATE" /\ Speaker(c) = k

AsksOnce(k) ==
    /\ AtMostOnce(up, AskUp(k))
    /\ AtMostOnce(down, AskDown(k))
    /\ Nowhere(up, AskUp(k)) \/ Nowhere(down, AskDown(k))
    /\ k \notin used => NotAsking(k)
    /\ Creating(k) => NotAsking(k)
    /\ \A r \in Rooms : k \in users[r] => NotAsking(k)

Speaking(c) == pubKey[c] # NoKey \/ up[c] # << >>

SpeakersUsed ==
    /\ \A c \in Conns : Speaking(c) => Speaker(c) \in used
    /\ \A r \in Rooms : users[r] \subseteq used

AsksOK == SpeakersUsed /\ \A k \in Keys : AsksOnce(k)

(* For whom a connection speaks changes only when it is made.              *)
LEMMA SpeakerStays ==
    ASSUME TypeOK, SpeakersOK, NEW c \in Conns, Speaking(c)',
           \/ PostAny(c) \/ Receive(c) \/ Leave(c)
           \/ HandleClose(c) /\ UNCHANGED <<clientVars, logVars>>
           \/ \E f \in Frames : HandledBy(c, f)
    PROVE  Speaking(c) /\ Speaker(c)' = Speaker(c)
<1>0. /\ Len(up[c]) \in Nat /\ DOMAIN up[c] = 1 .. Len(up[c])
      /\ up[c] # << >> => Len(up[c]) > 0 /\ up[c][1] \in Frames
  BY EmptySeq, LenProperties, ElementOfSeq DEF TypeOK
<1>1. CASE \E f \in Frames : Send(c, f)
  <2>1. PICK f \in Frames : Send(c, f)
    BY <1>1
  <2>2. /\ link[c] = "open" /\ pubKey' = pubKey /\ up'[c] = Append(up[c], f)
    BY <2>1 DEF Send, serverVars, TypeOK
  <2>3. \A i \in 1 .. Len(up[c]) : Append(up[c], f)[i] = up[c][i]
    BY AppendProperties DEF TypeOK
  <2>4. pubKey[c] = NoKey => up[c] # << >> /\ up'[c][1] = up[c][1]
    BY <1>0, <2>2, <2>3 DEF SpeakersOK, SpeaksForOne
  <2> QED
    BY <2>2, <2>4 DEF Speaker, Speaking
<1>2. CASE UNCHANGED <<up, pubKey>>
  BY <1>2 DEF Speaker, Speaking
<1>3. CASE PostAny(c)
  BY <1>1, <1>3, ClientFrames DEF PostAny, Post
<1>4. CASE Receive(c)
  <2> DEFINE f == Head(down[c])
             answer == InviteResponse(f.from, f.room, f.key, NoBody)
  <2>1. f \in Frames
    BY <1>4, HeadTailProperties DEF Receive, TypeOK
  <2>2. CASE f.cmd = "ROOM.INVITE.VERIFICATION_REQUEST"
    <3>1. answer \in Frames
      BY <2>1, <2>2, ClientFrames DEF Frames, WellFormed, Verification
    <3>2. Send(c, answer)
      BY <1>4, <2>2 DEF Receive
    <3> QED
      BY <1>1, <3>1, <3>2
  <2>3. CASE f.cmd # "ROOM.INVITE.VERIFICATION_REQUEST"
    BY <1>2, <1>4, <2>3 DEF Receive, serverVars
  <2> QED
    BY <2>2, <2>3
<1>5. CASE Leave(c)
  <2>1. PICK n \in 0 .. Len(up[c]) : Disconnect(c, n)
    BY <1>5 DEF Leave
  <2>2. pubKey' = pubKey /\ up'[c] = SubSeq(up[c], 1, n)
    BY <1>5, <2>1 DEF Leave, Disconnect, serverVars, TypeOK
  <2>3. up'[c] # << >> => up[c] # << >> /\ up'[c][1] = up[c][1]
    <3>1. \A i \in 1 .. Len(up[c]) : up[c][i] \in Frames
      BY <1>0, ElementOfSeq DEF TypeOK
    <3>2. /\ SubSeq(up[c], 1, n) \in Seq(Frames)
          /\ Len(SubSeq(up[c], 1, n)) = n
          /\ \A i \in 1 .. n : SubSeq(up[c], 1, n)[i] = up[c][i]
      BY <1>0, <3>1, SubSeqProperties
    <3>3. SubSeq(up[c], 1, n) # << >> => n > 0
      BY <1>0, <3>2, EmptySeq
    <3> QED
      BY <1>0, <2>2, <3>2, <3>3, EmptySeq
  <2> QED
    BY <2>2, <2>3 DEF Speaker, Speaking
<1>6. CASE HandleClose(c) /\ UNCHANGED <<clientVars, logVars>>
  BY <1>6 DEF HandleClose, FreeLink, Closing, Speaking, TypeOK
<1>7. ASSUME NEW f \in Frames, HandledBy(c, f)
      PROVE  Speaking(c) /\ Speaker(c)' = Speaker(c)
  <2>1. up[c] # << >> /\ f = up[c][1]
    BY <1>7 DEF HandledBy
  <2>2. CASE HandlePublicKey(c, f)
    <3>1. f.cmd = "PUBKEY" /\ pubKey' = [pubKey EXCEPT ![c] = f.key]
      BY <2>2 DEF HandlePublicKey, Request
    <3>2. pubKey[c] = NoKey /\ f.key \in Keys
      BY <1>0, <2>1, <3>1 DEF SpeakersOK, SpeaksForOne, Frames, WellFormed
    <3> QED
      BY <2>1, <3>1, <3>2, ConstantsOK DEF Speaker, Speaking, TypeOK
  <2>3. CASE ~HandlePublicKey(c, f)
    <3>1. pubKey' = pubKey /\ pubKey[c] # NoKey
      BY <1>7, <2>3 DEF HandledBy, RelayFrame, AnswerFrame, HandleMessage, HandleKeyRotate,
                HandleInviteResponse, HandleNewRoom, HandleInvite, DeclineInvite,
                DropInviteResponse, HandleOpenRoom, RefuseMessage, RefuseKeyRotate, Refuse,
                KeyedRequest, Request, serverVars
    <3> QED
      BY <3>1 DEF Speaker, Speaking
  <2> QED
    BY <2>2, <2>3
<1> QED
  BY <1>3, <1>4, <1>5, <1>6, <1>7

LEMMA SpeakersStay ==
    ASSUME TypeOK, SpeakersOK, NEW c \in Conns,
           \/ PostAny(c) \/ Receive(c) \/ Leave(c)
           \/ HandleClose(c) /\ UNCHANGED <<clientVars, logVars>>
           \/ \E f \in Frames : HandledBy(c, f)
    PROVE  \A d \in Conns : Speaking(d)' => Speaking(d) /\ Speaker(d)' = Speaker(d)
<1>1. ASSUME NEW d \in Conns, d # c
      PROVE  up'[d] = up[d] /\ pubKey'[d] = pubKey[d]
  <2>1. CASE PostAny(c) \/ Receive(c) \/ Leave(c) \/ HandleClose(c)
    BY <1>1, <2>1 DEF PostAny, Post, Receive, Send, Leave, Disconnect, HandleClose,
                      FreeLink, serverVars, TypeOK
  <2>2. ASSUME NEW f \in Frames, HandledBy(c, f)
        PROVE  up'[d] = up[d] /\ pubKey'[d] = pubKey[d]
    BY <1>1, <2>2 DEF HandledBy, RelayFrame, AnswerFrame, HandleMessage, HandleKeyRotate,
         HandleInviteResponse, HandlePublicKey, HandleNewRoom, HandleInvite, DeclineInvite,
         DropInviteResponse, HandleOpenRoom, RefuseMessage, RefuseKeyRotate, Refuse,
         KeyedRequest, Request, TakeUp, serverVars, TypeOK
  <2> QED
    BY <2>1, <2>2
<1>2. ASSUME NEW d \in Conns, d # c, Speaking(d)'
      PROVE  Speaking(d) /\ Speaker(d)' = Speaker(d)
  BY <1>1, <1>2 DEF Speaking, Speaker
<1> QED
  BY <1>2, SpeakerStays

LEMMA SpeakersKept ==
    ASSUME SpeakersUsed, used \subseteq used',
           \A d \in Conns : Speaking(d)' => Speaking(d) /\ Speaker(d)' = Speaker(d),
           \A r \in Rooms : users'[r] \subseteq used'
    PROVE  SpeakersUsed'
  BY DEF SpeakersUsed

LEMMA CreatingStays ==
    ASSUME TypeOK,
           \A d \in Conns : Speaking(d)' => Speaking(d) /\ Speaker(d)' = Speaker(d),
           \A d \in Conns : \A i \in DOMAIN up'[d] : up'[d][i].cmd = "ROOM.CREATE" =>
              \E j \in DOMAIN up[d] : up'[d][i] = up[d][j],
           up' \in [Conns -> Seq(Frames)],
           NEW k, Creating(k)'
    PROVE  Creating(k)
<1>1. PICK d \in Conns : \E i \in DOMAIN up'[d] :
        up'[d][i].cmd = "ROOM.CREATE" /\ Speaker(d)' = k
  BY DEF Creating
<1>2. up'[d] # << >>
  BY <1>1, EmptySeq
<1> QED
  BY <1>1, <1>2 DEF Creating, Speaking

(* A step that leaves k's request, if there is one, where it is.           *)
LEMMA KeyKept ==
    ASSUME NEW k, AsksOnce(k), used \subseteq used',
           Keeps(up, up', AskUp(k)), Keeps(down, down', AskDown(k)),
           Creating(k)' => Creating(k) \/ NotAsking(k),
           \A r \in Rooms : k \in users'[r] => k \in users[r] \/ NotAsking(k)
    PROVE  AsksOnce(k)'
<1>1. NotAsking(k) => NotAsking(k)'
  BY DEF NotAsking, Keeps, AskUp, AskDown
<1>2. (AtMostOnce(up, AskUp(k)) /\ AtMostOnce(down, AskDown(k)))'
  BY DEF AsksOnce, Keeps, AskUp, AskDown
<1>3. (Nowhere(up, AskUp(k)) \/ Nowhere(down, AskDown(k)))'
  BY DEF AsksOnce, Keeps, AskUp, AskDown
<1> QED
  BY <1>1, <1>2, <1>3 DEF AsksOnce

(* A client that connects asks, if at all, with the first connection of    *)
(* its key.                                                                *)
LEMMA ConnectAsks ==
    ASSUME TypeOK, SpeakersOK, AsksOK, NEW k \in Keys, NEW c \in Conns,
           FirstConnect(k, c) \/ Reconnect(k, c)
    PROVE  AsksOK'
<1>1. PICK first \in Frames :
        /\ Connect(k, c, first)
        /\ \/ k \notin used /\ first = NewRoom
           \/ k \notin used /\ \E r \in Rooms, o \in Keys : first = Invite(o, r, k, NoBody)
           \/ \E r \in Rooms : first = OpenRoom(r)
  BY ClientFrames DEF FirstConnect, Reconnect
<1>2. /\ up[c] = << >> /\ pubKey[c] = NoKey
      /\ up' = [up EXCEPT ![c] = <<PublicKey(k), first>>]
      /\ down' = down /\ pubKey' = pubKey /\ users' = users
      /\ used' = used \cup {k}
  BY <1>1 DEF Connect, OpenLink, serverVars, SpeakersOK, SpeaksForOne, TypeOK
<1>3. /\ PublicKey(k) \in Frames /\ PublicKey(k).key = k
      /\ PublicKey(k).cmd = "PUBKEY" /\ \A u : PublicKey(k) \notin AskUp(u)
  BY ClientFrames DEF PublicKey, Frame, AskUp
<1>4. /\ Speaker(c)' = k
      /\ \A d \in Conns : d # c => up'[d] = up[d] /\ Speaker(d)' = Speaker(d)
                                   /\ (Speaking(d)' <=> Speaking(d))
  BY <1>2, <1>3 DEF Speaker, Speaking, TypeOK
<1>5. SpeakersUsed'
  BY <1>2, <1>4 DEF AsksOK, SpeakersUsed
<1>6. ASSUME NEW u \in Keys, Creating(u)'
      PROVE  Creating(u) \/ (u = k /\ first = NewRoom)
  <2>1. PICK d \in Conns : \E i \in DOMAIN up'[d] :
          up'[d][i].cmd = "ROOM.CREATE" /\ Speaker(d)' = u
    BY <1>6 DEF Creating
  <2>2. CASE d # c
    BY <1>4, <2>1, <2>2 DEF Creating
  <2>3. CASE d = c
    <3>1. u = k /\ first.cmd = "ROOM.CREATE"
      BY <1>2, <1>3, <1>4, <2>1, <2>3 DEF TypeOK
    <3> QED
      BY <1>1, <3>1 DEF Invite, OpenRoom, Frame
  <2> QED
    BY <2>2, <2>3
<1>7. ASSUME NEW u \in Keys
      PROVE  AsksOnce(u)'
  <2>1. /\ first \notin AskUp(u) => Keeps(up, up', AskUp(u))
        /\ Nowhere(up, AskUp(u)) => AtMostOnce(up', AskUp(u))
    BY <1>2, <1>3, OpenKeeps DEF TypeOK
  <2>2. Keeps(down, down', AskDown(u))
    BY <1>2 DEF Keeps
  <2>3. AsksOnce(u)
    BY DEF AsksOK
  <2>4. CASE first \notin AskUp(u)
    <3>1. Creating(u)' => Creating(u) \/ NotAsking(u)
      <4>1. NewRoom.cmd = "ROOM.CREATE" /\ \A r : OpenRoom(r).cmd = "ROOM.OPEN"
        BY DEF NewRoom, OpenRoom, Frame
      <4>2. first = NewRoom => k \notin used
        BY <1>1, <4>1
      <4>3. u = k /\ first = NewRoom => NotAsking(u)
        BY <2>3, <4>2 DEF AsksOnce
      <4> QED
        BY <1>6, <4>3
    <3>2. used \subseteq used' /\ \A r \in Rooms : users'[r] = users[r]
      BY <1>2
    <3> QED
      BY <2>1, <2>2, <2>3, <2>4, <3>1, <3>2, KeyKept
  <2>5. CASE first \in AskUp(u)
    <3>1. u = k /\ k \notin used /\ first # NewRoom
      BY <1>1, <2>5 DEF AskUp, NewRoom, OpenRoom, Invite, Frame
    <3>2. NotAsking(u)
      BY <2>3, <3>1 DEF AsksOnce
    <3>3. AtMostOnce(up', AskUp(u)) /\ Nowhere(down', AskDown(u))
      BY <1>2, <2>1, <3>2 DEF NotAsking
    <3>4. ~Creating(u)'
      <4>1. ~Creating(u)
        BY <3>1, EmptySeq DEF AsksOK, SpeakersUsed, Creating, Speaking
      <4> QED
        BY <1>6, <3>1, <4>1
    <3>5. \A r \in Rooms : u \notin users'[r]
      BY <1>2, <3>1 DEF AsksOK, SpeakersUsed
    <3>6. u \in used'
      BY <1>2, <3>1
    <3>7. AtMostOnce(down', AskDown(u))
      BY <3>3 DEF Nowhere, AtMostOnce
    <3> QED
      BY <3>3, <3>4, <3>5, <3>6, <3>7 DEF AsksOnce, AskUp, AskDown
  <2> QED
    BY <2>4, <2>5
<1> QED
  BY <1>5, <1>7 DEF AsksOK

(* A step of connection c that leaves all requests to be let in where they *)
(* are.                                                                    *)
LEMMA NoneAsks ==
    ASSUME TypeOK, TypeOK', AsksOK, used \subseteq used', users' = users,
           \A d \in Conns : Speaking(d)' => Speaking(d) /\ Speaker(d)' = Speaker(d),
           \A d \in Conns : \A i \in DOMAIN up'[d] : up'[d][i].cmd = "ROOM.CREATE" =>
              \E j \in DOMAIN up[d] : up'[d][i] = up[d][j],
           \A k \in Keys : /\ Keeps(up, up', AskUp(k))
                           /\ Keeps(down, down', AskDown(k))
    PROVE  AsksOK'
<1>1. SpeakersUsed'
  BY SpeakersKept DEF AsksOK, SpeakersUsed
<1>2. ASSUME NEW k \in Keys
      PROVE  AsksOnce(k)'
  <2>1. up' \in [Conns -> Seq(Frames)]
    BY DEF TypeOK
  <2>2. Creating(k)' => Creating(k)
    BY <2>1, CreatingStays
  <2> QED
    BY <2>2, KeyKept DEF AsksOK
<1> QED
  BY <1>1, <1>2 DEF AsksOK

LEMMA PostAsks ==
    ASSUME TypeOK, TypeOK', SpeakersOK, AsksOK, NEW c \in Conns, PostAny(c)
    PROVE  AsksOK'
<1>1. PICK f \in Frames, b \in Bodies : f.cmd \in Posted /\ Post(c, b, f)
  BY ClientFrames DEF PostAny, Message, MessageKeyRotate, Frame, Posted
<1>2. /\ up' = [up EXCEPT ![c] = Append(@, f)]
      /\ down' = down /\ used' = used /\ users' = users
  BY <1>1 DEF Post, Send, serverVars, clientVars
<1>3. ASSUME NEW k \in Keys
      PROVE  Keeps(up, up', AskUp(k)) /\ Keeps(down, down', AskDown(k))
  <2>1. f \notin AskUp(k)
    BY <1>1 DEF AskUp, Posted
  <2>2. Keeps(up, up', AskUp(k))
    BY <1>2, <2>1, AppendKeeps DEF TypeOK
  <2> QED
    BY <1>2, <2>2 DEF Keeps
<1>4. \A d \in Conns : \A i \in DOMAIN up'[d] :
         up'[d][i] = f \/ \E j \in DOMAIN up[d] : up'[d][i] = up[d][j]
  BY <1>2, AppendKeeps DEF TypeOK
<1>5. f.cmd # "ROOM.CREATE"
  BY <1>1 DEF Posted
<1> QED
  BY <1>2, <1>3, <1>4, <1>5, SpeakersStay, NoneAsks

(* The owner turns the request it reads into its answer.                   *)
LEMMA ReceiveAsks ==
    ASSUME TypeOK, TypeOK', SpeakersOK, AsksOK, NEW c \in Conns, Receive(c)
    PROVE  AsksOK'
<1> DEFINE f == Head(down[c])
           answer == InviteResponse(f.from, f.room, f.key, NoBody)
<1>1. /\ down[c] # << >> /\ down' = [down EXCEPT ![c] = Tail(@)]
      /\ f \in Frames
  BY HeadTailProperties DEF Receive, TypeOK
<1>2. \A F : /\ Keeps(down, down', F)
             /\ AtMostOnce(down, F) /\ f \in F => Nowhere(down', F)
  BY <1>1, TailKeeps DEF TypeOK
<1>3. \A d \in Conns : Speaking(d)' => Speaking(d) /\ Speaker(d)' = Speaker(d)
  BY SpeakersStay
<1>4. CASE f.cmd # "ROOM.INVITE.VERIFICATION_REQUEST"
  <2>1. up' = up /\ used' = used /\ users' = users
    BY <1>4 DEF Receive, serverVars, clientVars
  <2>2. \A k \in Keys : Keeps(up, up', AskUp(k))
    BY <2>1 DEF Keeps
  <2> HIDE DEF f
  <2> QED
    BY <1>2, <1>3, <2>1, <2>2, NoneAsks
<1>5. CASE f.cmd = "ROOM.INVITE.VERIFICATION_REQUEST"
  <2>1. Send(c, answer) /\ answer \in Frames
    BY <1>1, <1>5, ClientFrames DEF Receive, Frames, WellFormed, Verification
  <2>2. /\ answer.cmd = "ROOM.INVITE.VERIFICATION_RESPONSE"
        /\ answer.key = f.from
    BY DEF InviteResponse, Frame
  <2>3. f.from \in Keys
    BY <1>1, <1>5 DEF Frames, WellFormed
  <2> HIDE DEF answer
  <2>4. /\ up' = [up EXCEPT ![c] = Append(@, answer)]
        /\ used' = used /\ users' = users
    BY <2>1 DEF Send, serverVars, clientVars
  <2>5. \A F : /\ answer \notin F => Keeps(up, up', F)
               /\ Nowhere(up, F) => AtMostOnce(up', F)
    BY <2>1, <2>4, AppendKeeps DEF TypeOK
  <2>6. \A d \in Conns : \A i \in DOMAIN up'[d] :
           up'[d][i] = answer \/ \E j \in DOMAIN up[d] : up'[d][i] = up[d][j]
    BY <2>1, <2>4, AppendKeeps DEF TypeOK
  <2>7. \A k \in Keys : Creating(k)' => Creating(k)
    <3>1. \A d \in Conns : \A i \in DOMAIN up'[d] : up'[d][i].cmd = "ROOM.CREATE" =>
            \E j \in DOMAIN up[d] : up'[d][i] = up[d][j]
      BY <2>2, <2>6
    <3> QED
      BY <1>3, <3>1, CreatingStays DEF TypeOK
  <2>8. ASSUME NEW k \in Keys, k # f.from
        PROVE  AsksOnce(k)'
    <3>1. answer \notin AskUp(k)
      BY <2>2, <2>8 DEF AskUp
    <3> HIDE DEF f
    <3> QED
      BY <1>2, <2>4, <2>5, <2>7, <3>1, KeyKept DEF AsksOK
  <2>9. ASSUME NEW k \in Keys, k = f.from
        PROVE  AsksOnce(k)'
    <3>1. AsksOnce(k) /\ f \in AskDown(k)
      BY <1>1, <1>5, <2>9 DEF AsksOK, AskDown
    <3>2. ~Nowhere(down, AskDown(k))
      <4>1. 1 \in DOMAIN down[c] /\ down[c][1] = f
        BY <1>1, EmptySeq, LenProperties DEF TypeOK
      <4> QED
        BY <3>1, <4>1 DEF Nowhere
    <3> HIDE DEF f
    <3>3. Nowhere(down', AskDown(k)) /\ AtMostOnce(up', AskUp(k))
      BY <1>2, <2>5, <3>1, <3>2 DEF AsksOnce
    <3>4. AtMostOnce(down', AskDown(k))
      BY <3>3 DEF Nowhere, AtMostOnce
    <3>5. k \in used' /\ ~Creating(k)' /\ \A r \in Rooms : k \notin users'[r]
      BY <2>4, <2>7, <3>1, <3>2 DEF AsksOnce, NotAsking
    <3> QED
      BY <3>3, <3>4, <3>5 DEF AsksOnce, AskUp, AskDown
  <2>10. SpeakersUsed'
    BY <1>3, <2>4, SpeakersKept DEF AsksOK, SpeakersUsed
  <2> HIDE DEF f
  <2> QED
    BY <2>8, <2>9, <2>10 DEF AsksOK
<1> QED
  BY <1>4, <1>5

LEMMA LeaveAsks ==
    ASSUME TypeOK, TypeOK', SpeakersOK, AsksOK, NEW c \in Conns, Leave(c)
    PROVE  AsksOK'
<1>1. PICK n \in 0 .. Len(up[c]) : Disconnect(c, n)
  BY DEF Leave
<1>2. /\ up' = [up EXCEPT ![c] = SubSeq(@, 1, n)]
      /\ down' = [down EXCEPT ![c] = << >>]
      /\ used' = used /\ users' = users
  BY <1>1 DEF Leave, Disconnect, serverVars
<1>3. ASSUME NEW F
      PROVE  /\ Keeps(up, up', F)
             /\ \A d \in Conns : \A i \in DOMAIN up'[d] :
                   i \in DOMAIN up[d] /\ up'[d][i] = up[d][i]
  <2>1. up \in [Conns -> Seq(Frames)]
    BY DEF TypeOK
  <2>2. n \in 0 .. Len(up[c]) /\ up' = [up EXCEPT ![c] = SubSeq(@, 1, n)]
    BY <1>2
  <2>3. Keeps(up, up', F)
    BY <2>1, <2>2, CutKeeps
  <2>4. \A d \in Conns : \A i \in DOMAIN up'[d] : i \in DOMAIN up[d] /\ up'[d][i] = up[d][i]
    BY <2>1, <2>2, CutKeeps
  <2> QED
    BY <2>3, <2>4
<1>4. \A F : Keeps(down, down', F)
  <2>1. 0 \in 0 .. Len(down[c]) /\ SubSeq(down[c], 1, 0) = << >>
    BY LenProperties, SubSeqEmpty DEF TypeOK
  <2>2. down' = [down EXCEPT ![c] = SubSeq(@, 1, 0)]
    BY <1>2, <2>1
  <2> QED
    BY <2>1, <2>2, CutKeeps DEF TypeOK
<1> QED
  BY <1>2, <1>3, <1>4, SpeakersStay, NoneAsks

LEMMA CloseAsks ==
    ASSUME TypeOK, TypeOK', SpeakersOK, AsksOK, NEW c \in Conns, HandleClose(c),
           UNCHANGED <<clientVars, logVars>>
    PROVE  AsksOK'
<1>1. up' = up /\ down' = down /\ used' = used /\ users' = users
  BY DEF HandleClose, FreeLink, clientVars
<1>2. \A F : Keeps(up, up', F) /\ Keeps(down, down', F)
  BY <1>1 DEF Keeps
<1> QED
  BY <1>1, <1>2, SpeakersStay, NoneAsks

(* What the server keeps and relays are posted frames, no requests.        *)
LEMMA KeptArePosted ==
    ASSUME TypeOK, KeptOK, NEW u
    PROVE  /\ \A r \in Rooms : \A i \in DOMAIN roomsHistory[r] :
                 roomsHistory[r][i] \notin AskDown(u)
           /\ \A k \in Keys : \A i \in DOMAIN history[k] : history[k][i] \notin AskDown(u)
  BY DEF KeptOK, KeptFor, Relayable, Posted, AskDown

LEMMA DownAsks ==
    ASSUME TypeOK, KeptOK, NEW c \in Conns, NEW f \in Frames, HandledBy(c, f),
           ~HandleInvite(c, f), NEW u
    PROVE  Keeps(down, down', AskDown(u))
<1> DEFINE F == AskDown(u)
<1>1. down \in [Conns -> Seq(Frames)]
  BY DEF TypeOK
<1>2. ASSUME NEW d, NEW g \in Frames, g.cmd # "ROOM.INVITE.VERIFICATION_REQUEST",
             SendTo(d, <<g>>)
      PROVE  Keeps(down, down', F)
  <2>1. g \notin F
    BY <1>2 DEF AskDown
  <2> HIDE DEF F
  <2> QED
    BY <1>1, <1>2, <2>1, SendOneKeeps
<1>3. CASE \E r \in Rooms : HandleNewRoom(c, f, r)
  <2>1. PICK r \in Rooms : SendTo(c, <<RoomCreated(r)>>)
    BY <1>3 DEF HandleNewRoom
  <2> QED
    BY <1>2, <2>1, ServerFrames DEF RoomCreated, Frame
<1>4. CASE DeclineInvite(c, f)
  <2>1. f.key \in Keys
    BY <1>4 DEF DeclineInvite, KeyedRequest, Request, Frames, WellFormed, Verification
  <2>2. InvalidInvite(f.key) \in Frames /\ SendTo(c, <<InvalidInvite(f.key)>>)
    BY <1>4, <2>1, ServerFrames DEF DeclineInvite
  <2> QED
    BY <1>2, <2>2 DEF InvalidInvite, Frame
<1>5. CASE DropInviteResponse(c, f)
  BY <1>5 DEF DropInviteResponse, Keeps
<1>6. CASE HandleOpenRoom(c, f)
  <2>1. f.room \in Rooms
    BY <1>6 DEF HandleOpenRoom, KeyedRequest, Request, Frames, WellFormed
  <2>2. ErrorRoom(f.room) \in Frames /\ OpenedRoom \in Frames
    BY <2>1, ServerFrames
  <2>3. SendTo(c, <<OpenedRoom>>) \/ SendTo(c, <<ErrorRoom(f.room)>>)
    BY <1>6 DEF HandleOpenRoom
  <2> QED
    BY <1>2, <2>2, <2>3 DEF OpenedRoom, ErrorRoom, Frame
<1>7. CASE RefuseMessage(c, f) \/ RefuseKeyRotate(c, f)
  <2>1. f.room \in Rooms
    BY <1>7 DEF RefuseMessage, RefuseKeyRotate, KeyedRequest, Request, Frames, WellFormed,
                Posted
  <2>2. MessageError(f.room) \in Frames /\ SendTo(c, <<MessageError(f.room)>>)
    BY <1>7, <2>1, ServerFrames DEF RefuseMessage, RefuseKeyRotate, Refuse
  <2> QED
    BY <1>2, <2>2 DEF MessageError, Frame
<1>8. CASE HandleInviteResponse(c, f)
  <2> DEFINE fs == <<f>> \o roomsHistory[f.room]
  <2>1. /\ f.room \in Rooms /\ f.cmd = "ROOM.INVITE.VERIFICATION_RESPONSE"
        /\ SendTo(online[f.key], fs)
    BY <1>8 DEF HandleInviteResponse, KeyedRequest, Request, Frames, WellFormed,
                Verification
  <2>2. /\ <<f>> \in Seq(Frames) /\ \A i \in DOMAIN <<f>> : <<f>>[i] = f
        /\ roomsHistory[f.room] \in Seq(Frames)
    BY <2>1 DEF TypeOK
  <2>3. fs \in Seq(Frames)
    BY <2>2, ConcatProperties
  <2>4. \A i \in DOMAIN fs : fs[i] \notin F
    <3>1. f \notin F
      BY <2>1 DEF AskDown
    <3>2. \A i \in DOMAIN roomsHistory[f.room] : roomsHistory[f.room][i] \notin F
      BY <2>1, KeptArePosted
    <3> HIDE DEF F
    <3> QED
      BY <2>2, <3>1, <3>2, ConcatElements
  <2> HIDE DEF F, fs
  <2>5. Keeps(down, down', F)
    BY <1>1, <2>1, <2>3, <2>4, SendToKeeps
  <2> QED
    BY <2>5 DEF F
<1>9. CASE HandlePublicKey(c, f)
  <2>1. f.key \in Keys /\ SendTo(c, history[f.key])
    BY <1>9 DEF HandlePublicKey, Request, Frames, WellFormed
  <2>2. history[f.key] \in Seq(Frames) /\ \A i \in DOMAIN history[f.key] : history[f.key][i] \notin F
    BY <2>1, KeptArePosted DEF TypeOK
  <2> HIDE DEF F
  <2>3. Keeps(down, down', F)
    BY <1>1, <2>1, <2>2, SendToKeeps
  <2> QED
    BY <2>3 DEF F
<1>10. CASE HandleMessage(c, f) \/ HandleKeyRotate(c, f)
  <2> DEFINE sent == [d \in Conns |-> IF \E v \in Present(f.room, pubKey[c]) : online[v] = d
                                      THEN <<f>> ELSE << >>]
  <2>1. SendDown(sent) /\ f \notin F
    BY <1>10 DEF HandleMessage, HandleKeyRotate, KeyedRequest, Request, FanOut, AskDown
  <2>2. << >> \in Seq(Frames) /\ DOMAIN << >> = {}
    BY EmptySeq
  <2>3. <<f>> \in Seq(Frames) /\ \A i \in DOMAIN <<f>> : <<f>>[i] = f
    OBVIOUS
  <2>4. \A d \in Conns : sent[d] \in Seq(Frames) /\ \A i \in DOMAIN sent[d] : sent[d][i] \notin F
    <3> HIDE DEF F
    <3> QED
      BY <2>1, <2>2, <2>3
  <2> HIDE DEF F, sent
  <2>5. Keeps(down, down', F)
    BY <1>1, <2>1, <2>4, SendKeeps
  <2> QED
    BY <2>5 DEF F
<1> QED
  BY <1>3, <1>4, <1>5, <1>6, <1>7, <1>8, <1>9, <1>10 DEF HandledBy, RelayFrame, AnswerFrame

LEMMA HandleAsks ==
    ASSUME TypeOK, TypeOK', SpeakersOK, KeptOK, AsksOK,
           NEW c \in Conns, NEW f \in Frames, HandledBy(c, f)
    PROVE  AsksOK'
<1>1. /\ up[c] # << >> /\ f = Head(up[c])
      /\ up' = [up EXCEPT ![c] = Tail(@)] /\ used' = used
  BY DEF HandledBy, clientVars, RelayFrame, AnswerFrame, HandleMessage, HandleKeyRotate,
         HandleInviteResponse, HandlePublicKey, HandleNewRoom, HandleInvite,
         DeclineInvite, DropInviteResponse, HandleOpenRoom, RefuseMessage,
         RefuseKeyRotate, KeyedRequest, Request, TakeUp
<1>2. ASSUME NEW F
      PROVE  /\ Keeps(up, up', F)
             /\ AtMostOnce(up, F) /\ f \in F => Nowhere(up', F)
             /\ \A d \in Conns : \A i \in DOMAIN up'[d] :
                   \E j \in DOMAIN up[d] : up'[d][i] = up[d][j]
  <2>1. up \in [Conns -> Seq(Frames)]
    BY DEF TypeOK
  <2>2. Keeps(up, up', F)
    BY <1>1, <2>1, TailKeeps
  <2>3. AtMostOnce(up, F) /\ f \in F => Nowhere(up', F)
    BY <1>1, <2>1, TailKeeps
  <2>4. \A d \in Conns : \A i \in DOMAIN up'[d] : \E j \in DOMAIN up[d] : up'[d][i] = up[d][j]
    BY <1>1, <2>1, TailKeeps
  <2> QED
    BY <2>2, <2>3, <2>4
<1>3. \A d \in Conns : Speaking(d)' => Speaking(d) /\ Speaker(d)' = Speaker(d)
  BY SpeakersStay
<1>4. \A k : Creating(k)' => Creating(k)
  BY <1>2, <1>3, CreatingStays DEF TypeOK
<1>5. /\ 1 \in DOMAIN up[c] /\ up[c][1] = f
      /\ \A F : f \in F => ~Nowhere(up, F)
  <2>1. 1 \in DOMAIN up[c] /\ up[c][1] = f
    BY <1>1, EmptySeq, LenProperties DEF TypeOK
  <2> QED
    BY <2>1 DEF Nowhere
<1>6. CASE HandleInvite(c, f)
  <2>1. /\ f.cmd = "ROOM.INVITE.VERIFICATION_REQUEST" /\ f.from \in Keys
        /\ SendTo(online[f.key], <<f>>) /\ users' = users
    BY <1>6 DEF HandleInvite, KeyedRequest, Request, Frames, WellFormed, serverVars
  <2>2. \A F : /\ f \notin F => Keeps(down, down', F)
               /\ Nowhere(down, F) => AtMostOnce(down', F)
    BY <2>1, SendOneKeeps DEF TypeOK
  <2>3. ASSUME NEW k \in Keys
        PROVE  AsksOnce(k)'
    <3>1. AsksOnce(k)
      BY DEF AsksOK
    <3>2. CASE k # f.from
      <4>1. f \notin AskDown(k)
        BY <3>2 DEF AskDown
      <4> QED
        BY <1>1, <1>2, <1>4, <2>1, <2>2, <3>1, <4>1, KeyKept
    <3>3. CASE k = f.from
      <4>1. f \in AskUp(k)
        BY <2>1, <3>3 DEF AskUp
      <4>2. ~Nowhere(up, AskUp(k))
        BY <1>5, <4>1
      <4>3. Nowhere(up', AskUp(k)) /\ AtMostOnce(down', AskDown(k))
        BY <1>2, <2>2, <3>1, <4>1, <4>2 DEF AsksOnce
      <4>4. AtMostOnce(up', AskUp(k))
        BY <4>3 DEF Nowhere, AtMostOnce
      <4>5. k \in used' /\ ~Creating(k)' /\ \A r \in Rooms : k \notin users'[r]
        BY <1>1, <1>4, <2>1, <3>1, <4>2 DEF AsksOnce, NotAsking
      <4> QED
        BY <4>3, <4>4, <4>5 DEF AsksOnce, AskUp, AskDown
    <3> QED
      BY <3>2, <3>3
  <2>4. SpeakersUsed'
    BY <1>1, <1>3, <2>1, SpeakersKept DEF AsksOK, SpeakersUsed
  <2> QED
    BY <2>3, <2>4 DEF AsksOK
<1>7. CASE HandleInviteResponse(c, f)
  <2>1. /\ f.cmd = "ROOM.INVITE.VERIFICATION_RESPONSE" /\ f.key \in Keys /\ f.room \in Rooms
        /\ users' = [users EXCEPT ![f.room] = @ \cup {f.key}]
    BY <1>7 DEF HandleInviteResponse, KeyedRequest, Request, Frames, WellFormed, Verification
  <2>2. \A k : Keeps(down, down', AskDown(k))
    <3>1. ~HandleInvite(c, f)
      BY <2>1 DEF HandleInvite, KeyedRequest, Request
    <3> QED
      BY <3>1, DownAsks
  <2>3. ASSUME NEW k \in Keys
        PROVE  AsksOnce(k)' /\ (k = f.key => k \in used)
    <3>1. AsksOnce(k)
      BY DEF AsksOK
    <3>2. CASE k # f.key
      <4>1. \A r \in Rooms : k \in users'[r] => k \in users[r]
        BY <2>1, <3>2 DEF TypeOK
      <4> QED
        BY <1>1, <1>2, <1>4, <2>2, <3>1, <3>2, <4>1, KeyKept
    <3>3. CASE k = f.key
      <4>1. f \in AskUp(k)
        BY <2>1, <3>3 DEF AskUp
      <4>2. ~Nowhere(up, AskUp(k)) /\ k \in used
        BY <1>5, <3>1, <4>1 DEF AsksOnce, NotAsking
      <4>3. Nowhere(up', AskUp(k)) /\ Nowhere(down', AskDown(k))
        BY <1>2, <2>2, <3>1, <4>1, <4>2 DEF AsksOnce, Keeps
      <4>4. AtMostOnce(up', AskUp(k)) /\ AtMostOnce(down', AskDown(k))
        BY <4>3 DEF Nowhere, AtMostOnce
      <4> QED
        BY <4>2, <4>3, <4>4 DEF AsksOnce, NotAsking, AskUp, AskDown
    <3> QED
      BY <3>2, <3>3
  <2>4. SpeakersUsed'
    <3>1. \A r \in Rooms : users'[r] \subseteq used'
      BY <1>1, <2>1, <2>3 DEF AsksOK, SpeakersUsed, TypeOK
    <3> QED
      BY <1>1, <1>3, <3>1, SpeakersKept DEF AsksOK
  <2> QED
    BY <2>3, <2>4 DEF AsksOK
<1>8. ASSUME NEW r \in Rooms, HandleNewRoom(c, f, r)
      PROVE  AsksOK'
  <2>1. /\ f.cmd = "ROOM.CREATE" /\ pubKey[c] # NoKey
        /\ users' = [users EXCEPT ![r] = {pubKey[c]}]
    BY <1>8 DEF HandleNewRoom, KeyedRequest, Request
  <2>2. Creating(pubKey[c]) /\ pubKey[c] \in used
    BY <1>5, <2>1 DEF Creating, Speaker, AsksOK, SpeakersUsed, Speaking
  <2>3. \A k : Keeps(down, down', AskDown(k))
    <3>1. ~HandleInvite(c, f)
      BY <2>1 DEF HandleInvite, KeyedRequest, Request
    <3> QED
      BY <3>1, DownAsks
  <2>4. ASSUME NEW k \in Keys
        PROVE  AsksOnce(k)'
    <3>1. AsksOnce(k)
      BY DEF AsksOK
    <3>2. ASSUME NEW x \in Rooms, k \in users'[x]
          PROVE  k \in users[x] \/ NotAsking(k)
      BY <2>1, <2>2, <3>1, <3>2 DEF AsksOnce, TypeOK
    <3> QED
      BY <1>1, <1>2, <1>4, <2>3, <3>1, <3>2, KeyKept
  <2>5. SpeakersUsed'
    <3>1. \A x \in Rooms : users'[x] \subseteq used'
      BY <1>1, <2>1, <2>2 DEF AsksOK, SpeakersUsed, TypeOK
    <3> QED
      BY <1>1, <1>3, <3>1, SpeakersKept DEF AsksOK
  <2> QED
    BY <2>4, <2>5 DEF AsksOK
<1>9. CASE /\ ~HandleInvite(c, f) /\ ~HandleInviteResponse(c, f)
           /\ ~\E r \in Rooms : HandleNewRoom(c, f, r)
  <2>1. users' = users
    BY <1>9 DEF HandledBy, RelayFrame, AnswerFrame, HandleMessage, HandleKeyRotate,
         HandlePublicKey, DeclineInvite, DropInviteResponse, HandleOpenRoom,
         RefuseMessage, RefuseKeyRotate, Refuse, serverVars
  <2>2. \A k : Keeps(down, down', AskDown(k))
    BY <1>9, DownAsks
  <2> QED
    BY <1>1, <1>2, <1>3, <2>1, <2>2, NoneAsks
<1> QED
  BY <1>6, <1>7, <1>8, <1>9

LEMMA NextAsks ==
    ASSUME Inv, Inv', AsksOK, [Next]_vars
    PROVE  AsksOK'
<1> USE DEF Inv
<1>1. ASSUME NEW k \in Keys, NEW c \in Conns, FirstConnect(k, c) \/ Reconnect(k, c)
      PROVE  AsksOK'
  BY <1>1, ConnectAsks
<1>2. ASSUME NEW c \in Conns, Serve(c)
      PROVE  AsksOK'
  <2>1. CASE HandleClose(c) /\ UNCHANGED <<clientVars, logVars>>
    BY <2>1, CloseAsks
  <2>2. ASSUME NEW f, HandledBy(c, f)
        PROVE  AsksOK'
    <3>1. f \in Frames
      BY <2>2, HeadTailProperties DEF HandledBy, TypeOK
    <3> QED
      BY <2>2, <3>1, HandleAsks
  <2> QED
    BY <1>2, <2>1, <2>2 DEF Serve, HandledBy
<1>3. CASE UNCHANGED vars
  <2>1. UNCHANGED <<up, down, used, users, pubKey>>
    BY <1>3 DEF vars, wireVars, serverVars, clientVars
  <2> QED
    BY <2>1 DEF AsksOK, SpeakersUsed, AsksOnce, NotAsking, Creating, Speaker, Speaking,
                Nowhere, AtMostOnce, AskUp, AskDown
<1> QED
  BY <1>1, <1>2, <1>3, PostAsks, ReceiveAsks, LeaveAsks DEF Next

LEMMA InitAsks == Init => AsksOK
<1> SUFFICES ASSUME Init
             PROVE  AsksOK
  OBVIOUS
<1>1. \A c \in Conns : /\ DOMAIN up[c] = {} /\ DOMAIN down[c] = {}
                       /\ up[c] = << >> /\ pubKey[c] = NoKey
  BY EmptySeq DEF Init, WireInit, ServerInit
<1>2. \A F : /\ Nowhere(up, F) /\ Nowhere(down, F)
             /\ AtMostOnce(up, F) /\ AtMostOnce(down, F)
  BY <1>1 DEF Nowhere, AtMostOnce
<1>3. SpeakersUsed
  BY <1>1 DEF Init, ServerInit, SpeakersUsed, Speaking
<1> QED
  BY <1>2, <1>3 DEF AsksOK, AsksOnce, NotAsking

-----------------------------------------------------------------------------
(* A posted frame is relayed once.                                         *)

(* Sequences as the sets of what they hold.                                *)
LEMMA Holds ==
    ASSUME NEW s \in Seq(Frames), NEW t \in Seq(Frames), NEW f \in Frames
    PROVE  /\ ToSet(s) \subseteq Frames
           /\ ToSet(Append(s, f)) = ToSet(s) \cup {f}
           /\ ToSet(s \o t) = ToSet(s) \cup ToSet(t)
<1>1. /\ Len(s) \in Nat /\ DOMAIN s = 1 .. Len(s)
      /\ Len(t) \in Nat /\ DOMAIN t = 1 .. Len(t)
      /\ \A i \in 1 .. Len(s) : s[i] \in Frames
  BY LenProperties, ElementOfSeq
<1>2. ToSet(Append(s, f)) = ToSet(s) \cup {f}
  <2>1. /\ DOMAIN Append(s, f) = 1 .. Len(s) + 1
        /\ \A i \in 1 .. Len(s) : Append(s, f)[i] = s[i]
        /\ Append(s, f)[Len(s) + 1] = f
    BY AppendProperties
  <2> QED
    BY <1>1, <2>1 DEF ToSet
<1>3. ToSet(s \o t) = ToSet(s) \cup ToSet(t)
  <2>1. /\ DOMAIN (s \o t) = 1 .. Len(s) + Len(t)
        /\ \A j \in 1 .. Len(s) + Len(t) :
              (s \o t)[j] = IF j <= Len(s) THEN s[j] ELSE t[j - Len(s)]
    BY ConcatProperties, LenProperties
  <2>2. \A j \in 1 .. Len(t) : /\ Len(s) + j \in 1 .. Len(s) + Len(t)
                               /\ ~(Len(s) + j <= Len(s)) /\ (Len(s) + j) - Len(s) = j
    BY <1>1
  <2>3. ToSet(t) \subseteq ToSet(s \o t)
    <3>1. ASSUME NEW j \in 1 .. Len(t)
          PROVE  t[j] \in ToSet(s \o t)
      <4>1. Len(s) + j \in DOMAIN (s \o t) /\ (s \o t)[Len(s) + j] = t[j]
        BY <2>1, <2>2
      <4> QED
        BY <4>1 DEF ToSet
    <3> QED
      BY <1>1, <3>1 DEF ToSet
  <2>4. ToSet(s) \subseteq ToSet(s \o t)
    BY <1>1, <2>1 DEF ToSet
  <2>5. ToSet(s \o t) \subseteq ToSet(s) \cup ToSet(t)
    BY ConcatElements DEF ToSet
  <2> QED
    BY <2>3, <2>4, <2>5
<1> QED
  BY <1>1, <1>2, <1>3 DEF ToSet

LEMMA HoldsNothing == ToSet(<< >>) = {} /\ IsInjective(<< >>)
  BY EmptySeq DEF ToSet, IsInjective

(* Two sequences that hold nothing twice, alone or together.               *)
Apart(s, t) ==
    /\ IsInjective(s)
    /\ IsInjective(t)
    /\ ToSet(s) \cap ToSet(t) = {}

LEMMA ConcatApart ==
    ASSUME NEW s \in Seq(Frames), NEW t \in Seq(Frames), Apart(s, t)
    PROVE  IsInjective(s \o t)
<1>1. /\ Len(s) \in Nat /\ DOMAIN s = 1 .. Len(s)
      /\ Len(t) \in Nat /\ DOMAIN t = 1 .. Len(t)
      /\ DOMAIN (s \o t) = 1 .. Len(s) + Len(t)
      /\ \A j \in 1 .. Len(s) + Len(t) :
            (s \o t)[j] = IF j <= Len(s) THEN s[j] ELSE t[j - Len(s)]
  BY ConcatProperties, LenProperties
<1>2. /\ \A i, j \in 1 .. Len(s) : s[i] = s[j] => i = j
      /\ \A i, j \in 1 .. Len(t) : t[i] = t[j] => i = j
      /\ \A i \in 1 .. Len(s), j \in 1 .. Len(t) : s[i] # t[j]
  <2>1. \A i \in DOMAIN s, j \in DOMAIN t : s[i] # t[j]
    BY DEF Apart, ToSet
  <2>2. /\ \A i, j \in DOMAIN s : s[i] = s[j] => i = j
        /\ \A i, j \in DOMAIN t : t[i] = t[j] => i = j
    BY DEF Apart, IsInjective
  <2> QED
    BY <1>1, <2>1, <2>2
<1> DEFINE m == Len(s)
           n == Len(t)
<1>3. m \in Nat /\ n \in Nat
  BY <1>1
<1> HIDE DEF m, n
<1>4. ASSUME NEW i \in 1 .. m + n, NEW j \in 1 .. m + n, (s \o t)[i] = (s \o t)[j]
      PROVE  i = j
  <2>1. /\ i <= m => i \in 1 .. m /\ (s \o t)[i] = s[i]
        /\ ~(i <= m) => i - m \in 1 .. n /\ (s \o t)[i] = t[i - m]
        /\ j <= m => j \in 1 .. m /\ (s \o t)[j] = s[j]
        /\ ~(j <= m) => j - m \in 1 .. n /\ (s \o t)[j] = t[j - m]
    BY <1>1, <1>3 DEF m, n
  <2>2. CASE i <= m /\ j <= m
    BY <1>2, <1>4, <2>1, <2>2 DEF m
  <2>3. CASE ~(i <= m) /\ ~(j <= m)
    <3>1. i - m = j - m
      BY <1>2, <1>4, <2>1, <2>3 DEF n
    <3> QED
      BY <1>3, <3>1
  <2>4. CASE i <= m /\ ~(j <= m)
    BY <1>2, <1>4, <2>1, <2>4 DEF m, n
  <2>5. CASE ~(i <= m) /\ j <= m
    BY <1>2, <1>4, <2>1, <2>5 DEF m, n
  <2> QED
    BY <2>2, <2>3, <2>4, <2>5
<1> QED
  BY <1>1, <1>4 DEF IsInjective, m, n

LEMMA AppendApart ==
    ASSUME NEW s \in Seq(Frames), IsInjective(s), NEW f \in Frames, f \notin ToSet(s)
    PROVE  IsInjective(Append(s, f))
<1>1. /\ Len(s) \in Nat /\ DOMAIN s = 1 .. Len(s)
      /\ DOMAIN Append(s, f) = 1 .. Len(s) + 1
      /\ \A i \in 1 .. Len(s) : Append(s, f)[i] = s[i]
      /\ Append(s, f)[Len(s) + 1] = f
  BY AppendProperties, LenProperties
<1>2. \A i \in 1 .. Len(s) : s[i] # f
  BY <1>1 DEF ToSet
<1>3. \A i \in 1 .. Len(s) + 1 : i \in 1 .. Len(s) \/ i = Len(s) + 1
  BY <1>1
<1> QED
  BY <1>1, <1>2, <1>3 DEF IsInjective

(* Body b as it travels to the server, and all that the server keeps.      *)
PostOf(b) == {f \in Frames : f.cmd \in Posted /\ f.body = b}

Kept ==
    (UNION {ToSet(roomsHistory[r]) : r \in Rooms})
    \cup (UNION {ToSet(history[k]) \cup ToSet(handed[k]) : k \in Keys})

Unseen(b) == \A f \in Kept : f.body # b

(* A body is on its way to the server, once, or it has been there.         *)
PostsOK ==
    \A b \in Bodies : /\ AtMostOnce(up, PostOf(b))
                      /\ Nowhere(up, PostOf(b)) \/ Unseen(b)

(* RelayedOnce of its parts, and of what a new member is given.            *)
OnceOK ==
    /\ \A r \in Rooms : IsInjective(roomsHistory[r])
    /\ \A k \in Keys : Apart(handed[k], history[k])

LEMMA KeptIsRelayable ==
    ASSUME TypeOK, KeptOK
    PROVE  \A f \in Kept : f \in Frames /\ Relayable(f)
<1>1. ASSUME NEW r \in Rooms, NEW f \in ToSet(roomsHistory[r])
      PROVE  f \in Frames /\ Relayable(f)
  <2>1. roomsHistory[r] \in Seq(Frames)
    BY DEF TypeOK
  <2> QED
    BY <1>1, <2>1, LenProperties, ElementOfSeq DEF KeptOK, ToSet
<1>2. ASSUME NEW k \in Keys, NEW f \in ToSet(history[k]) \cup ToSet(handed[k])
      PROVE  f \in Frames /\ Relayable(f)
  <2>1. history[k] \in Seq(Frames) /\ handed[k] \in Seq(Frames)
    BY DEF TypeOK
  <2> QED
    BY <1>2, <2>1, LenProperties, ElementOfSeq DEF KeptOK, KeptFor, ToSet
<1> QED
  BY <1>1, <1>2 DEF Kept

(* A body nobody has posted is nowhere.                                    *)
LEMMA FreshBody ==
    ASSUME TypeOK, SpeakersOK, KeptOK, NEW b \in Bodies, author[b] = NoKey
    PROVE  Nowhere(up, PostOf(b)) /\ Unseen(b)
<1>1. ASSUME NEW c \in Conns, NEW i \in DOMAIN up[c], up[c][i] \in PostOf(b)
      PROVE  FALSE
  <2>1. author[b] = Speaker(c)
    BY <1>1 DEF PostOf, SpeakersOK, SpeaksForOne
  <2>2. up[c] # << >>
    BY <1>1, EmptySeq
  <2> QED
    BY <2>1, <2>2, SpeakerIsKey, ConstantsOK
<1>2. ASSUME NEW f \in Kept, f.body = b
      PROVE  FALSE
  <2>1. Relayable(f) /\ f.room \in Rooms
    BY <1>2, KeptIsRelayable DEF Relayable, Frames, WellFormed
  <2> QED
    BY <1>2, <2>1, ConstantsOK DEF Relayable, TypeOK
<1> QED
  BY <1>1, <1>2 DEF Nowhere, Unseen

(* A step that posts nothing and lets nothing be kept that was not.        *)
LEMMA NonePosted ==
    ASSUME PostsOK, Kept' \subseteq Kept,
           \A b \in Bodies : Keeps(up, up', PostOf(b))
    PROVE  PostsOK'
<1>1. ASSUME NEW b \in Bodies
      PROVE  /\ AtMostOnce(up', PostOf(b))
             /\ Nowhere(up', PostOf(b)) \/ Unseen(b)'
  BY DEF PostsOK, Keeps, Unseen
<1> QED
  BY <1>1 DEF PostsOK, PostOf

LEMMA KeptUnlessStored ==
    ASSUME UNCHANGED <<roomsHistory, history, handed>>
    PROVE  Kept' = Kept
  BY DEF Kept

(* What a post that is accepted changes in the stores.                     *)
LEMMA AcceptedIsStored ==
    ASSUME TypeOK, NEW c \in Conns, NEW f \in Frames, f.room \in Rooms,
           HandleMessage(c, f) \/ HandleKeyRotate(c, f), Relayed(f.room, pubKey[c], f)
    PROVE  /\ \A r \in Rooms : roomsHistory'[r] \in {roomsHistory[r], Append(roomsHistory[r], f), <<f>>}
           /\ \A k \in Keys :
                 \/ history'[k] = history[k] /\ handed'[k] = handed[k]
                 \/ history'[k] = history[k] /\ handed'[k] = Append(handed[k], f)
                 \/ history'[k] = Append(history[k], f) /\ handed'[k] = handed[k]
<1>1. \A r \in Rooms : roomsHistory'[r] \in {roomsHistory[r], Append(roomsHistory[r], f), <<f>>}
  BY DEF HandleMessage, HandleKeyRotate, TypeOK
<1>2. FanOut(f.room, pubKey[c], f)
  BY DEF HandleMessage, HandleKeyRotate
<1> QED
  BY <1>1, <1>2 DEF FanOut, Relayed

LEMMA StoredIsKept ==
    ASSUME TypeOK, NEW f \in Frames,
           \A r \in Rooms : roomsHistory'[r] \in {roomsHistory[r], Append(roomsHistory[r], f), <<f>>},
           \A k \in Keys :
              \/ history'[k] = history[k] /\ handed'[k] = handed[k]
              \/ history'[k] = history[k] /\ handed'[k] = Append(handed[k], f)
              \/ history'[k] = Append(history[k], f) /\ handed'[k] = handed[k]
    PROVE  Kept' \subseteq Kept \cup {f}
<1>1. ASSUME NEW r \in Rooms
      PROVE  ToSet(roomsHistory'[r]) \subseteq Kept \cup {f}
  <2> DEFINE alone == <<f>>
  <2>1. ToSet(alone) = {f}
    BY DEF ToSet
  <2>2. roomsHistory'[r] \in {roomsHistory[r], Append(roomsHistory[r], f), alone}
    OBVIOUS
  <2> HIDE DEF alone
  <2>3. roomsHistory[r] \in Seq(Frames) /\ ToSet(roomsHistory[r]) \subseteq Kept
    BY DEF TypeOK, Kept
  <2> QED
    BY <2>1, <2>2, <2>3, Holds
<1>2. ASSUME NEW k \in Keys
      PROVE  ToSet(history'[k]) \cup ToSet(handed'[k]) \subseteq Kept \cup {f}
  <2>1. /\ history[k] \in Seq(Frames) /\ ToSet(history[k]) \subseteq Kept
        /\ handed[k] \in Seq(Frames) /\ ToSet(handed[k]) \subseteq Kept
    BY DEF TypeOK, Kept
  <2>2. /\ ToSet(Append(history[k], f)) = ToSet(history[k]) \cup {f}
        /\ ToSet(Append(handed[k], f)) = ToSet(handed[k]) \cup {f}
    BY <2>1, Holds
  <2> QED
    BY <2>1, <2>2
<1> QED
  BY <1>1, <1>2 DEF Kept

(* What is handed over was kept already.                                   *)
LEMMA HandedIsKept ==
    ASSUME TypeOK, NEW k \in Keys, NEW fs \in Seq(Frames), ToSet(fs) \subseteq Kept,
           handed' = [handed EXCEPT ![k] = @ \o fs],
           roomsHistory' = roomsHistory,
           \A u \in Keys : history'[u] \in {history[u], << >>}
    PROVE  Kept' \subseteq Kept
<1>1. ASSUME NEW u \in Keys
      PROVE  ToSet(history'[u]) \cup ToSet(handed'[u]) \subseteq Kept
  <2>1. /\ ToSet(history[u]) \subseteq Kept
        /\ handed[u] \in Seq(Frames) /\ ToSet(handed[u]) \subseteq Kept
    BY DEF TypeOK, Kept
  <2>2. handed'[u] = handed[u] \/ handed'[u] = handed[u] \o fs
    BY DEF TypeOK
  <2>3. ToSet(handed[u] \o fs) = ToSet(handed[u]) \cup ToSet(fs)
    BY <2>1, Holds, ServerFrames
  <2>4. ToSet(handed'[u]) \subseteq Kept
    BY <2>1, <2>2, <2>3
  <2>5. ToSet(history'[u]) \subseteq Kept
    BY <2>1, HoldsNothing
  <2> QED
    BY <2>4, <2>5
<1> QED
  BY <1>1 DEF Kept

LEMMA HandlePosts ==
    ASSUME TypeOK, SpeakersOK, PostsOK, NEW c \in Conns, NEW f \in Frames, HandledBy(c, f)
    PROVE  PostsOK'
<1>1. /\ up[c] # << >> /\ f = Head(up[c]) /\ up' = [up EXCEPT ![c] = Tail(@)]
  BY DEF HandledBy, RelayFrame, AnswerFrame, HandleMessage, HandleKeyRotate,
         HandleInviteResponse, HandlePublicKey, HandleNewRoom, HandleInvite,
         DeclineInvite, DropInviteResponse, HandleOpenRoom, RefuseMessage,
         RefuseKeyRotate, KeyedRequest, Request, TakeUp
<1>2. ASSUME NEW b
      PROVE  /\ Keeps(up, up', PostOf(b))
             /\ AtMostOnce(up, PostOf(b)) /\ f \in PostOf(b) => Nowhere(up', PostOf(b))
  <2>1. up \in [Conns -> Seq(Frames)]
    BY DEF TypeOK
  <2>2. Keeps(up, up', PostOf(b))
    BY <1>1, <2>1, TailKeeps
  <2>3. AtMostOnce(up, PostOf(b)) /\ f \in PostOf(b) => Nowhere(up', PostOf(b))
    BY <1>1, <2>1, TailKeeps
  <2> QED
    BY <2>2, <2>3
<1>3. CASE HandleMessage(c, f) \/ HandleKeyRotate(c, f)
  <2>1. f.cmd \in Posted /\ f.room \in Rooms
    BY <1>3 DEF HandleMessage, HandleKeyRotate, KeyedRequest, Request, Frames, WellFormed, Posted
  <2>2. Relayed(f.room, pubKey[c], f)
    BY <1>3 DEF HandledBy, RelayFrame, AnswerFrame, HandleMessage, HandleKeyRotate,
         HandleInviteResponse, HandlePublicKey, HandleNewRoom, HandleInvite, DeclineInvite,
         DropInviteResponse, HandleOpenRoom, RefuseMessage, RefuseKeyRotate, KeyedRequest,
         Request
  <2>3. Kept' \subseteq Kept \cup {f}
    BY <1>3, <2>1, <2>2, AcceptedIsStored, StoredIsKept
  <2>4. ASSUME NEW b \in Bodies
        PROVE  /\ AtMostOnce(up', PostOf(b))
               /\ Nowhere(up', PostOf(b)) \/ Unseen(b)'
    <3>1. AtMostOnce(up, PostOf(b)) /\ (Nowhere(up, PostOf(b)) \/ Unseen(b))
      BY DEF PostsOK
    <3>2. CASE f.body = b
      <4>1. f \in PostOf(b)
        BY <2>1, <3>2 DEF PostOf
      <4> QED
        BY <1>2, <3>1, <4>1 DEF Keeps
    <3>3. CASE f.body # b
      BY <1>2, <2>3, <3>1, <3>3 DEF Keeps, Unseen
    <3> QED
      BY <3>2, <3>3
  <2> QED
    BY <2>4 DEF PostsOK, PostOf
<1>4. CASE HandleInviteResponse(c, f)
  <2>1. f.key \in Keys /\ f.room \in Rooms
    BY <1>4 DEF HandleInviteResponse, KeyedRequest, Request, Frames, WellFormed, Verification
  <2>2. Hand(f.key, roomsHistory[f.room])
    BY <1>4 DEF HandledBy, RelayFrame, AnswerFrame, HandleMessage, HandleKeyRotate,
         HandleInviteResponse, HandlePublicKey, HandleNewRoom, HandleInvite, DeclineInvite,
         DropInviteResponse, HandleOpenRoom, RefuseMessage, RefuseKeyRotate, KeyedRequest,
         Request
  <2>3. roomsHistory[f.room] \in Seq(Frames) /\ ToSet(roomsHistory[f.room]) \subseteq Kept
    BY <2>1 DEF TypeOK, Kept
  <2>4. Kept' \subseteq Kept
    BY <1>4, <2>1, <2>2, <2>3, HandedIsKept DEF HandleInviteResponse, Hand
  <2> QED
    BY <1>2, <2>4, NonePosted
<1>5. CASE HandlePublicKey(c, f)
  <2>1. f.key \in Keys
    BY <1>5 DEF HandlePublicKey, Request, Frames, WellFormed
  <2>2. Hand(f.key, history[f.key])
    BY <1>5 DEF HandledBy, RelayFrame, AnswerFrame, HandleMessage, HandleKeyRotate,
         HandleInviteResponse, HandlePublicKey, HandleNewRoom, HandleInvite, DeclineInvite,
         DropInviteResponse, HandleOpenRoom, RefuseMessage, RefuseKeyRotate, KeyedRequest,
         Request
  <2>3. history[f.key] \in Seq(Frames) /\ ToSet(history[f.key]) \subseteq Kept
    BY <2>1 DEF TypeOK, Kept
  <2>4. Kept' \subseteq Kept
    BY <1>5, <2>1, <2>2, <2>3, HandedIsKept DEF HandlePublicKey, Hand, TypeOK
  <2> QED
    BY <1>2, <2>4, NonePosted
<1>6. CASE AnswerFrame(c, f) /\ UNCHANGED handed
  <2>1. UNCHANGED <<roomsHistory, history, handed>>
    BY <1>6 DEF AnswerFrame, HandleNewRoom, HandleInvite, DeclineInvite,
         DropInviteResponse, HandleOpenRoom, RefuseMessage, RefuseKeyRotate, Refuse, serverVars
  <2> QED
    BY <1>2, <2>1, KeptUnlessStored, NonePosted
<1> QED
  BY <1>3, <1>4, <1>5, <1>6 DEF HandledBy, RelayFrame

LEMMA PostPosts ==
    ASSUME TypeOK, SpeakersOK, KeptOK, PostsOK, NEW c \in Conns, PostAny(c)
    PROVE  PostsOK'
<1>1. PICK f \in Frames, b \in Bodies : f.body = b /\ Post(c, b, f)
  BY ClientFrames DEF PostAny, Message, MessageKeyRotate, Frame
<1>2. /\ author[b] = NoKey
      /\ up' = [up EXCEPT ![c] = Append(@, f)]
      /\ UNCHANGED <<roomsHistory, history, handed>>
  BY <1>1 DEF Post, Send, serverVars
<1>3. Nowhere(up, PostOf(b)) /\ Unseen(b)
  BY <1>2, FreshBody
<1>4. \A a \in Bodies : /\ f \notin PostOf(a) => Keeps(up, up', PostOf(a))
                        /\ Nowhere(up, PostOf(a)) => AtMostOnce(up', PostOf(a))
  BY <1>2, AppendKeeps DEF TypeOK
<1>5. Kept' = Kept
  BY <1>2, KeptUnlessStored
<1>6. ASSUME NEW a \in Bodies
      PROVE  /\ AtMostOnce(up', PostOf(a))
             /\ Nowhere(up', PostOf(a)) \/ Unseen(a)'
  <2>1. CASE a = b
    BY <1>3, <1>4, <1>5, <2>1 DEF Unseen
  <2>2. CASE a # b
    <3>1. f \notin PostOf(a)
      BY <1>1, <2>2 DEF PostOf
    <3> QED
      BY <1>4, <1>5, <3>1 DEF PostsOK, Keeps, Unseen
  <2> QED
    BY <2>1, <2>2
<1> QED
  BY <1>6 DEF PostsOK, PostOf

LEMMA NextPosts ==
    ASSUME Inv, PostsOK, [Next]_vars
    PROVE  PostsOK'
<1> USE DEF Inv
<1>1. ASSUME NEW k \in Keys, NEW c \in Conns, FirstConnect(k, c) \/ Reconnect(k, c)
      PROVE  PostsOK'
  <2>1. PICK first \in Frames : Connect(k, c, first) /\ first.cmd \notin Posted
    BY <1>1, ClientFrames DEF FirstConnect, Reconnect, NewRoom, Invite, OpenRoom, Frame, Posted
  <2>2. /\ up[c] = << >> /\ up' = [up EXCEPT ![c] = <<PublicKey(k), first>>]
        /\ UNCHANGED <<roomsHistory, history, handed>>
    BY <2>1 DEF Connect, OpenLink, serverVars, logVars, SpeakersOK, SpeaksForOne
  <2>3. PublicKey(k) \in Frames /\ PublicKey(k).cmd \notin Posted
    BY ClientFrames DEF PublicKey, Frame, Posted
  <2>4. \A b : PublicKey(k) \notin PostOf(b) /\ first \notin PostOf(b)
    BY <2>1, <2>3 DEF PostOf
  <2>5. \A b : Keeps(up, up', PostOf(b))
    BY <2>2, <2>3, <2>4, OpenKeeps DEF TypeOK
  <2> QED
    BY <2>2, <2>5, KeptUnlessStored, NonePosted
<1>2. ASSUME NEW c \in Conns, Receive(c)
      PROVE  PostsOK'
  <2>1. UNCHANGED <<roomsHistory, history, handed>>
    BY <1>2 DEF Receive, Send, serverVars
  <2>2. ASSUME NEW b
        PROVE  Keeps(up, up', PostOf(b))
    <3> DEFINE f == Head(down[c])
               answer == InviteResponse(f.from, f.room, f.key, NoBody)
    <3>1. f \in Frames
      BY <1>2, HeadTailProperties DEF Receive, TypeOK
    <3>2. CASE f.cmd # "ROOM.INVITE.VERIFICATION_REQUEST"
      BY <1>2, <3>2 DEF Receive, Keeps
    <3>3. CASE f.cmd = "ROOM.INVITE.VERIFICATION_REQUEST"
      <4>1. answer \in Frames /\ answer \notin PostOf(b)
        BY <3>1, <3>3, ClientFrames DEF Frames, WellFormed, Verification, InviteResponse,
                                        Frame, PostOf, Posted
      <4>2. up' = [up EXCEPT ![c] = Append(@, answer)]
        BY <1>2, <3>3 DEF Receive, Send
      <4> HIDE DEF answer
      <4> QED
        BY <4>1, <4>2, AppendKeeps DEF TypeOK
    <3> QED
      BY <3>2, <3>3
  <2> QED
    BY <2>1, <2>2, KeptUnlessStored, NonePosted
<1>3. ASSUME NEW c \in Conns, Leave(c)
      PROVE  PostsOK'
  <2>1. PICK n \in 0 .. Len(up[c]) : up' = [up EXCEPT ![c] = SubSeq(@, 1, n)]
    BY <1>3 DEF Leave, Disconnect
  <2>2. UNCHANGED <<roomsHistory, history, handed>>
    BY <1>3 DEF Leave, serverVars, logVars
  <2>3. \A b : Keeps(up, up', PostOf(b))
    BY <2>1, CutKeeps DEF TypeOK
  <2> QED
    BY <2>2, <2>3, KeptUnlessStored, NonePosted
<1>4. ASSUME NEW c \in Conns, HandleClose(c) /\ UNCHANGED <<clientVars, logVars>>
      PROVE  PostsOK'
  <2>1. UNCHANGED <<up, roomsHistory, history, handed>>
    BY <1>4 DEF HandleClose, FreeLink, logVars
  <2>2. \A b : Keeps(up, up', PostOf(b))
    BY <2>1 DEF Keeps
  <2> QED
    BY <2>1, <2>2, KeptUnlessStored, NonePosted
<1>5. ASSUME NEW c \in Conns, Serve(c)
      PROVE  PostsOK'
  <2>1. ASSUME NEW f, HandledBy(c, f)
        PROVE  PostsOK'
    <3>1. f \in Frames
      BY <2>1, HeadTailProperties DEF HandledBy, TypeOK
    <3> QED
      BY <2>1, <3>1, HandlePosts
  <2> QED
    BY <1>4, <1>5, <2>1 DEF Serve, HandledBy
<1>6. CASE UNCHANGED vars
  <2>1. UNCHANGED <<up, roomsHistory, history, handed>>
    BY <1>6 DEF vars, wireVars, serverVars, logVars
  <2>2. \A b : Keeps(up, up', PostOf(b))
    BY <2>1 DEF Keeps
  <2> QED
    BY <2>1, <2>2, KeptUnlessStored, NonePosted
<1> QED
  BY <1>1, <1>2, <1>3, <1>5, <1>6, PostPosts DEF Next

LEMMA InitPosts == Init => PostsOK
<1> SUFFICES ASSUME Init
             PROVE  PostsOK
  OBVIOUS
<1>1. \A c \in Conns : DOMAIN up[c] = {}
  BY EmptySeq DEF Init, WireInit
<1> QED
  BY <1>1 DEF PostsOK, Nowhere, AtMostOnce

-----------------------------------------------------------------------------
(* A post the server accepts is new to it; what a new member is given is.  *)

LEMMA AcceptedIsNew ==
    ASSUME TypeOK, PostsOK, NEW c \in Conns, NEW f \in Frames, f.cmd \in Posted,
           up[c] # << >>, f = Head(up[c])
    PROVE  f \notin Kept
<1>1. f.body \in Bodies /\ f \in PostOf(f.body)
  BY DEF Frames, WellFormed, PostOf
<1>2. 1 \in DOMAIN up[c] /\ up[c][1] = f
  BY EmptySeq, LenProperties DEF TypeOK
<1>3. Unseen(f.body)
  BY <1>1, <1>2 DEF PostsOK, Nowhere
<1> QED
  BY <1>3 DEF Unseen

LEMMA JoinerHasNothing ==
    ASSUME TypeOK, KeptOK, AsksOK, NEW c \in Conns, NEW f \in Frames,
           up[c] # << >>, f = Head(up[c]), HandleInviteResponse(c, f)
    PROVE  /\ f.key \in Keys /\ f.room \in Rooms
           /\ f.key \notin users[f.room]
           /\ ToSet(roomsHistory[f.room]) \cap (ToSet(handed[f.key]) \cup ToSet(history[f.key])) = {}
<1>1. /\ f.cmd = "ROOM.INVITE.VERIFICATION_RESPONSE"
      /\ f.key \in Keys /\ f.room \in Rooms
  BY DEF HandleInviteResponse, KeyedRequest, Request, Frames, WellFormed, Verification
<1>2. 1 \in DOMAIN up[c] /\ up[c][1] = f
  BY EmptySeq, LenProperties DEF TypeOK
<1>3. ~NotAsking(f.key)
  BY <1>1, <1>2 DEF NotAsking, Nowhere, AskUp
<1>4. f.key \notin users[f.room]
  BY <1>1, <1>3 DEF AsksOK, AsksOnce
<1>5. \A g \in ToSet(roomsHistory[f.room]) : g.room = f.room
  BY <1>1 DEF KeptOK, ToSet
<1>6. \A g \in ToSet(handed[f.key]) \cup ToSet(history[f.key]) : f.key \in users[g.room]
  BY <1>1 DEF KeptOK, KeptFor, ToSet
<1> QED
  BY <1>1, <1>4, <1>5, <1>6

LEMMA HandleOnce ==
    ASSUME TypeOK, KeptOK, AsksOK, PostsOK, OnceOK,
           NEW c \in Conns, NEW f \in Frames, HandledBy(c, f)
    PROVE  OnceOK'
<1>1. up[c] # << >> /\ f = Head(up[c])
  BY DEF HandledBy
<1>2. ASSUME NEW k \in Keys
      PROVE  /\ handed[k] \in Seq(Frames) /\ history[k] \in Seq(Frames)
             /\ Apart(handed[k], history[k])
             /\ ToSet(handed[k]) \subseteq Kept /\ ToSet(history[k]) \subseteq Kept
  BY DEF TypeOK, OnceOK, Kept
<1>3. ASSUME NEW r \in Rooms
      PROVE  /\ roomsHistory[r] \in Seq(Frames) /\ IsInjective(roomsHistory[r])
             /\ ToSet(roomsHistory[r]) \subseteq Kept
  BY DEF TypeOK, OnceOK, Kept
<1>4. CASE HandleMessage(c, f) \/ HandleKeyRotate(c, f)
  <2>1. f.cmd \in Posted /\ f.room \in Rooms
    BY <1>4 DEF HandleMessage, HandleKeyRotate, KeyedRequest, Request, Frames, WellFormed, Posted
  <2>2. Relayed(f.room, pubKey[c], f)
    BY <1>4 DEF HandledBy, RelayFrame, AnswerFrame, HandleMessage, HandleKeyRotate,
         HandleInviteResponse, HandlePublicKey, HandleNewRoom, HandleInvite, DeclineInvite,
         DropInviteResponse, HandleOpenRoom, RefuseMessage, RefuseKeyRotate, KeyedRequest,
         Request
  <2>3. f \notin Kept
    BY <1>1, <2>1, AcceptedIsNew
  <2>4. ASSUME NEW k \in Keys
        PROVE  Apart(handed'[k], history'[k])
    <3>1. \/ history'[k] = history[k] /\ handed'[k] = handed[k]
          \/ history'[k] = history[k] /\ handed'[k] = Append(handed[k], f)
          \/ history'[k] = Append(history[k], f) /\ handed'[k] = handed[k]
      BY <1>4, <2>1, <2>2, AcceptedIsStored
    <3>2. /\ IsInjective(Append(handed[k], f)) /\ IsInjective(Append(history[k], f))
      BY <1>2, <2>3, AppendApart DEF Apart
    <3>3. /\ ToSet(Append(handed[k], f)) = ToSet(handed[k]) \cup {f}
          /\ ToSet(Append(history[k], f)) = ToSet(history[k]) \cup {f}
      BY <1>2, Holds
    <3> QED
      BY <1>2, <2>3, <3>1, <3>2, <3>3 DEF Apart
  <2>5. ASSUME NEW r \in Rooms
        PROVE  IsInjective(roomsHistory'[r])
    <3>1. roomsHistory'[r] \in {roomsHistory[r], Append(roomsHistory[r], f), <<f>>}
      BY <1>4, <2>1, <2>2, AcceptedIsStored
    <3>2. IsInjective(<<f>>)
      BY DEF IsInjective
    <3>3. IsInjective(Append(roomsHistory[r], f))
      BY <1>3, <2>3, AppendApart
    <3> QED
      BY <1>3, <3>1, <3>2, <3>3
  <2> QED
    BY <2>4, <2>5 DEF OnceOK
<1>5. CASE HandleInviteResponse(c, f)
  <2>1. /\ f.key \in Keys /\ f.room \in Rooms
        /\ ToSet(roomsHistory[f.room]) \cap (ToSet(handed[f.key]) \cup ToSet(history[f.key])) = {}
    BY <1>1, <1>5, JoinerHasNothing
  <2>2. Hand(f.key, roomsHistory[f.room])
    BY <1>5 DEF HandledBy, RelayFrame, AnswerFrame, HandleMessage, HandleKeyRotate,
         HandleInviteResponse, HandlePublicKey, HandleNewRoom, HandleInvite, DeclineInvite,
         DropInviteResponse, HandleOpenRoom, RefuseMessage, RefuseKeyRotate, KeyedRequest,
         Request
  <2>3. history' = history /\ roomsHistory' = roomsHistory
    BY <1>5 DEF HandleInviteResponse
  <2>4. ASSUME NEW k \in Keys
        PROVE  Apart(handed'[k], history[k])
    <3>1. CASE k # f.key
      BY <1>2, <2>2, <3>1 DEF Hand, TypeOK
    <3>2. CASE k = f.key
      <4>1. handed'[k] = handed[k] \o roomsHistory[f.room]
        BY <2>2, <3>2 DEF Hand, TypeOK
      <4>2. IsInjective(handed[k] \o roomsHistory[f.room])
        <5>1. Apart(handed[k], roomsHistory[f.room])
          BY <1>2, <1>3, <2>1, <3>2 DEF Apart
        <5> QED
          BY <1>2, <1>3, <2>1, <5>1, ConcatApart
      <4>3. ToSet(handed[k] \o roomsHistory[f.room]) = ToSet(handed[k]) \cup ToSet(roomsHistory[f.room])
        BY <1>2, <1>3, <2>1, Holds
      <4> QED
        BY <1>2, <2>1, <3>2, <4>1, <4>2, <4>3 DEF Apart
    <3> QED
      BY <3>1, <3>2
  <2> QED
    BY <1>3, <2>3, <2>4 DEF OnceOK
<1>6. CASE HandlePublicKey(c, f)
  <2>1. f.key \in Keys
    BY <1>6 DEF HandlePublicKey, Request, Frames, WellFormed
  <2>2. Hand(f.key, history[f.key])
    BY <1>6 DEF HandledBy, RelayFrame, AnswerFrame, HandleMessage, HandleKeyRotate,
         HandleInviteResponse, HandlePublicKey, HandleNewRoom, HandleInvite, DeclineInvite,
         DropInviteResponse, HandleOpenRoom, RefuseMessage, RefuseKeyRotate, KeyedRequest,
         Request
  <2>3. history' = [history EXCEPT ![f.key] = << >>] /\ roomsHistory' = roomsHistory
    BY <1>6 DEF HandlePublicKey
  <2>4. ASSUME NEW k \in Keys
        PROVE  Apart(handed'[k], history'[k])
    <3>1. CASE k # f.key
      BY <1>2, <2>2, <2>3, <3>1 DEF Hand, TypeOK
    <3>2. CASE k = f.key
      <4>1. handed'[k] = handed[k] \o history[k] /\ history'[k] = << >>
        BY <2>2, <2>3, <3>2 DEF Hand, TypeOK
      <4>2. IsInjective(handed[k] \o history[k])
        BY <1>2, ConcatApart
      <4> QED
        BY <4>1, <4>2, HoldsNothing DEF Apart
    <3> QED
      BY <3>1, <3>2
  <2> QED
    BY <1>3, <2>3, <2>4 DEF OnceOK
<1>7. CASE AnswerFrame(c, f) /\ UNCHANGED handed
  <2>1. UNCHANGED <<roomsHistory, history, handed>>
    BY <1>7 DEF AnswerFrame, HandleNewRoom, HandleInvite, DeclineInvite,
         DropInviteResponse, HandleOpenRoom, RefuseMessage, RefuseKeyRotate, Refuse, serverVars
  <2> QED
    BY <2>1 DEF OnceOK
<1> QED
  BY <1>4, <1>5, <1>6, <1>7 DEF HandledBy, RelayFrame

LEMMA NextOnce ==
    ASSUME Inv, AsksOK, PostsOK, OnceOK, [Next]_vars
    PROVE  OnceOK'
<1> USE DEF Inv
<1>1. CASE UNCHANGED <<roomsHistory, history, handed>>
  BY <1>1 DEF OnceOK
<1>2. ASSUME NEW c \in Conns,
             \/ \E k \in Keys : \E first \in Frames : Connect(k, c, first)
             \/ PostAny(c) \/ Receive(c) \/ Leave(c)
             \/ HandleClose(c) /\ UNCHANGED <<clientVars, logVars>>
      PROVE  UNCHANGED <<roomsHistory, history, handed>>
  BY <1>2 DEF Connect, PostAny, Post, Receive, Send, Leave, HandleClose, serverVars, logVars
<1>3. CASE UNCHANGED vars
  BY <1>1, <1>3 DEF vars, serverVars, logVars
<1> QED
  BY <1>1, <1>2, <1>3, NextCases, HandleOnce

LEMMA InitOnce == Init => OnceOK
  BY HoldsNothing DEF Init, ServerInit, OnceOK, Apart

(* Nobody is relayed a post twice: not live and again from the backlog it  *)
(* is kept in only while away, and not from the room's history on joining  *)
(* and again live (server.py:86-92, 104-116, 136-142).                     *)
THEOREM RelaysOnce == Spec => []RelayedOnce
<1>1. Inv /\ OnceOK => RelayedOnce
  BY ConcatApart DEF Inv, TypeOK, OnceOK, RelayedOnce
<1> DEFINE IInv == Inv /\ AsksOK /\ PostsOK /\ OnceOK
<1>2. Init => IInv
  BY InitType, InitSpeakers, InitRooms, InitKept, InitAsks, InitPosts, InitOnce DEF Inv
<1>3. IInv /\ [Next]_vars => IInv'
  <2>1. Inv /\ [Next]_vars => Inv'
    BY NextType, NextSpeakers, NextRooms, NextKept DEF Inv
  <2> QED
    BY <2>1, NextAsks, NextPosts, NextOnce
<1>4. IInv => RelayedOnce
  BY <1>1
<1> QED
  BY <1>2, <1>3, <1>4, PTL DEF Spec

=============================================================================
