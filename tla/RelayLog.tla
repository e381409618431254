------------------------------ MODULE RelayLog ------------------------------
(***************************************************************************)
(* The relay server with every client it may meet: clients that announce   *)
(* their key first, as connect_callback does, and then create a room, ask  *)
(* to be let in, open a room, post, rotate or approve in any order, over   *)
(* several connections per key, any of which may break at any moment.      *)
(* Neither honesty nor membership is assumed of who posts.                 *)
(*                                                                         *)
(* Auxiliary variables record what the server never forgets in this        *)
(* module: what it accepted, from whom, and what it wrote to whom.         *)
(***************************************************************************)
EXTENDS RelayServer

CONSTANTS
    Bodies,        \* what frames of a room carry; each is posted once
    MaxInFlight    \* bound: a client posts only while fewer requests of its own travel

ASSUME ConstantsOK ==
    /\ NoKey \notin Keys
    /\ NoConn \notin Conns
    /\ NoRoom \notin Rooms
    /\ NoBody \notin Bodies
    /\ MaxInFlight \in Nat

VARIABLES
    peer,     \* peer[c]: the key of the client at the other end of connection c
    used,     \* keys that made their first connection
    author,   \* author[b]: who posted b, or NoKey
    log,      \* log[r]: every frame accepted for room r
    handed    \* handed[k]: the frames of rooms ever written to a connection of k

clientVars == <<peer, used>>
logVars == <<author, log, handed>>
vars == <<wireVars, serverVars, clientVars, logVars>>

Init ==
    /\ WireInit
    /\ ServerInit
    /\ peer = [c \in Conns |-> NoKey]
    /\ used = {}
    /\ author = [b \in Bodies |-> NoKey]
    /\ log = [r \in Rooms |-> << >>]
    /\ handed = [k \in Keys |-> << >>]

-----------------------------------------------------------------------------
(* The clients.                                                            *)

Connect(k, c, first) ==
    /\ OpenLink(c, <<PublicKey(k), first>>)
    /\ peer' = [peer EXCEPT ![c] = k]
    /\ used' = used \cup {k}
    /\ UNCHANGED <<serverVars, logVars>>

(* generate_id never runs out of ids; here Rooms is a finite pool of them. *)
RoomIdsLeft ==
    Cardinality({r \in Rooms : Exists(r)})
        + Cardinality({c \in Conns : NewRoom \in ToSet(up[c])}) < Cardinality(Rooms)

(* A key pair is made to create a room or to ask for one, once.            *)
FirstConnect(k, c) ==
    /\ k \notin used
    /\ \/ RoomIdsLeft /\ Connect(k, c, NewRoom)
       \/ \E r \in Rooms, o \in Keys : Connect(k, c, Invite(o, r, k, NoBody))

Reconnect(k, c) ==
    /\ k \in used
    /\ \E r \in Rooms : Connect(k, c, OpenRoom(r))

Send(c, f) ==
    /\ link[c] = "open"
    /\ up' = [up EXCEPT ![c] = Append(@, f)]
    /\ UNCHANGED <<link, serverVars, clientVars, log, handed>>

Post(c, b, f) ==
    /\ author[b] = NoKey
    /\ Len(up[c]) < MaxInFlight
    /\ Send(c, f)
    /\ author' = [author EXCEPT ![b] = peer[c]]
    /\ UNCHANGED down

PostAny(c) == \E r \in Rooms, b \in Bodies :
    \/ Post(c, b, Message(r, b))
    \/ Post(c, b, MessageKeyRotate(r, b))

(* A forwarded request makes its receiver approve; all else is just read.  *)
Receive(c) ==
    /\ down[c] # << >>
    /\ down' = [down EXCEPT ![c] = Tail(@)]
    /\ LET f == Head(down[c])
       IN  IF f.cmd = "ROOM.INVITE.VERIFICATION_REQUEST"
           THEN Send(c, InviteResponse(f.from, f.room, f.key, NoBody))
           ELSE UNCHANGED <<link, up, serverVars, clientVars, log, handed>>
    /\ UNCHANGED author

Leave(c) ==
    /\ \E n \in 0 .. Len(up[c]) : Disconnect(c, n)
    /\ peer' = [peer EXCEPT ![c] = NoKey]
    /\ UNCHANGED <<serverVars, used, logVars>>

-----------------------------------------------------------------------------
(* The server's steps, with the record of what they relay.                 *)

Relayed(r, k, f) ==
    /\ log' = [log EXCEPT ![r] = Append(@, f)]
    /\ handed' = [u \in Keys |-> IF u \in Present(r, k)
                                 THEN Append(handed[u], f) ELSE handed[u]]

Hand(k, fs) ==
    /\ handed' = [handed EXCEPT ![k] = @ \o fs]
    /\ UNCHANGED log

RelayFrame(c, f) ==
    \/ /\ HandleMessage(c, f)
       /\ Relayed(f.room, pubKey[c], f)
    \/ /\ HandleKeyRotate(c, f)
       /\ Relayed(f.room, pubKey[c], f)
    \/ /\ HandleInviteResponse(c, f)
       /\ Hand(f.key, roomsHistory[f.room])
    \/ /\ HandlePublicKey(c, f)
       /\ Hand(f.key, history[f.key])

AnswerFrame(c, f) ==
    \/ \E r \in Rooms : HandleNewRoom(c, f, r)
    \/ HandleInvite(c, f)
    \/ DeclineInvite(c, f)
    \/ DropInviteResponse(c, f)
    \/ HandleOpenRoom(c, f)
    \/ RefuseMessage(c, f)
    \/ RefuseKeyRotate(c, f)

Serve(c) ==
    \/ /\ up[c] # << >>
       /\ LET f == Head(up[c])
          IN  \/ RelayFrame(c, f)
              \/ AnswerFrame(c, f) /\ UNCHANGED <<log, handed>>
       /\ UNCHANGED <<clientVars, author>>
    \/ /\ HandleClose(c)
       /\ UNCHANGED <<clientVars, logVars>>

Next ==
    \/ \E k \in Keys, c \in Conns : FirstConnect(k, c) \/ Reconnect(k, c)
    \/ \E c \in Conns : PostAny(c) \/ Receive(c) \/ Leave(c) \/ Serve(c)

Spec == Init /\ [][Next]_vars

-----------------------------------------------------------------------------
(* Every frame on the wire and in the stores is one of the protocol's and  *)
(* carries what its command is about.                                      *)
Posted == {"ROOM.MESSAGE", "ROOM.MESSAGE.KEY.ROTATE"}
Verification ==
    {"ROOM.INVITE.VERIFICATION_REQUEST", "ROOM.INVITE.VERIFICATION_RESPONSE"}

WellFormed(f) ==
    /\ f.cmd \in Posted \cup Verification \cup {"ROOM.OPEN"} => f.room \in Rooms
    /\ f.cmd \in Verification \cup {"PUBKEY"} => f.key \in Keys
    /\ f.cmd = "ROOM.INVITE.VERIFICATION_REQUEST" => f.from \in Keys
    /\ f.cmd \in Posted => f.body \in Bodies /\ f.key = NoKey /\ f.from = NoKey

Frames ==
    {f \in [cmd : Commands, key : Keys \cup {NoKey}, room : Rooms \cup {NoRoom},
            from : Keys \cup {NoKey}, body : Bodies \cup {NoBody}] : WellFormed(f)}

TypeOK ==
    /\ link \in [Conns -> LinkStates]
    /\ up \in [Conns -> Seq(Frames)]
    /\ down \in [Conns -> Seq(Frames)]
    /\ owner \in [Rooms -> Keys \cup {NoKey}]
    /\ users \in [Rooms -> SUBSET Keys]
    /\ online \in [Keys -> Conns \cup {NoConn}]
    /\ history \in [Keys -> Seq(Frames)]
    /\ roomsHistory \in [Rooms -> Seq(Frames)]
    /\ pubKey \in [Conns -> Keys \cup {NoKey}]
    /\ peer \in [Conns -> Keys \cup {NoKey}]
    /\ used \subseteq Keys
    /\ author \in [Bodies -> Keys \cup {NoKey}]
    /\ log \in [Rooms -> Seq(Frames)]
    /\ handed \in [Keys -> Seq(Frames)]

(* A route is never stale: online leads to a connection whose handler is   *)
(* still running and announced this very key.  Otherwise send_str raises   *)
(* in the middle of another client's fan-out (server.py:108-116), which    *)
(* then ends with some members served and the rest forgotten.              *)
RoutesAreLive ==
    \A k \in Keys : online[k] # NoConn =>
        /\ link[online[k]] # "free"
        /\ pubKey[online[k]] = k

(* What is kept for a key that is online is only its own: others' frames   *)
(* wait only for who is away (server.py:109-116 with 136-142, 145-147).    *)
BacklogWhileAway ==
    \A k \in Keys : online[k] # NoConn =>
        \A i \in DOMAIN history[k] : author[history[k][i].body] = k

(* Frames of a room are kept for, and written to, its members only, come   *)
(* from members only, and key rotations from the owner only ("server       *)
(* enforces such messages may come only from room owner", README.md:157).  *)
FromAndToMembers(k, f) ==
    LET a == author[f.body]
    IN  /\ {k, a} \subseteq users[f.room]
        /\ f.cmd = "ROOM.MESSAGE.KEY.ROTATE" => a = owner[f.room]

MembersOnly ==
    \A k \in Keys :
        /\ \A i \in DOMAIN history[k] : FromAndToMembers(k, history[k][i])
        /\ \A i \in DOMAIN handed[k] : FromAndToMembers(k, handed[k][i])

(* Nobody is relayed a frame twice: not live and again from the backlog,   *)
(* nor from the room's history on joining and again live.                  *)
RelayedOnce ==
    \A k \in Keys : IsInjective(handed[k] \o history[k])

(* What a new member is given is the room's log since the last rotation    *)
(* ("server enables clients to fetch chat history since last key rotation  *)
(* for new members", README.md:168), the rotation itself included.         *)
SinceLastRotation ==
    \A r \in Rooms :
        LET start == Len(log[r]) - Len(roomsHistory[r]) + 1
        IN  /\ IsSuffix(roomsHistory[r], log[r])
            /\ \A i \in DOMAIN log[r] :
                  log[r][i].cmd = "ROOM.MESSAGE.KEY.ROTATE" => i <= start
            /\ start > 1 => log[r][start].cmd = "ROOM.MESSAGE.KEY.ROTATE"

(* What the invariants above rest on.  A connection speaks for one key:    *)
(* its first frame, and no other, announces the key everything it carries  *)
(* comes from.                                                             *)
Speaker(c) == IF pubKey[c] = NoKey THEN up[c][1].key ELSE pubKey[c]

SpeaksForOne(c) ==
    /\ link[c] = "free" => up[c] = << >> /\ pubKey[c] = NoKey
    /\ link[c] = "open" => /\ pubKey[c] = NoKey => up[c] # << >>
                           /\ peer[c] = Speaker(c)
    /\ \A i \in DOMAIN up[c] :
          /\ up[c][i].cmd = "PUBKEY" <=> i = 1 /\ pubKey[c] = NoKey
          /\ up[c][i].cmd \in Posted => author[up[c][i].body] = Speaker(c)

SpeakersOK == \A c \in Conns : SpeaksForOne(c)

(* A room has its owner among its users from the start.                    *)
RoomsOK ==
    \A r \in Rooms : IF Exists(r) THEN owner[r] \in users[r] ELSE users[r] = {}

(* Whatever is kept was posted by who was allowed to.                      *)
Relayable(f) ==
    /\ f.cmd \in Posted
    /\ author[f.body] \in users[f.room]
    /\ f.cmd = "ROOM.MESSAGE.KEY.ROTATE" => author[f.body] = owner[f.room]

KeptFor(k, fs) ==
    \A i \in DOMAIN fs : Relayable(fs[i]) /\ k \in users[fs[i].room]

KeptOK ==
    /\ \A r \in Rooms : \A i \in DOMAIN roomsHistory[r] :
          Relayable(roomsHistory[r][i]) /\ roomsHistory[r][i].room = r
    /\ \A k \in Keys : KeptFor(k, history[k]) /\ KeptFor(k, handed[k])

(* The relay delivers what Mailboxes promises, in that order.              *)
Posts == {Message(r, b) : r \in Rooms, b \in Bodies}
         \cup {MessageKeyRotate(r, b) : r \in Rooms, b \in Bodies}

Own(k) == {p \in Posts : author[p.body] = k}

(* The frames of s that are in F, in their order.                          *)
Pick(s, F) ==
    LET pick[n \in 0 .. Len(s)] ==
          IF n = 0 THEN << >>
          ELSE IF s[n] \in F THEN Append(pick[n - 1], s[n])
          ELSE pick[n - 1]
    IN  pick[Len(s)]

Stream(k) == handed[k] \o history[k]

Promise == INSTANCE Mailboxes WITH
    Posts <- Posts,
    members <- users,
    mailbox <- [k \in Keys |-> Pick(Stream(k), Posts \ Own(k))],
    echo <- [k \in Keys |-> Pick(Stream(k), Own(k))],
    recent <- roomsHistory

KeepsThePromise == Promise!Spec
=============================================================================
