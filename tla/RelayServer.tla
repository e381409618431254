---------------------------- MODULE RelayServer ----------------------------
(***************************************************************************)
(* The relay server, server.py: one asyncio thread running one wshandler   *)
(* per connection.  A handler yields only in receive(), so what it does    *)
(* with one frame is one step.  The server keeps rooms, the map of online  *)
(* keys, a backlog per key and a history per room, all in memory.          *)
(*                                                                         *)
(* Room.users is a list in the code and a set here: a client asks to be    *)
(* let into a room once per key pair, so no key is appended twice, and the *)
(* order in which the list is walked cannot be seen, because the members'  *)
(* sockets are distinct.  The last branch (a frame of another command, or  *)
(* any frame before PUBKEY) answers requests no client here makes.         *)
(*                                                                         *)
(* A definition called Bad... is the one below it with a slip in it; the   *)
(* runs are tried with it in its place, to see that they would notice.     *)
(***************************************************************************)
EXTENDS Wire

CONSTANTS
    Keys,      \* public keys; a client makes a key pair for every room it creates or joins
    Rooms,     \* room ids generate_id can return
    NoKey, NoRoom, NoBody, NoConn

VARIABLES
    owner,          \* rooms[r]['owner'], NoKey while the room does not exist
    users,          \* rooms[r]['users']
    online,         \* online[k]: the connection kept for key k, or NoConn
    history,        \* history[k]: frames kept for key k until its next PUBKEY
    roomsHistory,   \* rooms_history[r]: frames for those who join later
    pubKey          \* wshandler's local pub_key, per connection

serverVars == <<owner, users, online, history, roomsHistory, pubKey>>

(* Requests and replies.  key and from are the two public keys a frame can *)
(* carry; body is what the server never looks into.                        *)
Frame(cmd, key, room, from, body) ==
    [cmd |-> cmd, key |-> key, room |-> room, from |-> from, body |-> body]

Commands ==
    {"PUBKEY", "ROOM.CREATE", "ROOM.CREATED", "ROOM.OPEN", "ROOM.OPENED",
     "ROOM.NOT_EXIST", "ROOM.INVITE.VERIFICATION_REQUEST",
     "ROOM.INVITE.VERIFICATION_RESPONSE", "ROOM.INVITE.DECLINED",
     "ROOM.MESSAGE", "ROOM.MESSAGE.KEY.ROTATE", "ROOM.MESSAGE.ERROR"}

PublicKey(k)        == Frame("PUBKEY", k, NoRoom, NoKey, NoBody)
NewRoom             == Frame("ROOM.CREATE", NoKey, NoRoom, NoKey, NoBody)
RoomCreated(r)      == Frame("ROOM.CREATED", NoKey, r, NoKey, NoBody)
OpenRoom(r)         == Frame("ROOM.OPEN", NoKey, r, NoKey, NoBody)
OpenedRoom          == Frame("ROOM.OPENED", NoKey, NoRoom, NoKey, NoBody)
ErrorRoom(r)        == Frame("ROOM.NOT_EXIST", NoKey, r, NoKey, NoBody)
Invite(o, r, k, b)  == Frame("ROOM.INVITE.VERIFICATION_REQUEST", o, r, k, b)
BadResponseOrder(k, r, o, b) ==
    Frame("ROOM.INVITE.VERIFICATION_RESPONSE", r, k, o, b)
InviteResponse(k, r, o, b) == Frame("ROOM.INVITE.VERIFICATION_RESPONSE", k, r, o, b)
InvalidInvite(o)    == Frame("ROOM.INVITE.DECLINED", o, NoRoom, NoKey, NoBody)
Message(r, b)       == Frame("ROOM.MESSAGE", NoKey, r, NoKey, b)
MessageKeyRotate(r, b) == Frame("ROOM.MESSAGE.KEY.ROTATE", NoKey, r, NoKey, b)
MessageError(r)     == Frame("ROOM.MESSAGE.ERROR", NoKey, r, NoKey, NoBody)

ServerInit ==
    /\ owner = [r \in Rooms |-> NoKey]
    /\ users = [r \in Rooms |-> {}]
    /\ online = [k \in Keys |-> NoConn]
    /\ history = [k \in Keys |-> << >>]
    /\ roomsHistory = [r \in Rooms |-> << >>]
    /\ pubKey = [c \in Conns |-> NoKey]

Exists(r) == owner[r] # NoKey

(* The handler of connection c takes request f of kind cmd.                *)
Request(c, f, cmd) ==
    /\ Arrives(c, f)
    /\ f.cmd = cmd
    /\ TakeUp(c)
    /\ UNCHANGED link

(* Every branch but PUBKEY's asks for "and pub_key".                       *)
KeyedRequest(c, f, cmd) ==
    /\ Request(c, f, cmd)
    /\ pubKey[c] # NoKey

HandleNewRoom(c, f, r) ==
    /\ KeyedRequest(c, f, "ROOM.CREATE")
    /\ ~Exists(r)
    /\ owner' = [owner EXCEPT ![r] = pubKey[c]]
    /\ users' = [users EXCEPT ![r] = {pubKey[c]}]
    /\ SendTo(c, <<RoomCreated(r)>>)
    /\ UNCHANGED <<online, history, roomsHistory, pubKey>>

(* A joiner's request is passed verbatim to the owner it names, if that is *)
(* the room's owner and the owner is online; otherwise it is declined.     *)
InviteIsValid(f) ==
    /\ Exists(f.room)
    /\ f.key = owner[f.room]
    /\ online[f.key] # NoConn

HandleInvite(c, f) ==
    /\ KeyedRequest(c, f, "ROOM.INVITE.VERIFICATION_REQUEST")
    /\ InviteIsValid(f)
    /\ SendTo(online[f.key], <<f>>)
    /\ UNCHANGED serverVars

DeclineInvite(c, f) ==
    /\ KeyedRequest(c, f, "ROOM.INVITE.VERIFICATION_REQUEST")
    /\ ~InviteIsValid(f)
    /\ SendTo(c, <<InvalidInvite(f.key)>>)
    /\ UNCHANGED serverVars

(* The owner's answer admits the joiner at once and is followed by the     *)
(* room's history; for a joiner who is gone it is dropped without a word.  *)
ResponseIsValid(c, f) ==
    /\ Exists(f.room)
    /\ online[f.key] # NoConn
    /\ pubKey[c] = owner[f.room]

HandleInviteResponse(c, f) ==
    /\ KeyedRequest(c, f, "ROOM.INVITE.VERIFICATION_RESPONSE")
    /\ ResponseIsValid(c, f)
    /\ users' = [users EXCEPT ![f.room] = @ \cup {f.key}]
    /\ SendTo(online[f.key], <<f>> \o roomsHistory[f.room])
    /\ UNCHANGED <<owner, online, history, roomsHistory, pubKey>>

DropInviteResponse(c, f) ==
    /\ KeyedRequest(c, f, "ROOM.INVITE.VERIFICATION_RESPONSE")
    /\ ~ResponseIsValid(c, f)
    /\ UNCHANGED <<serverVars, down>>

BadOpenOwnersOnly(c, f) ==
    /\ KeyedRequest(c, f, "ROOM.OPEN")
    /\ SendTo(c, << IF pubKey[c] = owner[f.room] THEN OpenedRoom ELSE ErrorRoom(f.room) >>)
    /\ UNCHANGED serverVars

HandleOpenRoom(c, f) ==
    /\ KeyedRequest(c, f, "ROOM.OPEN")
    /\ SendTo(c, << IF Exists(f.room) /\ pubKey[c] \in users[f.room]
                    THEN OpenedRoom
                    ELSE ErrorRoom(f.room) >>)
    /\ UNCHANGED serverVars

BadPresentWithAuthor(r, k) == {u \in users[r] : online[u] # NoConn}

(* The members of r who get a frame of key k at once: those online, but    *)
(* never k itself.  The others, k included, get it with their next PUBKEY. *)
Present(r, k) == {u \in users[r] : online[u] # NoConn /\ u # k}

BadFanOut(r, k, f, present, keep) ==
    /\ SendDown([c \in Conns |->
                   IF \E u \in present : online[u] = c THEN <<f>> ELSE << >>])
    /\ history' = [u \in Keys |-> IF u \in keep THEN Append(history[u], f) ELSE history[u]]

BadKeepForAll(r, k, f) == BadFanOut(r, k, f, Present(r, k), users[r])

BadKeepForNobody(r, k, f) == BadFanOut(r, k, f, Present(r, k), {})

FanOut(r, k, f) ==
    LET present == Present(r, k)
    IN  /\ SendDown([c \in Conns |->
                       IF \E u \in present : online[u] = c THEN <<f>> ELSE << >>])
        /\ history' = [u \in Keys |-> IF u \in users[r] \ present
                                      THEN Append(history[u], f)
                                      ELSE history[u]]

(* MESSAGE_ERROR is the one reply that is not wrapped in the session.      *)
Refuse(c, f) ==
    /\ SendTo(c, <<MessageError(f.room)>>)
    /\ UNCHANGED serverVars

BadMayPost(c, f) == Exists(f.room)

MayPost(c, f) == Exists(f.room) /\ pubKey[c] \in users[f.room]

HandleMessage(c, f) ==
    /\ KeyedRequest(c, f, "ROOM.MESSAGE")
    /\ MayPost(c, f)
    /\ roomsHistory' = [roomsHistory EXCEPT ![f.room] = Append(@, f)]
    /\ FanOut(f.room, pubKey[c], f)
    /\ UNCHANGED <<owner, users, online, pubKey>>

RefuseMessage(c, f) ==
    /\ KeyedRequest(c, f, "ROOM.MESSAGE")
    /\ ~MayPost(c, f)
    /\ Refuse(c, f)

MayRotate(c, f) == Exists(f.room) /\ pubKey[c] = owner[f.room]

BadRotateAppends(c, f) ==
    /\ KeyedRequest(c, f, "ROOM.MESSAGE.KEY.ROTATE")
    /\ MayRotate(c, f)
    /\ roomsHistory' = [roomsHistory EXCEPT ![f.room] = Append(@, f)]
    /\ FanOut(f.room, pubKey[c], f)
    /\ UNCHANGED <<owner, users, online, pubKey>>

HandleKeyRotate(c, f) ==
    /\ KeyedRequest(c, f, "ROOM.MESSAGE.KEY.ROTATE")
    /\ MayRotate(c, f)
    /\ roomsHistory' = [roomsHistory EXCEPT ![f.room] = <<f>>]
    /\ FanOut(f.room, pubKey[c], f)
    /\ UNCHANGED <<owner, users, online, pubKey>>

RefuseKeyRotate(c, f) ==
    /\ KeyedRequest(c, f, "ROOM.MESSAGE.KEY.ROTATE")
    /\ ~MayRotate(c, f)
    /\ Refuse(c, f)

BadKeepBacklog(c, f) ==
    /\ Request(c, f, "PUBKEY")
    /\ pubKey' = [pubKey EXCEPT ![c] = f.key]
    /\ online' = [online EXCEPT ![f.key] = c]
    /\ SendTo(c, history[f.key])
    /\ UNCHANGED <<owner, users, history, roomsHistory>>

(* PUBKEY routes the key to this connection, whatever it was routed to     *)
(* before, and hands over the backlog.                                     *)
HandlePublicKey(c, f) ==
    /\ Request(c, f, "PUBKEY")
    /\ pubKey' = [pubKey EXCEPT ![c] = f.key]
    /\ online' = [online EXCEPT ![f.key] = c]
    /\ SendTo(c, history[f.key])
    /\ history' = [history EXCEPT ![f.key] = << >>]
    /\ UNCHANGED <<owner, users, roomsHistory>>

BadKeepRoute(c) ==
    /\ FreeLink(c)
    /\ pubKey' = [pubKey EXCEPT ![c] = NoKey]
    /\ UNCHANGED <<owner, users, online, history, roomsHistory>>

(* receive() returns the close: the key goes offline, even if meanwhile it *)
(* was routed to a newer connection.  The handler ends, with an exception  *)
(* from send_str when the key was not online, and its locals with it.      *)
HandleClose(c) ==
    /\ FreeLink(c)
    /\ online' = [k \in Keys |-> IF k = pubKey[c] THEN NoConn ELSE online[k]]
    /\ pubKey' = [pubKey EXCEPT ![c] = NoKey]
    /\ UNCHANGED <<owner, users, history, roomsHistory>>

(* The process is restarted: everything it kept is gone, and so are the    *)
(* connections.                                                            *)
Restart ==
    /\ link' = [c \in Conns |-> "free"]
    /\ up' = [c \in Conns |-> << >>]
    /\ down' = [c \in Conns |-> << >>]
    /\ owner' = [r \in Rooms |-> NoKey]
    /\ users' = [r \in Rooms |-> {}]
    /\ online' = [k \in Keys |-> NoConn]
    /\ history' = [k \in Keys |-> << >>]
    /\ roomsHistory' = [r \in Rooms |-> << >>]
    /\ pubKey' = [c \in Conns |-> NoKey]

Handle(c, f) ==
    \/ \E r \in Rooms : HandleNewRoom(c, f, r)
    \/ HandleInvite(c, f)
    \/ DeclineInvite(c, f)
    \/ HandleInviteResponse(c, f)
    \/ DropInviteResponse(c, f)
    \/ HandleOpenRoom(c, f)
    \/ HandleMessage(c, f)
    \/ RefuseMessage(c, f)
    \/ HandleKeyRotate(c, f)
    \/ RefuseKeyRotate(c, f)
    \/ HandlePublicKey(c, f)

ServerStep(c) ==
    \/ up[c] # << >> /\ Handle(c, Head(up[c]))
    \/ HandleClose(c)
=============================================================================
