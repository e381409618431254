----------------------------- MODULE SecureChat -----------------------------
(***************************************************************************)
(* The clients of secure_chat_room.hpp and the relay server together: how  *)
(* a room key is made, handed to who was invited, rotated and stored, over *)
(* connections that break and a server that may restart.                   *)
(*                                                                         *)
(* One member of Keys stands for one room in one user's file, together     *)
(* with the room object of the browser that opens it: every creation and   *)
(* every invitation taken up makes a key pair.                             *)
(*                                                                         *)
(* Cryptography is what Themis promises: a seal opens with the key (and    *)
(* the context) it was made with and with no other.  A message token       *)
(* travels beside the message it is the context of and so always fits;     *)
(* the token of an invitation travels outside and is kept.                 *)
(* As in RelayServer, Bad... is the definition below it with a slip.       *)
(***************************************************************************)
EXTENDS RelayServer

CONSTANTS
    Creators,            \* keys that create rooms; the others join
    Leavers,             \* keys whose user leaves, or whose browser or network dies
    Texts,               \* what users say, each text once
    Invites,             \* invitation ids; the token is as good as the id
    KeyRotationLimit,    \* KEY_ROTATION_LIMIT
    MaxOpens,            \* bound: how often a stored room is opened again
    MaxRestarts,         \* bound: restarts of the server
    NoInvite, NoData, NoCipher

ASSUME ConstantsOK ==
    /\ Creators \subseteq Keys
    /\ Leavers \subseteq Keys
    /\ KeyRotationLimit \in Nat \ {0}
    /\ {MaxOpens, MaxRestarts} \subseteq Nat

VARIABLES
    stage,    \* "absent": no room object; "waiting"; "open": the UI was told open_room; "crashed"
    conn,     \* the room's socket_, or NoConn
    data,     \* room_data_, in memory
    cipher,   \* the key inside room_encrypter_, or NoCipher while that is NULL
    saved,    \* what the user's file holds of room_data_, or NoData
    draws,    \* how many room keys the key pair's owner has drawn
    issued,   \* issued[i]: the invitation people pass around, or NoInvite
    said,     \* said[t]: who said t, or NoKey
    opens,    \* how often each stored room was opened
    taken,    \* room ids ever given out; generate_id does not repeat itself
    restarts  \* of the server

roomVars == <<stage, conn, data, cipher, saved, draws>>
usageVars == <<issued, said, opens, taken, restarts>>
vars == <<wireVars, serverVars, roomVars, usageVars>>

(* A key drawn at random is known by who drew it and when.                 *)
RoomKey(k, n) == [by |-> k, n |-> n]

RoomData(name, o, key, count, invites, invite) ==
    [name |-> name, owner |-> o, roomKey |-> key, messageCount |-> count,
     invites |-> invites, invite |-> invite]

Null == -1      \* messageCount.isNull(): only who created the room counts

Seal(key, token, content) == [seal |-> key, token |-> token, content |-> content]

Init ==
    /\ WireInit
    /\ ServerInit
    /\ stage = [k \in Keys |-> "absent"]
    /\ conn = [k \in Keys |-> NoConn]
    /\ data = [k \in Keys |-> NoData]
    /\ cipher = [k \in Keys |-> NoCipher]
    /\ saved = [k \in Keys |-> NoData]
    /\ draws = [k \in Keys |-> 0]
    /\ issued = [i \in Invites |-> NoInvite]
    /\ said = [t \in Texts |-> NoKey]
    /\ opens = [k \in Keys |-> 0]
    /\ taken = {}
    /\ restarts = 0

-----------------------------------------------------------------------------
(* What the user does.  A room object is constructed, connects, and sends  *)
(* its first two requests from connect_callback; nothing that happens in   *)
(* between can reach it, so it is one step here.                           *)

Construct(k, c, d, ciph, first) ==
    /\ stage[k] \in {"absent", "crashed"}
    /\ OpenLink(c, <<PublicKey(k), first>>)
    /\ stage' = [stage EXCEPT ![k] = "waiting"]
    /\ conn' = [conn EXCEPT ![k] = c]
    /\ data' = [data EXCEPT ![k] = d]
    /\ cipher' = [cipher EXCEPT ![k] = ciph]
    /\ UNCHANGED <<serverVars, saved, issued, said, taken, restarts>>

FreshPair(k) == draws[k] = 0 /\ draws' = [draws EXCEPT ![k] = 1]

NewRoomOf(k, c) ==
    LET key == RoomKey(k, 1)
    IN  /\ k \in Creators
        /\ FreshPair(k)
        /\ Construct(k, c, RoomData(NoRoom, k, key, 0, {}, NoInvite), key, NewRoom)
        /\ UNCHANGED opens

(* The new member draws a join key, keeps it where the room key will be    *)
(* and has no encrypter yet.                                               *)
OpenByInvite(k, c, i) ==
    LET key == RoomKey(k, 1)
        inv == issued[i]
    IN  /\ k \notin Creators
        /\ inv # NoInvite
        /\ FreshPair(k)
        /\ Construct(k, c, RoomData(inv.room, inv.owner, key, Null, {}, i), NoCipher,
                     Invite(inv.owner, inv.room, k, Seal(NoCipher, i, key)))
        /\ UNCHANGED opens

BadOpenWithoutKey(k, c) ==
    /\ saved[k] # NoData
    /\ opens[k] < MaxOpens
    /\ opens' = [opens EXCEPT ![k] = @ + 1]
    /\ Construct(k, c, saved[k], NoCipher, OpenRoom(saved[k].name))
    /\ UNCHANGED draws

OpenExisting(k, c) ==
    /\ saved[k] # NoData
    /\ opens[k] < MaxOpens
    /\ opens' = [opens EXCEPT ![k] = @ + 1]
    /\ Construct(k, c, saved[k], saved[k].roomKey, OpenRoom(saved[k].name))
    /\ UNCHANGED draws

(* The room object goes, with whatever it did not save: after a logout the *)
(* requests sent still arrive, after a crash of the browser or a loss of   *)
(* the network (on_error only logs: nothing reconnects) perhaps not.       *)
Forget(k, s) ==
    /\ stage' = [stage EXCEPT ![k] = s]
    /\ conn' = [conn EXCEPT ![k] = NoConn]
    /\ data' = [data EXCEPT ![k] = NoData]
    /\ cipher' = [cipher EXCEPT ![k] = NoCipher]
    /\ UNCHANGED <<saved, draws, usageVars>>

Leave(k) ==
    /\ k \in Leavers
    /\ stage[k] \in {"waiting", "open"}
    /\ IF conn[k] = NoConn
       THEN UNCHANGED wireVars
       ELSE \E n \in 0 .. Len(up[conn[k]]) : Disconnect(conn[k], n)
    /\ Forget(k, "absent")
    /\ UNCHANGED serverVars

GenerateInvite(k, i) ==
    /\ stage[k] = "open"
    /\ issued[i] = NoInvite
    /\ issued' = [issued EXCEPT ![i] = [room |-> data[k].name, owner |-> k]]
    /\ data' = [data EXCEPT ![k].invites = @ \cup {i}]
    /\ UNCHANGED <<wireVars, serverVars, stage, conn, cipher, saved, draws,
                   said, opens, taken, restarts>>

Submit(c, f) ==
    IF c # NoConn THEN up' = [up EXCEPT ![c] = Append(@, f)] ELSE UNCHANGED up

SendMessage(k, t) ==
    /\ stage[k] = "open"
    /\ said[t] = NoKey
    /\ said' = [said EXCEPT ![t] = k]
    /\ Submit(conn[k], Message(data[k].name, Seal(cipher[k], NoInvite, t)))
    /\ UNCHANGED <<link, down, serverVars, roomVars, issued, opens, taken, restarts>>

-----------------------------------------------------------------------------
(* on_receive, by command.                                                 *)

Receives(k, f, cmd) ==
    /\ f.cmd = cmd
    /\ UNCHANGED <<link, serverVars, draws, usageVars>>

TakeDown(k) == down' = [down EXCEPT ![conn[k]] = Tail(@)]

(* save_callback_: the room's data goes to the file.                       *)
Save(k) == saved' = [saved EXCEPT ![k] = data'[k]]

ShowRoom(k) == stage' = [stage EXCEPT ![k] = "open"]

OnRoomCreated(k, f) ==
    /\ Receives(k, f, "ROOM.CREATED")
    /\ TakeDown(k)
    /\ data' = [data EXCEPT ![k].name = f.room]
    /\ Save(k)
    /\ ShowRoom(k)
    /\ UNCHANGED <<up, conn, cipher>>

BadOpenedUnshown(k, f) ==
    /\ Receives(k, f, "ROOM.OPENED")
    /\ TakeDown(k)
    /\ UNCHANGED data
    /\ Save(k)
    /\ UNCHANGED <<up, stage, conn, cipher>>

OnRoomOpened(k, f) ==
    /\ Receives(k, f, "ROOM.OPENED")
    /\ TakeDown(k)
    /\ UNCHANGED data
    /\ Save(k)
    /\ ShowRoom(k)
    /\ UNCHANGED <<up, conn, cipher>>

OnRoomNotExist(k, f) ==
    /\ Receives(k, f, "ROOM.NOT_EXIST")
    /\ TakeDown(k)
    /\ saved' = [saved EXCEPT ![k] = NoData]
    /\ UNCHANGED <<up, stage, conn, data, cipher>>

BadRequest(k, f, token, discarded) ==
    /\ Receives(k, f, "ROOM.INVITE.VERIFICATION_REQUEST")
    /\ TakeDown(k)
    /\ Submit(conn[k], InviteResponse(f.from, f.room, f.key,
                           Seal(f.body.content, token, data[k].roomKey)))
    /\ data' = [data EXCEPT ![k].invites = @ \ discarded]
    /\ UNCHANGED <<stage, conn, cipher, saved>>

BadKeepInvite(k, f) == BadRequest(k, f, f.body.token, {})

BadDiscardFirst(k, f) == BadRequest(k, f, NoInvite, {f.body.token})

(* The room key goes out under the join key, with the invitation's token   *)
(* as context, or with none if the invitation is not (any more) known; the *)
(* invitation is discarded.                                                *)
OnVerificationRequest(k, f) ==
    /\ Receives(k, f, "ROOM.INVITE.VERIFICATION_REQUEST")
    /\ TakeDown(k)
    /\ LET i == f.body.token
           token == IF i \in data[k].invites THEN i ELSE NoInvite
           joinKey == f.body.content
       IN  IF f.key = k /\ f.room = data[k].name
           THEN /\ Submit(conn[k], InviteResponse(f.from, f.room, f.key,
                                       Seal(joinKey, token, data[k].roomKey)))
                /\ data' = [data EXCEPT ![k].invites = @ \ {i}]
           ELSE UNCHANGED <<up, data>>
    /\ UNCHANGED <<stage, conn, cipher, saved>>

BadSaveUnopened(k, f) ==
    /\ Receives(k, f, "ROOM.INVITE.VERIFICATION_RESPONSE")
    /\ TakeDown(k)
    /\ UNCHANGED <<data, cipher>>
    /\ Save(k)
    /\ ShowRoom(k)
    /\ UNCHANGED <<up, conn>>

(* A seal made without a token, or with another, does not open: the joiner *)
(* is shown an error and stays as it is.                                   *)
OnVerificationResponse(k, f) ==
    /\ Receives(k, f, "ROOM.INVITE.VERIFICATION_RESPONSE")
    /\ TakeDown(k)
    /\ IF f.body.seal = data[k].roomKey /\ f.body.token = data[k].invite
       THEN /\ data' = [data EXCEPT ![k].roomKey = f.body.content]
            /\ cipher' = [cipher EXCEPT ![k] = f.body.content]
            /\ Save(k)
            /\ ShowRoom(k)
       ELSE UNCHANGED <<data, cipher, saved, stage>>
    /\ UNCHANGED <<up, conn>>

(* room_encrypter_->decrypt through the NULL pointer of a joiner that has  *)
(* no key yet takes the module down.                                       *)
CrashOnFrame(k, f) ==
    /\ f.cmd \in {"ROOM.MESSAGE", "ROOM.MESSAGE.KEY.ROTATE"}
    /\ f.room = data[k].name
    /\ cipher[k] = NoCipher
    /\ Disconnect(conn[k], Len(up[conn[k]]))
    /\ Forget(k, "crashed")
    /\ UNCHANGED serverVars

(* The owner counts what it can decrypt and at the limit draws a new key,  *)
(* which goes out under the old one and is not saved.                      *)
Readable(k, f) == f.room = data[k].name /\ f.body.seal = cipher[k]

BadRotationDue(k) ==
    /\ data[k].messageCount # Null
    /\ data[k].messageCount + 1 > KeyRotationLimit

RotationDue(k) ==
    /\ data[k].messageCount # Null
    /\ data[k].messageCount + 1 >= KeyRotationLimit

BadRotateUnderNewKey(k) ==
    LET key == RoomKey(k, draws[k] + 1)
    IN  /\ draws' = [draws EXCEPT ![k] = @ + 1]
        /\ Submit(conn[k], MessageKeyRotate(data[k].name, Seal(key, NoInvite, key)))
        /\ data' = [data EXCEPT ![k].roomKey = key, ![k].messageCount = 0]
        /\ cipher' = [cipher EXCEPT ![k] = key]

RotateKey(k) ==
    LET key == RoomKey(k, draws[k] + 1)
    IN  /\ draws' = [draws EXCEPT ![k] = @ + 1]
        /\ Submit(conn[k], MessageKeyRotate(data[k].name, Seal(cipher[k], NoInvite, key)))
        /\ data' = [data EXCEPT ![k].roomKey = key, ![k].messageCount = 0]
        /\ cipher' = [cipher EXCEPT ![k] = key]

CountMessage(k) ==
    /\ data' = IF data[k].messageCount # Null
               THEN [data EXCEPT ![k].messageCount = @ + 1] ELSE data
    /\ UNCHANGED <<up, cipher, draws>>

OnMessage(k, f) ==
    /\ f.cmd = "ROOM.MESSAGE"
    /\ cipher[k] # NoCipher \/ f.room # data[k].name
    /\ TakeDown(k)
    /\ IF ~Readable(k, f) THEN UNCHANGED <<up, data, cipher, draws>>
       ELSE IF RotationDue(k) THEN RotateKey(k)
       ELSE CountMessage(k)
    /\ UNCHANGED <<link, serverVars, stage, conn, saved, usageVars>>

BadKeepEncrypter(k, f) ==
    /\ Receives(k, f, "ROOM.MESSAGE.KEY.ROTATE")
    /\ cipher[k] # NoCipher
    /\ TakeDown(k)
    /\ data' = [data EXCEPT ![k].roomKey = f.body.content]
    /\ UNCHANGED <<up, stage, conn, cipher, saved>>

OnKeyRotate(k, f) ==
    /\ Receives(k, f, "ROOM.MESSAGE.KEY.ROTATE")
    /\ cipher[k] # NoCipher \/ f.room # data[k].name
    /\ TakeDown(k)
    /\ IF Readable(k, f)
       THEN /\ data' = [data EXCEPT ![k].roomKey = f.body.content]
            /\ cipher' = [cipher EXCEPT ![k] = f.body.content]
       ELSE UNCHANGED <<data, cipher>>
    /\ UNCHANGED <<up, stage, conn, saved>>

(* ROOM.INVITE.DECLINED has no case of its own: an error is shown.         *)
OnDeclined(k, f) ==
    /\ Receives(k, f, "ROOM.INVITE.DECLINED")
    /\ TakeDown(k)
    /\ UNCHANGED <<up, stage, conn, data, cipher, saved>>

OnReceive(k) ==
    /\ conn[k] # NoConn
    /\ down[conn[k]] # << >>
    /\ LET f == Head(down[conn[k]])
       IN  \/ OnRoomCreated(k, f)
           \/ OnRoomOpened(k, f)
           \/ OnRoomNotExist(k, f)
           \/ OnVerificationRequest(k, f)
           \/ OnVerificationResponse(k, f)
           \/ CrashOnFrame(k, f)
           \/ OnMessage(k, f)
           \/ OnKeyRotate(k, f)
           \/ OnDeclined(k, f)

-----------------------------------------------------------------------------
Serve(c) ==
    /\ ServerStep(c)
    /\ taken' = taken \cup {r \in Rooms : owner'[r] # NoKey}
    /\ \A r \in taken : owner'[r] = owner[r]
    /\ UNCHANGED <<roomVars, issued, said, opens, restarts>>

(* All connections break with the server; the clients do not reconnect.    *)
RestartServer ==
    /\ restarts < MaxRestarts
    /\ restarts' = restarts + 1
    /\ Restart
    /\ conn' = [k \in Keys |-> NoConn]
    /\ UNCHANGED <<stage, data, cipher, saved, draws, issued, said, opens, taken>>

UserStep(k) ==
    \/ \E c \in Conns : NewRoomOf(k, c)
    \/ \E c \in Conns, i \in Invites : OpenByInvite(k, c, i)
    \/ \E c \in Conns : OpenExisting(k, c)
    \/ Leave(k)
    \/ \E i \in Invites : GenerateInvite(k, i)
    \/ \E t \in Texts : SendMessage(k, t)

Next ==
    \/ \E k \in Keys : UserStep(k) \/ OnReceive(k)
    \/ \E c \in Conns : Serve(c)
    \/ RestartServer

Spec == Init /\ [][Next]_vars

(* The event loops of the server and of each browser go on; no fairness is *)
(* asked of users, of the network or of restarts.                          *)
Fairness ==
    /\ \A c \in Conns : WF_vars(Serve(c))
    /\ \A k \in Keys : WF_vars(OnReceive(k))

FairSpec == Spec /\ Fairness

-----------------------------------------------------------------------------
RoomKeys == [by : Keys, n : Nat]

Datas ==
    [name : Rooms \cup {NoRoom}, owner : Keys, roomKey : RoomKeys,
     messageCount : Null .. KeyRotationLimit - 1, invites : SUBSET Invites,
     invite : Invites \cup {NoInvite}]

(* What stands for "nothing" is nothing else.                              *)
ASSUME NullsOK ==
    /\ NoKey \notin Keys
    /\ NoConn \notin Conns
    /\ NoRoom \notin Rooms
    /\ NoInvite \notin Invites \cup [room : Rooms, owner : Keys]
    /\ NoData \notin Datas
    /\ NoCipher \notin RoomKeys

(* The client's state; the count never rests at the limit.                 *)
TypeOK ==
    /\ stage \in [Keys -> {"absent", "waiting", "open", "crashed"}]
    /\ conn \in [Keys -> Conns \cup {NoConn}]
    /\ data \in [Keys -> Datas \cup {NoData}]
    /\ cipher \in [Keys -> RoomKeys \cup {NoCipher}]
    /\ saved \in [Keys -> Datas \cup {NoData}]
    /\ said \in [Texts -> Keys \cup {NoKey}]

(* Client k is at the end of the connection the server relays to.          *)
Reached(k) == conn[k] # NoConn /\ online[k] = conn[k]

Keyed(k) == cipher[k] # NoCipher

OwnerOf(k) == data[k].owner

(* The key a client holds once it has read fs.                             *)
Switch(key, f) ==
    IF f.cmd = "ROOM.MESSAGE.KEY.ROTATE" /\ f.body.seal = key THEN f.body.content ELSE key

Follow(key, fs) ==
    LET held[n \in 0 .. Len(fs)] == IF n = 0 THEN key ELSE Switch(held[n - 1], fs[n])
    IN  held[Len(fs)]

(* While nobody leaves, no member can miss or misread a rotation: the key  *)
(* a member holds, followed through the rotations on their way to it and   *)
(* then through those on their way to the server, is the owner's key       *)
(* (secure_chat_room.hpp:203-217 against 226-241 and server.py:121-127).   *)
KeyChain ==
    \A k \in Keys : Keyed(k) /\ Reached(k) =>
        LET o == OwnerOf(k)
        IN  Keyed(o) /\ Reached(o) =>
                Follow(cipher[k], down[conn[k]] \o up[conn[o]]) = cipher[o]

(* No message overtakes the rotation to the key it is sealed with: when a  *)
(* member comes to read it, its key is that key or a later one             *)
(* (server.py:101-132, one relay order for messages and rotations).        *)
KeyBeforeUse ==
    \A k \in Keys : Keyed(k) /\ Reached(k) =>
        \A i \in DOMAIN down[conn[k]] :
            LET f == down[conn[k]][i]
            IN  f.cmd = "ROOM.MESSAGE" =>
                    f.body.seal.n <= Follow(cipher[k], SubSeq(down[conn[k]], 1, i - 1)).n

(* Nothing is under way and the server noticed every close.                *)
Quiet == \A c \in Conns : link[c] # "closed" /\ up[c] = << >> /\ down[c] = << >>

(* Between rotations the owner's count is the number of messages that      *)
(* others posted under the current key (secure_chat_room.hpp:201-203;      *)
(* server.py:109-110 never sends the owner its own live).                  *)
CountsOthers ==
    Quiet => \A o \in Creators : Keyed(o) /\ data[o].name # NoRoom =>
        LET kept == roomsHistory[data[o].name]
        IN  data[o].messageCount =
                Cardinality({i \in DOMAIN kept :
                                /\ kept[i].cmd = "ROOM.MESSAGE"
                                /\ said[kept[i].body.content] # o
                                /\ kept[i].body.seal = cipher[o]})

(* An invitation gives the room key to at most one key pair, whoever else  *)
(* presents it and whenever ("secret access token is used once",           *)
(* README.md:13; secure_chat_room.hpp:170-171).                            *)
InviteOpensOnce ==
    \A k, l \in Keys : k # l /\ Keyed(k) /\ Keyed(l) /\ data[k].invite # NoInvite
        => data[k].invite # data[l].invite

(* What the file holds can be opened: unless it was restarted, the server  *)
(* has the room, with this owner, and admits this key, and the key kept is *)
(* a room key of the owner's and not a join key                            *)
(* (secure_chat_room.hpp:139-154, 184-186).                                *)
SavedIsMember ==
    restarts = 0 => \A k \in Keys : saved[k] # NoData =>
        LET s == saved[k]
        IN  /\ owner[s.name] = s.owner
            /\ k \in users[s.name]
            /\ s.roomKey.by = s.owner

(* A room leaves the file only if the server does not know its member any  *)
(* more (secure_chat_room.hpp:147-150).                                    *)
ForgetsOnlyLostRooms ==
    [][\A k \in Keys : saved[k] # NoData /\ saved'[k] = NoData
          => k \notin users[saved[k].name]]_vars

(* A member that waited for a rotation is not taken down by it: only who   *)
(* was admitted without ever getting the key crashes                       *)
(* (secure_chat_room.hpp:200, 234 with 109-128).                           *)
CrashOnlyUnkeyed ==
    [][\A k \in Keys : stage'[k] = "crashed" /\ stage[k] # "crashed"
          => saved[k] = NoData /\ \E r \in Rooms : k \in users[r]]_vars

(* All reached members hold the owner's key when nothing is under way      *)
(* ("all room members share the same symmetric key", README.md:12).        *)
SharedKey ==
    Quiet => \A k \in Keys : Keyed(k) /\ Reached(k) =>
        LET o == OwnerOf(k)
        IN  Keyed(o) /\ Reached(o) => cipher[k] = cipher[o]

(* An invitation presented to an owner who stays lets somebody who         *)
(* presents it into the room, unless they leave: it is not lost on the way *)
(* (secure_chat_room.hpp:119-126, 155-191; server.py:79-94).               *)
InviteAdmits ==
    \A i \in Invites :
        (\E k \in Keys : /\ stage[k] = "waiting"
                         /\ data[k].invite = i
                         /\ data[k].owner \in Creators)
        ~> \/ \E k \in Keys : stage[k] = "open" /\ data[k].invite = i
           \/ \E k \in Leavers : stage[k] = "absent" /\ draws[k] > 0

(* Opening a stored room comes to an end: the room is shown, or the server *)
(* does not know it and it is forgotten, unless the connection breaks or   *)
(* the user leaves (secure_chat_room.hpp:94-97, 147-154).                  *)
OpeningEnds ==
    \A k \in Keys :
        stage[k] = "waiting" /\ saved[k] # NoData
            ~> stage[k] # "waiting" \/ saved[k] = NoData \/ conn[k] = NoConn

(* Whoever is admitted to a room came with an invitation of its own        *)
(* ("secret access token is used once (deleted after key confirmation)",   *)
(* README.md:13; "Once invite token been used, it is discarded",           *)
(* README.md:136).                                                         *)
AdmittedOncePerInvite ==
    \A r \in Rooms : \A k, l \in users[r] :
        k # l /\ data[k] # NoData /\ data[l] # NoData /\ data[k].invite # NoInvite
            => data[k].invite # data[l].invite

(* Every member whose connection is up is relayed to ("websocket relay     *)
(* service, which receives messages and relays them to everyone",          *)
(* README.md:104).                                                         *)
OpenIsReached ==
    Quiet => \A k \in Keys : stage[k] = "open" /\ conn[k] # NoConn => Reached(k)

(* No more than KeyRotationLimit messages go under one key ("every 100     *)
(* (configurable) messages sent and received, room owner generates new     *)
(* key", README.md:156).                                                   *)
RotatesInTime ==
    Quiet => \A o \in Creators : Keyed(o) /\ Reached(o) /\ data[o].name # NoRoom =>
        Cardinality({i \in DOMAIN roomsHistory[data[o].name] :
                        roomsHistory[data[o].name][i].cmd = "ROOM.MESSAGE"})
            < KeyRotationLimit
=============================================================================
