---------------------------- MODULE ChatInstance ----------------------------
(***************************************************************************)
(* secure_chat.cc: the module instance between the page, the room object   *)
(* and the file store.  Commands of the page and answers of the server are *)
(* handled on the main thread, one at a time; the callbacks of the store   *)
(* run on its file thread and work on the same user_data_ and store_,      *)
(* without a lock.                                                         *)
(*                                                                         *)
(* Of the room object only what the instance depends on is kept: whether   *)
(* it has its encrypter, and which save and which news to the page an      *)
(* answer of the server leads to.  Any answer may come at any time or      *)
(* never; SecureChat says when they do.  As in RelayServer, Bad... is the  *)
(* definition below it with a slip.                                        *)
(***************************************************************************)
EXTENDS FileStore

CONSTANTS
    Rooms, NoRoom, NoUser,
    MaxTasks     \* bound: saves a file thread lags behind

VARIABLES
    status,      \* "up", or why the module is down
    made,        \* the store constructed and not yet assigned to store_, or NoStore
    store,       \* store_
    userName,    \* user_name_
    userData,    \* user_data_["rooms"]: "keys", or "blank" for a null entry
    room,        \* room_: its stage ("none" for the null pointer) and the room's id
    inbox,       \* messages of the page on their way to HandleMessage
    outbox,      \* messages on their way to the page
    fate,        \* what became of the login each store was made for
    promised,    \* rooms each user was once stored, and neither forgot nor was robbed of
    gone,        \* rooms the server, restarted, answered not to know
    holds,       \* rooms each user got keys for
    hasty        \* whether a login was sent twice, or came while a file
                 \* thread had work left

instanceVars == <<made, store, userName, userData, room>>
queueVars == <<inbox, outbox>>
observed == <<fate, promised, gone, holds, hasty>>

NoRooms == << >>

KeyedIn(content) == {r \in DOMAIN content : content[r] = "keys"}

RoomObject(stage, r) == [stage |-> stage, id |-> r]

NoRoomObject == RoomObject("none", NoRoom)

InstanceInit ==
    /\ status = "up"
    /\ made = NoStore
    /\ store = NoStore
    /\ userName = NoUser
    /\ userData = NoRooms
    /\ room = NoRoomObject
    /\ inbox = << >>
    /\ outbox = << >>
    /\ fate = [s \in Stores |-> "none"]
    /\ promised = [u \in Users |-> {}]
    /\ gone = {}
    /\ holds = [u \in Users |-> {}]
    /\ hasty = FALSE

(* The module is gone, with all its threads; files stay as they are, one   *)
(* that was being written torn.                                            *)
Down(cause) ==
    /\ status' = cause
    /\ ThreadsDown
    /\ made' = NoStore
    /\ store' = NoStore
    /\ userName' = NoUser
    /\ userData' = NoRooms
    /\ room' = NoRoomObject
    /\ inbox' = << >>
    /\ outbox' = << >>
    /\ promised' = [u \in Users |-> IF files[u] = Torn THEN {} ELSE promised[u]]
    /\ fate' = [s \in Stores |-> "none"]
    /\ UNCHANGED <<gone, holds, hasty>>

Post(m) == outbox' = Append(outbox, m)

ChatList(content) == [cmd |-> "available_chat_list", rooms |-> DOMAIN content]

-----------------------------------------------------------------------------
(* HandleMessage.  The main thread is busy from the construction of a      *)
(* store until the one before it is destroyed.                             *)
MainIdle ==
    /\ status = "up"
    /\ made = NoStore
    /\ \A s \in Stores : loop[s] # "quitting"

Command(cmd) ==
    /\ MainIdle
    /\ inbox # << >>
    /\ Head(inbox).cmd = cmd

TakeCommand == inbox' = Tail(inbox)

Free == CHOOSE s \in Stores : loop[s] = "none"

HandleLogin ==
    LET m == Head(inbox)
    IN  /\ Command("login")
        /\ TakeCommand
        /\ userName' = m.user
        /\ StartStore(Free, m.user, m.password)
        /\ made' = Free
        /\ fate' = [fate EXCEPT ![Free] = "pending"]
        /\ hasty' = (hasty \/ \E s \in Stores : tasks[s] # << >>)
        /\ UNCHANGED <<status, store, userData, room, outbox, promised, gone, holds>>

(* store_ = ...: the new object is swapped in, the old one destroyed.      *)
AssignStore ==
    /\ status = "up"
    /\ made # NoStore
    /\ store' = made
    /\ made' = NoStore
    /\ IF store # NoStore THEN QuitStore(store) ELSE UNCHANGED loop
    /\ UNCHANGED <<status, files, password, ready, tasks, at, target, loaded,
                   userName, userData, room, queueVars, observed>>

OldStoreGone ==
    /\ status = "up"
    /\ \E s \in Stores : JoinStore(s)
    /\ UNCHANGED <<status, instanceVars, queueVars, observed>>

(* logout, room.create and room.open_by_invite replace room_.              *)
ReplaceRoom(cmd, object) ==
    /\ Command(cmd)
    /\ TakeCommand
    /\ room' = object
    /\ UNCHANGED <<status, files, threadVars, made, store, userName, outbox, observed>>

HandleLogout ==
    /\ ReplaceRoom("logout", NoRoomObject)
    /\ UNCHANGED userData

HandleCreate ==
    /\ ReplaceRoom("room.create", RoomObject("creating", NoRoom))
    /\ UNCHANGED userData

(* The room object of an invitation has no room_encrypter_ yet.            *)
HandleOpenByInvite ==
    /\ ReplaceRoom("room.open_by_invite", RoomObject("joining", Head(inbox).room))
    /\ UNCHANGED userData

(* operator[]: what is under an id, be it there or not, is replaced.       *)
Entered(content, r, what) ==
    [x \in DOMAIN content \cup {r} |-> IF x = r THEN what ELSE content[x]]

(* load_room: operator[] enters a null for an id it does not find.         *)
LoadRoom(r) == IF r \in DOMAIN userData THEN userData ELSE Entered(userData, r, "blank")

(* A room made from null never gets beyond Themis' refusal of its keys.    *)
HandleOpen ==
    LET r == Head(inbox).room
    IN  /\ ReplaceRoom("room.open", RoomObject(IF r \in KeyedIn(userData) THEN "opening" ELSE "dead", r))
        /\ userData' = LoadRoom(r)

(* room_message_send and invite_generate leave the rest to the room; the   *)
(* first checks that there is one, the second goes on regardless.          *)
HandleSay ==
    /\ Command("room.message.send")
    /\ IF room.stage = "joining"
       THEN Down("no key")
       ELSE /\ TakeCommand
            /\ UNCHANGED <<status, files, threadVars, instanceVars, outbox, observed>>

HandleGenerateInvite ==
    /\ Command("room.invite.generate")
    /\ IF room.stage = "none"
       THEN Down("no room")
       ELSE /\ TakeCommand
            /\ UNCHANGED <<status, files, threadVars, instanceVars, outbox, observed>>

MainStep ==
    \/ HandleLogin
    \/ AssignStore
    \/ OldStoreGone
    \/ HandleLogout
    \/ HandleCreate
    \/ HandleOpenByInvite
    \/ HandleOpen
    \/ HandleSay
    \/ HandleGenerateInvite

-----------------------------------------------------------------------------
(* The server's answers, as far as they reach user_data_: save_room.       *)
SaveAll(content) ==
    /\ userData' = content
    /\ Len(tasks[store]) < MaxTasks
    /\ PostTask(store, Task("save", userName, content, store))
    /\ UNCHANGED <<status, files, loop, password, ready, at, target, loaded,
                   made, store, userName, inbox, fate, hasty>>

KeepRoom(r) ==
    /\ SaveAll(Entered(userData, r, "keys"))
    /\ Post([cmd |-> "open_room"])
    /\ room' = RoomObject("open", r)
    /\ holds' = [holds EXCEPT ![userName] = @ \cup {r}]
    /\ UNCHANGED <<promised, gone>>

(* Ids are random: any one that nobody has got.                            *)
Fresh == Rooms \ UNION {holds[u] : u \in Users}

OnRoomCreated ==
    /\ MainIdle
    /\ room.stage = "creating"
    /\ Fresh # {}
    /\ KeepRoom(CHOOSE r \in Fresh : TRUE)

OnRoomOpened ==
    /\ MainIdle
    /\ room.stage = "opening"
    /\ room.id \notin gone
    /\ KeepRoom(room.id)

OnAdmitted ==
    /\ MainIdle
    /\ room.stage = "joining"
    /\ room.id \notin gone
    /\ KeepRoom(room.id)

OnRoomNotExist ==
    LET r == room.id
    IN  /\ MainIdle
        /\ room.stage = "opening"
        /\ SaveAll([x \in DOMAIN userData \ {r} |-> userData[x]])
        /\ Post([cmd |-> "remove_room", room |-> r])
        /\ room' = RoomObject("dead", r)
        /\ gone' = gone \cup {r}
        /\ promised' = [promised EXCEPT ![userName] = @ \ {r}]
        /\ UNCHANGED holds

(* A frame relayed to a joiner that was admitted and not keyed.            *)
OnEarlyFrame ==
    /\ MainIdle
    /\ room.stage = "joining"
    /\ Down("no key")

Answered ==
    \/ OnRoomCreated
    \/ OnRoomOpened
    \/ OnAdmitted
    \/ OnRoomNotExist
    \/ OnEarlyFrame

-----------------------------------------------------------------------------
(* The file thread of store s, with the callbacks that run on it.          *)
Reports(s, content) ==
    /\ Post(ChatList(content))
    /\ fate' = [fate EXCEPT ![Head(tasks[s]).login] = "listed"]

(* Mutant: the page is not told that the file system cannot be opened.     *)
BadOnOpenError(s) ==
    /\ OpenFails(s)
    /\ fate' = [fate EXCEPT ![s] = "listed"]
    /\ UNCHANGED <<status, instanceVars, queueVars, promised, gone, holds, hasty>>

OnOpenError(s) ==
    /\ OpenFails(s)
    /\ Reports(s, NoRooms)
    /\ UNCHANGED <<status, instanceVars, inbox, promised, gone, holds, hasty>>

(* store_ is read without regard to the main thread: it may lead nowhere   *)
(* yet, or to the store of the login before.                               *)
OnOpen(s) ==
    IF store = NoStore
    THEN Works(s, "open", "opened") /\ Down("no store")
    ELSE /\ ReadsTarget(s, store)
         /\ UNCHANGED <<status, instanceVars, queueVars, observed>>

(* A store destroyed meanwhile takes no load, or takes the module down.    *)
OnOpenLoads(s) ==
    \/ /\ PostsLoad(s)
       /\ fate' = IF target[s] = s THEN fate ELSE [fate EXCEPT ![s] = "stray"]
       /\ UNCHANGED <<status, instanceVars, queueVars, promised, gone, holds, hasty>>
    \/ /\ Works(s, "open", "posting")
       /\ loop[target[s]] = "none"
       /\ Down("freed")

(* Mutant: what was loaded is shown and not kept.                          *)
BadOnLoad(s) ==
    /\ EndLoad(s)
    /\ loaded[s] # NoContent
    /\ Reports(s, loaded[s])
    /\ UNCHANGED <<status, instanceVars, inbox, promised, gone, holds, hasty>>

OnLoad(s) ==
    /\ EndLoad(s)
    /\ loaded[s] # NoContent
    /\ userData' = loaded[s]
    /\ Reports(s, loaded[s])
    /\ UNCHANGED <<status, made, store, userName, room, inbox,
                   promised, gone, holds, hasty>>

(* Mutant: user_data_ stays that of the login before.                      *)
BadOnLoadError(s) ==
    /\ EndLoad(s)
    /\ loaded[s] = NoContent
    /\ Reports(s, NoRooms)
    /\ promised' = [promised EXCEPT ![Head(tasks[s]).user] = {}]
    /\ UNCHANGED <<status, instanceVars, inbox, gone, holds, hasty>>

(* Whatever the reason, the user starts from nothing; a later save will    *)
(* replace the file.                                                       *)
OnLoadError(s) ==
    /\ EndLoad(s)
    /\ loaded[s] = NoContent
    /\ userData' = NoRooms
    /\ Reports(s, NoRooms)
    /\ promised' = [promised EXCEPT ![Head(tasks[s]).user] = {}]
    /\ UNCHANGED <<status, made, store, userName, room, inbox, gone, holds, hasty>>

(* Two threads in user_data_ at once.                                      *)
TouchesData ==
    /\ MainIdle
    /\ \/ room.stage \in {"creating", "opening", "joining"}
       \/ Command("room.open")

RaceCrash(s) ==
    /\ Works(s, "load", "loaded")
    /\ \/ TouchesData
       \/ \E t \in Stores \ {s} : Works(t, "load", "loaded")
    /\ Down("race")

OnSaved(s) ==
    LET task == Head(tasks[s])
    IN  /\ WriteFile(s)
        /\ promised' = [promised EXCEPT ![task.user] =
                            @ \cup (KeyedIn(task.content) \ gone)]
        /\ UNCHANGED <<status, instanceVars, queueVars, fate, gone, holds, hasty>>

OnSaveError(s) ==
    \/ /\ SaveNotOpened(s)
       /\ UNCHANGED <<status, instanceVars, queueVars, observed>>
    \/ /\ LeaveTorn(s)
       /\ promised' = [promised EXCEPT ![Head(tasks[s]).user] = {}]
       /\ UNCHANGED <<status, instanceVars, queueVars, fate, gone, holds, hasty>>

FileStep(s) ==
    \/ /\ OpenFileSystem(s) \/ LoadFile(s) \/ TruncateFile(s)
       /\ UNCHANGED <<status, instanceVars, queueVars, observed>>
    \/ OnOpenError(s)
    \/ OnOpen(s)
    \/ OnOpenLoads(s)
    \/ OnLoad(s)
    \/ OnLoadError(s)
    \/ RaceCrash(s)
    \/ OnSaved(s)
    \/ OnSaveError(s)
=============================================================================
