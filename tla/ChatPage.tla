------------------------------ MODULE ChatPage ------------------------------
(***************************************************************************)
(* The script of templates/index.html with the module instance and its     *)
(* file store: a user at the page, who logs in, makes, joins and opens     *)
(* rooms, talks and logs out, any number of times, and may close the page  *)
(* at any moment.  Bad... is the definition below it with a slip.          *)
(***************************************************************************)
EXTENDS ChatInstance

CONSTANTS
    Credentials,    \* the names with the passwords people type
    MaxLogins,      \* bound: logins ever
    MaxQueue        \* bound: messages under way when the user goes on

ASSUME PageOK ==
    /\ Credentials \subseteq Users \X Passwords
    /\ {MaxLogins, MaxQueue, MaxTasks} \subseteq Nat

VARIABLES
    screen,     \* what the body's classes show: "auth", "loading", "rooms", "chat", or
                \* "unload", the login form over whatever was shown
    typed,      \* the login message of the form's fields
    listed,     \* the rooms in the page's list, which is never emptied
    logins      \* how often somebody logged in

pageVars == <<screen, typed, listed, logins>>
vars == <<files, threadVars, status, instanceVars, queueVars, observed, pageVars>>

NoLogin == [cmd |-> "none"]

PageInit ==
    /\ screen = "auth"
    /\ typed = NoLogin
    /\ listed = {}
    /\ logins = 0

Init == FileStoreInit /\ InstanceInit /\ PageInit

-----------------------------------------------------------------------------
(* The user.  People are slower than messages: whatever they do, at most   *)
(* MaxQueue messages are under way then between page and module.           *)
Submits(ms) ==
    /\ status = "up"
    /\ Len(inbox) + Len(outbox) <= MaxQueue
    /\ inbox' = inbox \o ms
    /\ UNCHANGED <<status, files, threadVars, instanceVars, outbox,
                   fate, promised, gone, holds>>

Sends(ms) == Submits(ms) /\ UNCHANGED hasty

LogsIn == logins < MaxLogins /\ logins' = logins + 1

Login(u, p) == [cmd |-> "login", user |-> u, password |-> p]

SubmitLogin(u, p) ==
    /\ screen \in {"auth", "unload"}
    /\ Sends(<<Login(u, p)>>)
    /\ typed' = Login(u, p)
    /\ LogsIn
    /\ screen' = "loading"
    /\ UNCHANGED listed

(* Mutant: the form still listens when the rooms are shown.                *)
BadSubmitAgain ==
    /\ screen # "auth"
    /\ Submits(<<typed>>)
    /\ LogsIn
    /\ hasty' = TRUE
    /\ UNCHANGED <<screen, typed, listed>>

(* While it loads the form is transparent, but has its fields and the      *)
(* focus: Enter submits it again.                                          *)
SubmitAgain ==
    /\ screen = "loading"
    /\ Submits(<<typed>>)
    /\ LogsIn
    /\ hasty' = TRUE
    /\ UNCHANGED <<screen, typed, listed>>

ClickRoom(r) ==
    /\ screen = "rooms"
    /\ r \in listed
    /\ Sends(<<[cmd |-> "room.open", room |-> r]>>)
    /\ UNCHANGED pageVars

CreateRoom ==
    /\ screen = "rooms"
    /\ Sends(<<[cmd |-> "room.create"]>>)
    /\ UNCHANGED pageVars

JoinRoom(r) ==
    /\ screen = "rooms"
    /\ Sends(<<[cmd |-> "room.open_by_invite", room |-> r]>>)
    /\ r \notin holds[userName]
    /\ UNCHANGED pageVars

Say == [cmd |-> "room.message.send"]

ChatInput ==
    /\ screen = "chat"
    /\ Sends(<<Say>>)
    /\ UNCHANGED pageVars

ChatInvite ==
    /\ screen = "chat"
    /\ Sends(<<[cmd |-> "room.invite.generate"]>>)
    /\ UNCHANGED pageVars

ShowRooms ==
    /\ screen = "chat"
    /\ status = "up"
    /\ screen' = "rooms"
    /\ UNCHANGED <<status, files, threadVars, instanceVars, queueVars, observed, typed, listed, logins>>

(* Mutant: the chat stays on the screen.                                   *)
BadLogout ==
    /\ screen \in {"rooms", "chat"}
    /\ Sends(<<Say, [cmd |-> "logout"]>>)
    /\ UNCHANGED pageVars

(* The page says 'Bye.' whether there is a room or not.                    *)
Logout ==
    /\ screen \in {"rooms", "chat"}
    /\ Sends(<<Say, [cmd |-> "logout"]>>)
    /\ screen' = "unload"
    /\ UNCHANGED <<typed, listed, logins>>

UserStep ==
    \/ \E c \in Credentials : SubmitLogin(c[1], c[2])
    \/ SubmitAgain
    \/ \E r \in Rooms : ClickRoom(r) \/ JoinRoom(r)
    \/ CreateRoom
    \/ ChatInput
    \/ ChatInvite
    \/ ShowRooms
    \/ Logout

-----------------------------------------------------------------------------
(* handleMessage.                                                          *)
Receives(cmd) ==
    /\ outbox # << >>
    /\ Head(outbox).cmd = cmd
    /\ outbox' = Tail(outbox)
    /\ UNCHANGED <<status, files, threadVars, instanceVars, observed>>

Shows(s) == screen' = IF screen = "unload" THEN "unload" ELSE s

(* The list is appended to and the form's fields emptied; the 300 ms until *)
(* the rooms are shown are left out.                                       *)
OnChatList ==
    /\ Receives("available_chat_list")
    /\ listed' = listed \cup Head(outbox).rooms
    /\ Shows("rooms")
    /\ typed' = NoLogin
    /\ UNCHANGED <<inbox, logins>>

(* The page says 'Hello.' into whatever room the module has by then.       *)
OnOpenRoom ==
    /\ Receives("open_room")
    /\ inbox' = Append(inbox, Say)
    /\ Shows("chat")
    /\ UNCHANGED <<typed, listed, logins>>

OnRemoveRoom ==
    /\ Receives("remove_room")
    /\ listed' = listed \ {Head(outbox).room}
    /\ UNCHANGED <<inbox, screen, typed, logins>>

PageStep == OnChatList \/ OnOpenRoom \/ OnRemoveRoom

-----------------------------------------------------------------------------
(* Closing the page takes the module with it; loading it again starts anew *)
(* with what the files hold.                                               *)
ClosePage ==
    /\ status = "up"
    /\ Down("closed")
    /\ UNCHANGED pageVars

Reload ==
    /\ status # "up"
    /\ ~hasty
    /\ status' = "up"
    /\ screen' = "auth"
    /\ typed' = NoLogin
    /\ listed' = {}
    /\ UNCHANGED <<files, threadVars, instanceVars, queueVars, observed, logins>>

Next ==
    \/ UserStep
    \/ PageStep
    \/ (MainStep \/ Answered \/ \E s \in Stores : FileStep(s)) /\ UNCHANGED pageVars
    \/ ClosePage
    \/ Reload

Spec == Init /\ [][Next]_vars

(* The browser delivers messages, and both threads run.                    *)
FairSpec ==
    /\ Spec
    /\ WF_vars(MainStep /\ UNCHANGED pageVars)
    /\ WF_vars(PageStep)
    /\ \A s \in Stores : WF_vars(FileStep(s) /\ UNCHANGED pageVars)

-----------------------------------------------------------------------------
Messages == [cmd : {"login"}, user : Users, password : Passwords]
            \cup [cmd : {"room.open", "room.open_by_invite", "remove_room"}, room : Rooms]
            \cup [cmd : {"available_chat_list"}, rooms : SUBSET Rooms]
            \cup [cmd : {"logout", "room.create", "room.invite.generate",
                         "room.message.send", "open_room"}]

Contents == UNION {[R -> {"keys", "blank"}] : R \in SUBSET Rooms}

Sealed == [password : Passwords, content : Contents]

ASSUME NullsOK ==
    /\ {NoFile, Torn} \cap Sealed = {}
    /\ NoUser \notin Users

TypeOK ==
    /\ files \in [Users -> {NoFile, Torn} \cup Sealed]
    /\ \A s \in Stores : \A i \in DOMAIN tasks[s] :
           /\ tasks[s][i].op \in {"open", "load", "save"}
           /\ tasks[s][i].user \in Users
           /\ tasks[s][i].content \in Contents \cup {NoContent}
    /\ at \in [Stores -> {"idle", "opened", "posting", "loaded", "truncated"}]
    /\ {store, made} \subseteq Stores \cup {NoStore}
    /\ userData \in Contents
    /\ \A q \in {inbox, outbox} : \A i \in DOMAIN q : q[i] \in Messages
    /\ screen \in {"auth", "loading", "rooms", "chat", "unload"}
    /\ typed \in Messages \cup {NoLogin}
    /\ listed \subseteq Rooms

(* A room whose keys were once stored for a user stays in that user's      *)
(* file, or in what is just being written to it, through any number of     *)
(* logins, rooms and reloads, as long as the server knows the room, no     *)
(* save was broken off, no load has failed since and nobody logged in over *)
(* unfinished work: the keys exist nowhere else (save_room, save_, load_). *)
Kept(u) == IF files[u] \in {NoFile, Torn} THEN {} ELSE KeyedIn(files[u].content)

BeingWritten(u) ==
    UNION {KeyedIn(Head(tasks[s]).content) :
               s \in {t \in Stores : at[t] = "truncated" /\ Head(tasks[t]).user = u}}

Durable == ~hasty => \A u \in Users : promised[u] \subseteq Kept(u) \cup BeingWritten(u)

(* No file holds keys of a room its user never got: user_data_ outlives    *)
(* logins, so each login has to replace it before anything is saved.       *)
NoForeignRooms == ~hasty => \A u \in Users : Kept(u) \subseteq holds[u]

(* What may take the module down is known: store_ read before it was ever  *)
(* assigned only at the first login, a race for user_data_ only if         *)
(* somebody logged in hastily, and an invitation from no room never, since *)
(* the page asks for one only when it shows a room (on_open,               *)
(* invite_generate).                                                       *)
CrashesExplained ==
    /\ status = "no store" => listed = {}
    /\ status = "race" => hasty
    /\ status # "no room"

(* Whoever logs in gets to see a list of rooms, an empty one if the files  *)
(* cannot be opened or read, unless the module goes down or the load goes  *)
(* to the store of the login before, which may no longer take it.          *)
LoginShows ==
    screen = "loading" ~>
        screen # "loading" \/ status # "up" \/ \E s \in Stores : fate[s] = "stray"
=============================================================================
