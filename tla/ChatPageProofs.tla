---------------------------- MODULE ChatPageProofs ----------------------------
(***************************************************************************)
(* Theorems about ChatPage: its state keeps its types, stored rooms stay,  *)
(* files hold nobody else's rooms, and what takes the module down.         *)
(*                                                                         *)
(* IInv holds however fast the user is: where a thread may be in its task  *)
(* (ThreadOK), which stores have a running thread (StoresInUse), that      *)
(* there is nothing at all before a login (NobodyIn), and that no list of  *)
(* rooms is under way before store_ is assigned (ReadOK).                  *)
(*                                                                         *)
(* Calm adds what holds while nobody logs in over unfinished work.  From   *)
(* the login form to the rooms the module does one thing at a time; its    *)
(* phases are Fresh0, Submitted, Opening, Listing (or Lost, when a load    *)
(* goes to a store on its way out) and InRooms, and only in the last can   *)
(* an answer of the server touch user_data_.  From then on saves stand in  *)
(* a row: what is promised is in each of them, and what one keeps all      *)
(* later ones and user_data_ keep too, but for rooms the server forgot     *)
(* (SavesOK, DataOK).  So nothing is lost when one replaces the file.      *)
(***************************************************************************)
EXTENDS ChatPage, SequenceTheorems, TLAPS

(* Messages by who sends them.                                             *)
Logins == [cmd : {"login"}, user : Users, password : Passwords]

FromPage ==
    Logins
    \cup [cmd : {"room.open", "room.open_by_invite"}, room : Rooms]
    \cup [cmd : {"logout", "room.create", "room.invite.generate", "room.message.send"}]

ToPage ==
    [cmd : {"remove_room"}, room : Rooms]
    \cup [cmd : {"available_chat_list"}, rooms : SUBSET Rooms]
    \cup [cmd : {"open_room"}]

TaskSet ==
    {t \in [op : {"open", "load", "save"}, user : Users,
            content : Contents \cup {NoContent}, login : Stores] :
        t.op = "save" => t.content \in Contents}

RoomStages == {"none", "dead", "creating", "opening", "joining", "open"}

StateTypes ==
    /\ files \in [Users -> {NoFile, Torn} \cup Sealed]
    /\ loop \in [Stores -> {"none", "running", "quitting"}]
    /\ password \in [Stores -> Passwords]
    /\ ready \in [Stores -> BOOLEAN]
    /\ tasks \in [Stores -> Seq(TaskSet)]
    /\ at \in [Stores -> {"idle", "opened", "posting", "loaded", "truncated"}]
    /\ target \in [Stores -> Stores \cup {NoStore}]
    /\ loaded \in [Stores -> Contents \cup {NoContent}]
    /\ store \in Stores \cup {NoStore}
    /\ made \in Stores \cup {NoStore}
    /\ userName \in Users \cup {NoUser}
    /\ userData \in Contents
    /\ room \in [stage : RoomStages, id : Rooms \cup {NoRoom}]
    /\ room.stage \in {"opening", "joining"} => room.id \in Rooms
    /\ inbox \in Seq(FromPage)
    /\ outbox \in Seq(ToPage)
    /\ promised \in [Users -> SUBSET Rooms]
    /\ gone \in SUBSET Rooms
    /\ holds \in [Users -> SUBSET Rooms]
    /\ hasty \in BOOLEAN
    /\ screen \in {"auth", "loading", "rooms", "chat", "unload"}
    /\ typed \in Logins \cup {NoLogin}
    /\ screen = "loading" => typed \in Logins
    /\ listed \in SUBSET Rooms

(* A thread is in the midst of a task of its own store, and stores come    *)
(* and go with the logins.                                                 *)
ThreadOK(s) ==
    /\ loop[s] = "none" => tasks[s] = << >> /\ ~ready[s]
    /\ loop[s] = "running" => s = made \/ s = store
    /\ at[s] # "idle" => tasks[s] # << >>
    /\ at[s] \in {"opened", "posting"} => Head(tasks[s]).op = "open"
    /\ at[s] = "posting" => target[s] \in Stores
    /\ at[s] = "loaded" => Head(tasks[s]).op = "load"
    /\ at[s] = "truncated" => Head(tasks[s]).op = "save" /\ ready[s]

StoresInUse ==
    /\ made # NoStore => loop[made] = "running" /\ made # store
    /\ store # NoStore => loop[store] = "running"

(* Before the first login, and while the module is down, there is nothing. *)
NobodyIn ==
    /\ store = NoStore /\ made = NoStore
    /\ \A s \in Stores : loop[s] = "none"
    /\ room.stage = "none"
    /\ outbox = << >>
    /\ \A i \in DOMAIN inbox : inbox[i].cmd = "login"
    /\ IF status = "up" THEN screen \in {"auth", "loading"} ELSE inbox = << >>

SomebodyIn ==
    /\ status = "up"
    /\ made # NoStore \/ store # NoStore

Structure ==
    /\ \A s \in Stores : ThreadOK(s)
    /\ StoresInUse
    /\ IF userName = NoUser THEN NobodyIn ELSE SomebodyIn

(* Before store_ is assigned nothing can have been loaded.                 *)
NothingRead ==
    /\ listed = {}
    /\ \A i \in DOMAIN outbox : outbox[i].cmd = "available_chat_list" => outbox[i].rooms = {}
    /\ \A s \in Stores : at[s] # "posting" /\ \A i \in DOMAIN tasks[s] : tasks[s][i].op # "load"

ReadOK ==
    /\ status = "up" /\ store = NoStore => NothingRead
    /\ status = "no store" => listed = {}

IInv == StateTypes /\ Structure /\ ReadOK

(* People are slower than messages: at most one message of the page tells  *)
(* what its user did.                                                      *)
PageOneAtATime ==
    \A i, j \in DOMAIN inbox : inbox[i] # Say /\ inbox[j] # Say => i = j

InInbox(cmd) == \E i \in DOMAIN inbox : inbox[i].cmd = cmd

RoomShown ==
    /\ status # "no room"
    /\ status = "up" =>
          /\ InInbox("logout") => screen = "unload"
          /\ InInbox("room.invite.generate") => room.stage # "none"
          /\ screen = "chat" => room.stage # "none"
          /\ screen = "unload" =>
                /\ room.stage = "none" \/ InInbox("logout")
                /\ \A i \in DOMAIN inbox : inbox[i] = Say \/ inbox[i].cmd = "logout"
          /\ room.stage = "none" /\ screen # "unload" =>
                \A i \in DOMAIN outbox : outbox[i].cmd # "open_room"

(* The store that the last login made.                                     *)
Current == IF made # NoStore THEN made ELSE store

SaveOK(s, i) ==
    LET kept == KeyedIn(tasks[s][i].content)
    IN  /\ s = Current
        /\ tasks[s][i].user = userName
        /\ ready[s] => /\ kept \subseteq holds[userName]
                       /\ promised[userName] \subseteq kept
                       /\ kept \ gone \subseteq KeyedIn(userData)
                       /\ \A j \in DOMAIN tasks[s] : i < j =>
                              kept \ gone \subseteq KeyedIn(tasks[s][j].content)

SavesOK == \A s \in Stores : \A i \in DOMAIN tasks[s] : tasks[s][i].op = "save" => SaveOK(s, i)

DataOK ==
    ready[Current] => /\ KeyedIn(userData) \subseteq holds[userName]
                      /\ promised[userName] \subseteq KeyedIn(userData)

FilesOK ==
    /\ \A u \in Users : promised[u] \subseteq Kept(u) \cup BeingWritten(u)
    /\ \A u \in Users : Kept(u) \subseteq holds[u]
    /\ \A s \in Stores : at[s] = "truncated" => files[Head(tasks[s]).user] = Torn

NoWork == \A s \in Stores : tasks[s] = << >>

OnlySaves == \A s \in Stores : \A i \in DOMAIN tasks[s] : tasks[s][i].op = "save"

QueuesEmpty == inbox = << >> /\ outbox = << >>

Alone == room.stage = "none"

Fresh0 == screen = "auth" /\ QueuesEmpty /\ NoWork /\ Alone

Submitted ==
    /\ screen = "loading" /\ Alone
    /\ inbox = <<typed>> /\ outbox = << >>
    /\ OnlySaves

OpeningTask(s) ==
    LET t == tasks[s][1]
    IN  /\ Len(tasks[s]) = 1
        /\ \A x \in Stores \ {s} : tasks[x] = << >>
        /\ t.user = userName
        /\ t.op \in {"open", "load"}
        /\ t.op = "open" => s = Current /\ (at[s] = "idle" => ~ready[s])
        /\ at[s] = "loaded" /\ loaded[s] # NoContent =>
              files[userName] \notin {NoFile, Torn} /\ files[userName].content = loaded[s]

Opening == screen = "loading" /\ Alone /\ QueuesEmpty /\ \E s \in Stores : OpeningTask(s)

Listing ==
    /\ screen = "loading" /\ Alone
    /\ inbox = << >>
    /\ Len(outbox) = 1 /\ outbox[1].cmd = "available_chat_list"
    /\ NoWork
    /\ DataOK

Lost == screen = "loading" /\ Alone /\ QueuesEmpty /\ NoWork

InRooms ==
    /\ screen \in {"rooms", "chat", "unload"}
    /\ userName # NoUser
    /\ ~InInbox("login")
    /\ \A i \in DOMAIN outbox : outbox[i].cmd # "available_chat_list"
    /\ OnlySaves
    /\ DataOK

PhaseOK == Fresh0 \/ Submitted \/ Opening \/ Listing \/ Lost \/ InRooms

Calm ==
    /\ FilesOK
    /\ SavesOK
    /\ status = "up" => PhaseOK
    /\ status # "race"

PInv == IInv /\ PageOneAtATime /\ RoomShown /\ (~hasty => Calm)

-----------------------------------------------------------------------------
(* What a user's data holds.                                               *)

LEMMA ContentRooms ==
    ASSUME NEW f \in Contents
    PROVE  DOMAIN f \in SUBSET Rooms /\ KeyedIn(f) \in SUBSET Rooms
  BY DEF Contents, KeyedIn

LEMMA EmptyContent == NoRooms \in Contents /\ DOMAIN NoRooms = {} /\ KeyedIn(NoRooms) = {}
<1>1. DOMAIN NoRooms = {} /\ NoRooms = [x \in {} |-> "keys"]
  BY DEF NoRooms
<1>2. [x \in {} |-> "keys"] \in [{} -> {"keys", "blank"}]
  OBVIOUS
<1> QED
  BY <1>1, <1>2 DEF Contents, KeyedIn

LEMMA EnteredContent ==
    ASSUME NEW f \in Contents, NEW r \in Rooms, NEW what \in {"keys", "blank"}
    PROVE  /\ Entered(f, r, what) \in Contents
           /\ what = "keys" => KeyedIn(Entered(f, r, what)) = KeyedIn(f) \cup {r}
           /\ what = "blank" /\ r \notin DOMAIN f => KeyedIn(Entered(f, r, what)) = KeyedIn(f)
<1>1. PICK R \in SUBSET Rooms : f \in [R -> {"keys", "blank"}]
  BY DEF Contents
<1>2. /\ Entered(f, r, what) \in [R \cup {r} -> {"keys", "blank"}]
      /\ DOMAIN Entered(f, r, what) = R \cup {r}
      /\ \A x \in R \cup {r} : Entered(f, r, what)[x] = IF x = r THEN what ELSE f[x]
  BY <1>1 DEF Entered
<1>3. R \cup {r} \in SUBSET Rooms
  OBVIOUS
<1>4. Entered(f, r, what) \in Contents
  BY <1>2, <1>3 DEF Contents
<1>5. ASSUME what = "keys"
      PROVE  KeyedIn(Entered(f, r, what)) = KeyedIn(f) \cup {r}
  BY <1>1, <1>2, <1>5 DEF KeyedIn
<1>6. ASSUME what = "blank", r \notin DOMAIN f
      PROVE  KeyedIn(Entered(f, r, what)) = KeyedIn(f)
  BY <1>1, <1>2, <1>6 DEF KeyedIn
<1> QED
  BY <1>4, <1>5, <1>6

LEMMA LoadRoomContent ==
    ASSUME userData \in Contents, NEW r \in Rooms
    PROVE  LoadRoom(r) \in Contents /\ KeyedIn(LoadRoom(r)) = KeyedIn(userData)
  BY EnteredContent DEF LoadRoom

Without(content, r) == [x \in DOMAIN content \ {r} |-> content[x]]

LEMMA WithoutContent ==
    ASSUME NEW f \in Contents, NEW r
    PROVE  Without(f, r) \in Contents /\ KeyedIn(Without(f, r)) = KeyedIn(f) \ {r}
<1>1. PICK R \in SUBSET Rooms : f \in [R -> {"keys", "blank"}]
  BY DEF Contents
<1>2. /\ Without(f, r) \in [R \ {r} -> {"keys", "blank"}]
      /\ DOMAIN Without(f, r) = R \ {r}
      /\ \A x \in R \ {r} : Without(f, r)[x] = f[x]
  BY <1>1 DEF Without
<1>3. R \ {r} \in SUBSET Rooms
  OBVIOUS
<1> QED
  BY <1>1, <1>2, <1>3 DEF Contents, KeyedIn

-----------------------------------------------------------------------------
(* Sequences.                                                              *)

LEMMA HeadAndTail ==
    ASSUME NEW S, NEW s \in Seq(S), s # << >>
    PROVE  /\ Head(s) \in S
           /\ Head(s) = s[1]
           /\ 1 \in DOMAIN s
           /\ Tail(s) \in Seq(S)
           /\ \A i \in DOMAIN Tail(s) : i \in Nat /\ i + 1 \in DOMAIN s /\ Tail(s)[i] = s[i + 1]
<1>1. Len(s) \in Nat /\ DOMAIN s = 1 .. Len(s) /\ Len(s) # 0
  BY LenProperties, EmptySeq
<1>2. /\ Head(s) \in S /\ Tail(s) \in Seq(S) /\ Len(Tail(s)) = Len(s) - 1
      /\ \A i \in 1 .. Len(Tail(s)) : Tail(s)[i] = s[i + 1]
  BY HeadTailProperties
<1>3. DOMAIN Tail(s) = 1 .. Len(Tail(s))
  BY <1>2, LenProperties
<1>4. Head(s) = s[1]
  OBVIOUS
<1> QED
  BY <1>1, <1>2, <1>3, <1>4

LEMMA OneMore ==
    ASSUME NEW S, NEW s \in Seq(S), NEW e \in S
    PROVE  /\ Append(s, e) \in Seq(S)
           /\ Append(s, e) # << >>
           /\ s # << >> => Head(Append(s, e)) = Head(s)
           /\ Len(s) \in Nat
           /\ DOMAIN s = 1 .. Len(s)
           /\ DOMAIN Append(s, e) = 1 .. Len(s) + 1
           /\ \A i \in DOMAIN s : Append(s, e)[i] = s[i]
           /\ Append(s, e)[Len(s) + 1] = e
<1>1. /\ Append(s, e) \in Seq(S) /\ Len(Append(s, e)) = Len(s) + 1
      /\ \A i \in 1 .. Len(s) : Append(s, e)[i] = s[i]
      /\ Append(s, e)[Len(s) + 1] = e
  BY AppendProperties
<1>2. Len(s) \in Nat /\ DOMAIN s = 1 .. Len(s)
  BY LenProperties
<1>3. DOMAIN Append(s, e) = 1 .. Len(s) + 1
  BY <1>1, LenProperties
<1>4. Append(s, e) # << >>
  BY <1>1, <1>2, EmptySeq
<1>5. s # << >> => Head(Append(s, e)) = Head(s)
  BY HeadTailAppend
<1> QED
  BY <1>1, <1>2, <1>3, <1>4, <1>5

LEMMA ElementsOf ==
    ASSUME NEW S, NEW s \in Seq(S)
    PROVE  \A i \in DOMAIN s : s[i] \in S
  BY LenProperties, ElementOfSeq

LEMMA OneElement ==
    ASSUME NEW S, NEW e \in S
    PROVE  /\ <<e>> \in Seq(S)
           /\ <<e>> # << >>
           /\ DOMAIN <<e>> = {1}
           /\ <<e>>[1] = e
           /\ Len(<<e>>) = 1
  OBVIOUS

LEMMA TwoElements ==
    ASSUME NEW S, NEW d \in S, NEW e \in S
    PROVE  /\ <<d, e>> \in Seq(S)
           /\ DOMAIN <<d, e>> = {1, 2}
           /\ <<d, e>>[1] = d
           /\ <<d, e>>[2] = e
  OBVIOUS

LEMMA NoPositions == DOMAIN << >> = {}
  OBVIOUS

(* Who acts while nothing is under way starts the queue.                   *)
LEMMA NoneYet ==
    ASSUME NEW S, NEW T, NEW s \in Seq(S), NEW t \in Seq(T), Len(s) + Len(t) <= 0
    PROVE  s = << >> /\ t = << >>
<1>1. Len(s) \in Nat /\ Len(t) \in Nat
  BY LenProperties
<1>2. Len(s) = 0 /\ Len(t) = 0
  BY <1>1
<1> QED
  BY <1>2, EmptySeq

-----------------------------------------------------------------------------
(* Types.                                                                  *)

LEMMA FromPageParts ==
    /\ Say \in FromPage
    /\ \A m \in Logins : m \in FromPage /\ m.cmd = "login"
    /\ \A m \in FromPage :
          /\ m.cmd = "login" => m \in Logins /\ m.user \in Users /\ m.password \in Passwords
          /\ m.cmd \in {"room.open", "room.open_by_invite"} => m.room \in Rooms
          /\ m.cmd = "room.message.send" => m = Say
          /\ m.cmd # "open_room"
  BY DEF FromPage, Logins, Say

LEMMA ToPageParts ==
    /\ [cmd |-> "open_room"] \in ToPage
    /\ \A r \in Rooms : [cmd |-> "remove_room", room |-> r] \in ToPage
    /\ \A f \in Contents :
          /\ ChatList(f) \in ToPage
          /\ ChatList(f).cmd = "available_chat_list"
          /\ ChatList(f).rooms = DOMAIN f
    /\ \A m \in ToPage :
          /\ m.cmd = "available_chat_list" => m.rooms \in SUBSET Rooms
          /\ m.cmd = "remove_room" => m.room \in Rooms
<1>1. \A f \in Contents : DOMAIN f \in SUBSET Rooms
  BY ContentRooms
<1> QED
  BY <1>1 DEF ToPage, ChatList

LEMMA TaskParts ==
    /\ \A u \in Users, s \in Stores :
          Task("open", u, NoContent, s) \in TaskSet /\ Task("load", u, NoContent, s) \in TaskSet
    /\ \A u \in Users, s \in Stores, f \in Contents : Task("save", u, f, s) \in TaskSet
    /\ \A t \in TaskSet : /\ t.user \in Users
                          /\ t.login \in Stores
                          /\ t.op = "save" => t.content \in Contents
  BY DEF TaskSet, Task

LEMMA InitTypes == Init => StateTypes
<1> SUFFICES ASSUME Init
             PROVE  StateTypes
  OBVIOUS
<1> USE DEF Init, FileStoreInit, InstanceInit, PageInit
<1>1. \A S : << >> \in Seq(S)
  BY EmptySeq
<1>2. userData \in Contents
  BY EmptyContent
<1>3. /\ tasks \in [Stores -> Seq(TaskSet)]
      /\ inbox \in Seq(FromPage)
      /\ outbox \in Seq(ToPage)
  BY <1>1
<1>4. password \in [Stores -> Passwords]
  BY StoresOK
<1>5. room \in [stage : RoomStages, id : Rooms \cup {NoRoom}] /\ room.stage = "none"
  BY DEF RoomObject, NoRoomObject, RoomStages
<1> QED
  BY <1>2, <1>3, <1>4, <1>5 DEF StateTypes

LEMMA DownTypes ==
    ASSUME StateTypes, NEW cause, Down(cause), UNCHANGED pageVars
    PROVE  StateTypes'
<1> USE DEF Down, ThreadsDown, pageVars
<1>1. \A S : << >> \in Seq(S)
  BY EmptySeq
<1>2. userData' \in Contents
  BY EmptyContent
<1>3. /\ tasks' \in [Stores -> Seq(TaskSet)]
      /\ inbox' \in Seq(FromPage)
      /\ outbox' \in Seq(ToPage)
  BY <1>1
<1>4. password' \in [Stores -> Passwords]
  BY StoresOK
<1>5. room' \in [stage : RoomStages, id : Rooms \cup {NoRoom}] /\ room'.stage = "none"
  BY DEF RoomObject, NoRoomObject, RoomStages
<1>6. promised' \in [Users -> SUBSET Rooms]
  BY DEF StateTypes
<1>7. /\ files' \in [Users -> {NoFile, Torn} \cup Sealed]
      /\ gone' \in SUBSET Rooms
      /\ holds' \in [Users -> SUBSET Rooms]
      /\ hasty' \in BOOLEAN
      /\ screen' \in {"auth", "loading", "rooms", "chat", "unload"}
      /\ typed' \in Logins \cup {NoLogin}
      /\ screen' = "loading" => typed' \in Logins
      /\ listed' \in SUBSET Rooms
  BY DEF StateTypes
<1>8. /\ loop' \in [Stores -> {"none", "running", "quitting"}]
      /\ ready' \in [Stores -> BOOLEAN]
      /\ at' \in [Stores -> {"idle", "opened", "posting", "loaded", "truncated"}]
      /\ target' \in [Stores -> Stores \cup {NoStore}]
      /\ loaded' \in [Stores -> Contents \cup {NoContent}]
      /\ store' \in Stores \cup {NoStore}
      /\ made' \in Stores \cup {NoStore}
      /\ userName' \in Users \cup {NoUser}
  OBVIOUS
<1> QED
  BY <1>2, <1>3, <1>4, <1>5, <1>6, <1>7, <1>8 DEF StateTypes

(* The user sends messages of the page, and nothing else happens.          *)
LEMMA SubmitTypes ==
    ASSUME StateTypes, NEW ms \in Seq(FromPage), Submits(ms), hasty' \in BOOLEAN,
           screen' \in {"auth", "loading", "rooms", "chat", "unload"},
           typed' \in Logins \cup {NoLogin},
           screen' = "loading" => typed' \in Logins,
           listed' \in SUBSET Rooms
    PROVE  StateTypes'
<1>1. inbox' \in Seq(FromPage)
  BY ConcatProperties DEF Submits, StateTypes
<1> QED
  BY <1>1 DEF Submits, StateTypes, threadVars, instanceVars

LEMMA UserTypes ==
    ASSUME StateTypes, UserStep
    PROVE  StateTypes'
<1>1. ASSUME NEW u \in Users, NEW p \in Passwords, SubmitLogin(u, p)
      PROVE  StateTypes'
  <2>1. Login(u, p) \in Logins /\ Login(u, p) \in FromPage
    BY FromPageParts DEF Login, Logins
  <2>2. <<Login(u, p)>> \in Seq(FromPage)
    BY <2>1
  <2>3. hasty' \in BOOLEAN /\ listed' \in SUBSET Rooms
    BY <1>1 DEF SubmitLogin, Sends, StateTypes
  <2> QED
    BY <1>1, <2>1, <2>2, <2>3, SubmitTypes DEF SubmitLogin, Sends
<1>2. CASE SubmitAgain
  <2>1. typed \in Logins /\ <<typed>> \in Seq(FromPage)
    BY <1>2, FromPageParts DEF SubmitAgain, StateTypes
  <2>2. hasty' \in BOOLEAN /\ screen' = screen /\ typed' = typed /\ listed' = listed
    BY <1>2 DEF SubmitAgain
  <2>3. screen \in {"auth", "loading", "rooms", "chat", "unload"} /\ listed \in SUBSET Rooms
    BY DEF StateTypes
  <2> QED
    BY <1>2, <2>1, <2>2, <2>3, SubmitTypes DEF SubmitAgain
<1>3. ASSUME NEW ms \in Seq(FromPage), Sends(ms), screen' \in {screen, "unload"},
             UNCHANGED <<typed, listed, logins>>
      PROVE  StateTypes'
  <2>1. /\ hasty' \in BOOLEAN /\ typed' \in Logins \cup {NoLogin} /\ listed' \in SUBSET Rooms
        /\ screen' = "loading" => typed' \in Logins
        /\ screen' \in {"auth", "loading", "rooms", "chat", "unload"}
    BY <1>3 DEF Sends, StateTypes
  <2> QED
    BY <1>3, <2>1, SubmitTypes DEF Sends
<1>4. ASSUME NEW r \in Rooms, ClickRoom(r) \/ JoinRoom(r)
      PROVE  StateTypes'
  <2>1. \A m \in {[cmd |-> "room.open", room |-> r], [cmd |-> "room.open_by_invite", room |-> r]} :
            <<m>> \in Seq(FromPage)
    BY DEF FromPage
  <2> QED
    BY <1>3, <1>4, <2>1 DEF ClickRoom, JoinRoom, pageVars
<1>5. CASE CreateRoom \/ ChatInput \/ ChatInvite
  <2>1. \A m \in {[cmd |-> "room.create"], Say, [cmd |-> "room.invite.generate"]} :
            <<m>> \in Seq(FromPage)
    BY DEF FromPage, Say
  <2> QED
    BY <1>3, <1>5, <2>1 DEF CreateRoom, ChatInput, ChatInvite, pageVars
<1>6. CASE ShowRooms
  BY <1>6 DEF ShowRooms, StateTypes, threadVars, instanceVars, queueVars, observed
<1>7. CASE Logout
  <2>1. <<Say, [cmd |-> "logout"]>> \in Seq(FromPage)
    BY DEF FromPage, Say
  <2> QED
    BY <1>3, <1>7, <2>1 DEF Logout
<1> QED
  BY <1>1, <1>2, <1>4, <1>5, <1>6, <1>7, PageOK DEF UserStep

LEMMA PageTypes ==
    ASSUME StateTypes, PageStep
    PROVE  StateTypes'
<1>1. ASSUME NEW cmd, Receives(cmd)
      PROVE  /\ outbox' \in Seq(ToPage)
             /\ Head(outbox) \in ToPage /\ Head(outbox).cmd = cmd
             /\ UNCHANGED <<status, files, threadVars, instanceVars, observed>>
  BY <1>1, HeadAndTail DEF Receives, StateTypes
<1>2. \A s \in {"rooms", "chat"} :
          Shows(s) => screen' \in {"auth", "rooms", "chat", "unload"}
  BY DEF Shows
<1>3. CASE OnChatList
  <2>1. Receives("available_chat_list")
    BY <1>3 DEF OnChatList
  <2>2. listed' \in SUBSET Rooms
    BY <1>1, <1>3, <2>1, ToPageParts DEF OnChatList, StateTypes
  <2> QED
    BY <1>1, <1>2, <1>3, <2>1, <2>2 DEF OnChatList, StateTypes, threadVars, instanceVars, observed
<1>4. CASE OnOpenRoom
  <2>1. Receives("open_room")
    BY <1>4 DEF OnOpenRoom
  <2>2. inbox' \in Seq(FromPage)
    BY <1>4, FromPageParts, OneMore DEF OnOpenRoom, StateTypes
  <2> QED
    BY <1>1, <1>2, <1>4, <2>1, <2>2 DEF OnOpenRoom, StateTypes, threadVars, instanceVars, observed
<1>5. CASE OnRemoveRoom
  <2>1. Receives("remove_room")
    BY <1>5 DEF OnRemoveRoom
  <2>2. listed' \in SUBSET Rooms
    BY <1>5 DEF OnRemoveRoom, StateTypes
  <2> QED
    BY <1>1, <1>5, <2>1, <2>2 DEF OnRemoveRoom, StateTypes, threadVars, instanceVars, observed
<1> QED
  BY <1>3, <1>4, <1>5 DEF PageStep

(* A login finds a store that is not in use.                               *)
LEMMA FreeStore ==
    ASSUME StateTypes, Structure, MainIdle
    PROVE  Free \in Stores /\ loop[Free] = "none"
<1>1. \A s \in Stores : loop[s] = "none" \/ s = store
  BY StoresOK DEF MainIdle, StateTypes, Structure, ThreadOK
<1>2. \E s \in Stores : loop[s] = "none"
  BY <1>1, StoresOK
<1> QED
  BY <1>2 DEF Free

(* Where there is a room there is a user, and a store to save it with.     *)
LEMMA RoomHasUser ==
    ASSUME StateTypes, Structure, MainIdle, room.stage # "none"
    PROVE  /\ userName \in Users
           /\ store \in Stores
           /\ made = NoStore
           /\ loop[store] = "running"
  BY DEF StateTypes, Structure, MainIdle, NobodyIn, SomebodyIn, StoresInUse

LEMMA MainTypes ==
    ASSUME StateTypes, Structure, MainStep, UNCHANGED pageVars
    PROVE  StateTypes'
<1> USE DEF threadVars, instanceVars, queueVars, observed, pageVars
<1>1. ASSUME NEW cmd, Command(cmd)
      PROVE  /\ Head(inbox) \in FromPage /\ Head(inbox).cmd = cmd
             /\ Tail(inbox) \in Seq(FromPage)
             /\ MainIdle
  BY <1>1, HeadAndTail DEF Command, StateTypes
<1>2. CASE HandleLogin
  <2>1. PICK m : m = Head(inbox)
    OBVIOUS
  <2>2. PICK s : s = Free
    OBVIOUS
  <2>3. Command("login") /\ inbox' = Tail(inbox) /\ userName' = m.user
        /\ StartStore(s, m.user, m.password) /\ made' = s
        /\ hasty' = (hasty \/ \E x \in Stores : tasks[x] # << >>)
        /\ UNCHANGED <<status, store, userData, room, outbox, promised, gone, holds>>
    BY <1>2, <2>1, <2>2 DEF HandleLogin, TakeCommand
  <2>4. m.user \in Users /\ m.password \in Passwords
    BY <1>1, <2>1, <2>3, FromPageParts
  <2>5. s \in Stores
    BY <1>1, <2>2, <2>3, FreeStore
  <2>6. <<Task("open", m.user, NoContent, s)>> \in Seq(TaskSet)
    BY <2>4, <2>5, TaskParts
  <2>7. tasks' \in [Stores -> Seq(TaskSet)]
    BY <2>3, <2>5, <2>6 DEF StartStore, StateTypes
  <2>8. /\ loop' \in [Stores -> {"none", "running", "quitting"}]
        /\ password' \in [Stores -> Passwords]
        /\ UNCHANGED <<files, ready, at, target, loaded>>
    BY <2>3, <2>4, <2>5 DEF StartStore, StateTypes
  <2>9. inbox' \in Seq(FromPage)
    BY <1>1, <2>3
  <2>10. hasty' \in BOOLEAN
    BY <2>3 DEF StateTypes
  <2> QED
    BY <2>3, <2>4, <2>5, <2>7, <2>8, <2>9, <2>10 DEF StateTypes
<1>3. CASE AssignStore
  <2>1. loop' \in [Stores -> {"none", "running", "quitting"}]
    BY <1>3 DEF AssignStore, QuitStore, StateTypes
  <2> QED
    BY <1>3, <2>1 DEF AssignStore, StateTypes
<1>4. CASE OldStoreGone
  BY <1>4, StoresOK DEF OldStoreGone, JoinStore, StateTypes
<1>5. ASSUME NEW cmd, NEW stage \in RoomStages, NEW r \in Rooms \cup {NoRoom},
             ReplaceRoom(cmd, RoomObject(stage, r)),
             stage \in {"opening", "joining"} => r \in Rooms, userData' \in Contents
      PROVE  StateTypes'
  <2>1. Command(cmd) /\ inbox' = Tail(inbox) /\ room' = [stage |-> stage, id |-> r]
        /\ UNCHANGED <<status, files, threadVars, made, store, userName, outbox, observed>>
    BY <1>5 DEF ReplaceRoom, TakeCommand, RoomObject
  <2>2. inbox' \in Seq(FromPage)
    BY <1>1, <2>1
  <2>3. /\ room' \in [stage : RoomStages, id : Rooms \cup {NoRoom}]
        /\ room'.stage \in {"opening", "joining"} => room'.id \in Rooms
    BY <1>5, <2>1
  <2> QED
    BY <1>5, <2>1, <2>2, <2>3 DEF StateTypes
<1>6. CASE HandleLogout \/ HandleCreate
  <2>1. userData' \in Contents
    BY <1>6 DEF HandleLogout, HandleCreate, StateTypes
  <2> QED
    BY <1>5, <1>6, <2>1 DEF HandleLogout, HandleCreate, NoRoomObject, RoomStages
<1>7. CASE HandleOpenByInvite
  <2>1. userData' \in Contents /\ Command("room.open_by_invite")
    BY <1>7 DEF HandleOpenByInvite, ReplaceRoom, StateTypes
  <2>2. Head(inbox).room \in Rooms
    BY <1>1, <2>1, FromPageParts
  <2> QED
    BY <1>5, <1>7, <2>1, <2>2 DEF HandleOpenByInvite, RoomStages
<1>8. CASE HandleOpen
  <2>1. PICK r : r = Head(inbox).room
    OBVIOUS
  <2>2. PICK stage : stage = IF r \in KeyedIn(userData) THEN "opening" ELSE "dead"
    OBVIOUS
  <2>3. ReplaceRoom("room.open", RoomObject(stage, r)) /\ userData' = LoadRoom(r)
    BY <1>8, <2>1, <2>2 DEF HandleOpen
  <2>4. r \in Rooms
    BY <1>1, <2>1, <2>3, FromPageParts DEF ReplaceRoom
  <2>5. userData' \in Contents
    BY <2>3, <2>4, LoadRoomContent DEF StateTypes
  <2> QED
    BY <1>5, <2>2, <2>3, <2>4, <2>5 DEF RoomStages
<1>9. ASSUME NEW cmd, Command(cmd), TakeCommand,
             UNCHANGED <<status, files, threadVars, instanceVars, outbox, observed>>
      PROVE  StateTypes'
  <2>1. inbox' \in Seq(FromPage)
    BY <1>1, <1>9 DEF TakeCommand
  <2> QED
    BY <1>9, <2>1 DEF StateTypes
<1>10. CASE HandleSay \/ HandleGenerateInvite
  BY <1>9, <1>10, DownTypes DEF HandleSay, HandleGenerateInvite
<1> QED
  BY <1>2, <1>3, <1>4, <1>6, <1>7, <1>8, <1>10 DEF MainStep

LEMMA SaveTypes ==
    ASSUME StateTypes, Structure, MainIdle, room.stage # "none", NEW content \in Contents,
           SaveAll(content), UNCHANGED pageVars,
           NEW m \in ToPage, Post(m), NEW stage \in RoomStages \ {"opening", "joining"},
           NEW r \in Rooms, room' = RoomObject(stage, r),
           promised' \in [Users -> SUBSET Rooms], gone' \in SUBSET Rooms,
           holds' \in [Users -> SUBSET Rooms]
    PROVE  StateTypes'
<1> USE DEF threadVars, instanceVars, queueVars, observed, pageVars
<1>1. userName \in Users /\ store \in Stores
  BY RoomHasUser
<1>2. Task("save", userName, content, store) \in TaskSet /\ tasks[store] \in Seq(TaskSet)
  BY <1>1, TaskParts DEF StateTypes
<1>3. Append(tasks[store], Task("save", userName, content, store)) \in Seq(TaskSet)
  BY <1>2, OneMore
<1>4. tasks' \in [Stores -> Seq(TaskSet)]
  BY <1>1, <1>3 DEF SaveAll, PostTask, StateTypes
<1>5. outbox' \in Seq(ToPage)
  BY OneMore DEF Post, StateTypes
<1>6. /\ room' \in [stage : RoomStages, id : Rooms \cup {NoRoom}]
      /\ room'.stage \in {"opening", "joining"} => room'.id \in Rooms
  BY DEF RoomObject
<1>7. userData' \in Contents
  BY DEF SaveAll
<1> QED
  BY <1>4, <1>5, <1>6, <1>7 DEF SaveAll, StateTypes

LEMMA AnswerTypes ==
    ASSUME StateTypes, Structure, Answered, UNCHANGED pageVars
    PROVE  StateTypes'
<1>1. ASSUME MainIdle, room.stage # "none", NEW r \in Rooms, KeepRoom(r)
      PROVE  StateTypes'
  <2>1. PICK content : content = Entered(userData, r, "keys")
    OBVIOUS
  <2>2. content \in Contents
    BY <2>1, EnteredContent DEF StateTypes
  <2>3. /\ SaveAll(content) /\ Post([cmd |-> "open_room"])
        /\ room' = RoomObject("open", r) /\ UNCHANGED <<promised, gone>>
        /\ holds' = [holds EXCEPT ![userName] = @ \cup {r}]
    BY <1>1, <2>1 DEF KeepRoom
  <2>4. /\ holds' \in [Users -> SUBSET Rooms] /\ promised' \in [Users -> SUBSET Rooms]
        /\ gone' \in SUBSET Rooms
    BY <1>1, <2>3, RoomHasUser DEF StateTypes
  <2>5. "open" \in RoomStages \ {"opening", "joining"}
    BY DEF RoomStages
  <2> QED
    BY <1>1, <2>2, <2>3, <2>4, <2>5, SaveTypes, ToPageParts
<1>2. CASE OnRoomCreated
  <2>1. PICK r : r = CHOOSE x \in Fresh : TRUE
    OBVIOUS
  <2>2. KeepRoom(r) /\ Fresh # {} /\ MainIdle /\ room.stage # "none"
    BY <1>2, <2>1 DEF OnRoomCreated
  <2>3. r \in Rooms
    BY <2>1, <2>2 DEF Fresh
  <2> QED
    BY <1>1, <2>2, <2>3
<1>3. CASE OnRoomOpened \/ OnAdmitted
  <2>1. room.id \in Rooms /\ room.stage # "none" /\ MainIdle /\ KeepRoom(room.id)
    BY <1>3 DEF OnRoomOpened, OnAdmitted, StateTypes
  <2> QED
    BY <1>1, <2>1
<1>4. CASE OnRoomNotExist
  <2>1. PICK r : r = room.id
    OBVIOUS
  <2>2. PICK content : content = Without(userData, r)
    OBVIOUS
  <2>3. /\ MainIdle /\ room.stage = "opening" /\ SaveAll(content)
        /\ Post([cmd |-> "remove_room", room |-> r])
        /\ room' = RoomObject("dead", r)
        /\ gone' = gone \cup {r}
        /\ promised' = [promised EXCEPT ![userName] = @ \ {r}]
        /\ UNCHANGED holds
    BY <1>4, <2>1, <2>2 DEF OnRoomNotExist, Without
  <2>4. content \in Contents /\ r \in Rooms
    BY <2>1, <2>2, <2>3, WithoutContent DEF StateTypes
  <2>5. /\ holds' \in [Users -> SUBSET Rooms] /\ promised' \in [Users -> SUBSET Rooms]
        /\ gone' \in SUBSET Rooms
    BY <2>3, <2>4, RoomHasUser DEF StateTypes
  <2>6. "dead" \in RoomStages \ {"opening", "joining"}
    BY DEF RoomStages
  <2> QED
    BY <2>3, <2>4, <2>5, <2>6, SaveTypes, ToPageParts
<1>5. CASE OnEarlyFrame
  BY <1>5, DownTypes DEF OnEarlyFrame
<1> QED
  BY <1>2, <1>3, <1>4, <1>5 DEF Answered

(* The task a thread works on, and what is left after it.                  *)
LEMMA WorkOf ==
    ASSUME StateTypes, NEW s \in Stores, NEW op, NEW place, Works(s, op, place)
    PROVE  /\ tasks[s] \in Seq(TaskSet) /\ tasks[s] # << >>
           /\ Head(tasks[s]) = tasks[s][1] /\ 1 \in DOMAIN tasks[s]
           /\ tasks[s][1] \in TaskSet /\ tasks[s][1].op = op
           /\ tasks[s][1].user \in Users
           /\ op = "save" => tasks[s][1].content \in Contents
           /\ Tail(tasks[s]) \in Seq(TaskSet)
           /\ [tasks EXCEPT ![s] = Tail(@)] \in [Stores -> Seq(TaskSet)]
           /\ \A i \in DOMAIN Tail(tasks[s]) :
                 i \in Nat /\ i + 1 \in DOMAIN tasks[s] /\ Tail(tasks[s])[i] = tasks[s][i + 1]
<1>1. tasks[s] \in Seq(TaskSet) /\ tasks[s] # << >> /\ Head(tasks[s]).op = op
  BY DEF Works, StateTypes
<1>2. /\ Head(tasks[s]) \in TaskSet /\ Head(tasks[s]) = tasks[s][1] /\ 1 \in DOMAIN tasks[s]
      /\ Tail(tasks[s]) \in Seq(TaskSet)
      /\ \A i \in DOMAIN Tail(tasks[s]) :
            i \in Nat /\ i + 1 \in DOMAIN tasks[s] /\ Tail(tasks[s])[i] = tasks[s][i + 1]
  BY <1>1, HeadAndTail
<1>3. [tasks EXCEPT ![s] = Tail(@)] \in [Stores -> Seq(TaskSet)]
  BY <1>2 DEF StateTypes
<1> QED
  BY <1>1, <1>2, <1>3, TaskParts

LEMMA FileTypes ==
    ASSUME StateTypes, Structure, NEW s \in Stores, FileStep(s), UNCHANGED pageVars
    PROVE  StateTypes'
<1> USE DEF threadVars, instanceVars, queueVars, observed, pageVars
<1>1. CASE OpenFileSystem(s) /\ UNCHANGED <<status, instanceVars, queueVars, observed>>
  BY <1>1 DEF OpenFileSystem, Proceeds, StateTypes
<1>2. CASE LoadFile(s) /\ UNCHANGED <<status, instanceVars, queueVars, observed>>
  <2>1. PICK content \in Readings(s, Head(tasks[s]).user) : loaded' = [loaded EXCEPT ![s] = content]
    BY <1>2 DEF LoadFile
  <2>2. Head(tasks[s]).user \in Users
    BY <1>2, WorkOf DEF LoadFile
  <2>3. content \in Contents \cup {NoContent}
    BY <2>1, <2>2 DEF Readings, StateTypes, Sealed
  <2> QED
    BY <1>2, <2>1, <2>3 DEF LoadFile, Proceeds, StateTypes
<1>3. CASE TruncateFile(s) /\ UNCHANGED <<status, instanceVars, queueVars, observed>>
  BY <1>3 DEF TruncateFile, Proceeds, StateTypes
<1>4. ASSUME NEW op, NEW place, Works(s, op, place), EndTask(s)
      PROVE  /\ tasks' \in [Stores -> Seq(TaskSet)]
             /\ at' \in [Stores -> {"idle", "opened", "posting", "loaded", "truncated"}]
  BY <1>4, WorkOf DEF EndTask, Proceeds, StateTypes
<1>5. ASSUME NEW f \in Contents, Reports(s, f)
      PROVE  outbox' \in Seq(ToPage)
  BY <1>5, OneMore, ToPageParts DEF Reports, Post, StateTypes
<1>6. CASE OnOpenError(s)
  <2>1. /\ tasks' \in [Stores -> Seq(TaskSet)]
        /\ at' \in [Stores -> {"idle", "opened", "posting", "loaded", "truncated"}]
    BY <1>4, <1>6 DEF OnOpenError, OpenFails
  <2>2. outbox' \in Seq(ToPage)
    BY <1>5, <1>6, EmptyContent DEF OnOpenError
  <2> QED
    BY <1>6, <2>1, <2>2 DEF OnOpenError, OpenFails, StateTypes
<1>7. CASE OnOpen(s)
  <2>1. CASE store = NoStore
    BY <1>7, <2>1, DownTypes DEF OnOpen
  <2>2. CASE store # NoStore
    BY <1>7, <2>2 DEF OnOpen, ReadsTarget, Proceeds, StateTypes
  <2> QED
    BY <2>1, <2>2
<1>8. CASE OnOpenLoads(s)
  <2>1. CASE PostsLoad(s) /\ UNCHANGED <<status, instanceVars, queueVars, promised, gone, holds, hasty>>
    <3>1. PICK t : t = target[s]
      OBVIOUS
    <3>2. PICK load : load = Task("load", Head(tasks[s]).user, NoContent, s)
      OBVIOUS
    <3>3. PICK rest : rest = [tasks EXCEPT ![s] = Tail(@)]
      OBVIOUS
    <3>4. /\ Works(s, "open", "posting")
          /\ tasks' = IF loop[t] = "running" THEN [rest EXCEPT ![t] = Append(@, load)] ELSE rest
      BY <2>1, <3>1, <3>2, <3>3 DEF PostsLoad
    <3>5. load \in TaskSet /\ rest \in [Stores -> Seq(TaskSet)] /\ t \in Stores
      BY <3>1, <3>2, <3>3, <3>4, WorkOf, TaskParts DEF Structure, ThreadOK, Works
    <3>6. Append(rest[t], load) \in Seq(TaskSet)
      BY <3>5, OneMore
    <3>7. tasks' \in [Stores -> Seq(TaskSet)]
      BY <3>4, <3>5, <3>6
    <3> QED
      BY <2>1, <3>7 DEF PostsLoad, Proceeds, StateTypes
  <2> QED
    BY <1>8, <2>1, DownTypes DEF OnOpenLoads
<1>9. CASE OnLoad(s) \/ OnLoadError(s)
  <2>1. EndLoad(s) /\ UNCHANGED <<status, made, store, userName, room, inbox, gone, holds, hasty>>
    BY <1>9 DEF OnLoad, OnLoadError
  <2>2. /\ tasks' \in [Stores -> Seq(TaskSet)]
        /\ at' \in [Stores -> {"idle", "opened", "posting", "loaded", "truncated"}]
    BY <1>4, <2>1 DEF EndLoad
  <2>3. \E f \in Contents : userData' = f /\ Reports(s, f)
    BY <1>9, EmptyContent DEF OnLoad, OnLoadError, StateTypes
  <2>4. userData' \in Contents /\ outbox' \in Seq(ToPage)
    BY <1>5, <2>3
  <2>5. promised' \in [Users -> SUBSET Rooms]
    BY <1>9 DEF OnLoad, OnLoadError, StateTypes
  <2> QED
    BY <2>1, <2>2, <2>4, <2>5 DEF EndLoad, StateTypes
<1>10. CASE RaceCrash(s)
  BY <1>10, DownTypes DEF RaceCrash
<1>11. CASE OnSaved(s)
  <2>1. PICK task : task = Head(tasks[s])
    OBVIOUS
  <2>2. /\ Works(s, "save", "truncated") /\ EndTask(s)
        /\ files' = [files EXCEPT ![task.user] = [password |-> password[s], content |-> task.content]]
        /\ promised' = [promised EXCEPT ![task.user] = @ \cup (KeyedIn(task.content) \ gone)]
        /\ UNCHANGED <<loop, password, ready, target, loaded>>
        /\ UNCHANGED <<status, instanceVars, queueVars, fate, gone, holds, hasty>>
    BY <1>11, <2>1 DEF OnSaved, WriteFile
  <2>3. task.user \in Users /\ task.content \in Contents
    BY <2>1, <2>2, WorkOf
  <2>4. [password |-> password[s], content |-> task.content] \in Sealed
    BY <2>3 DEF StateTypes, Sealed
  <2>5. files' \in [Users -> {NoFile, Torn} \cup Sealed]
    BY <2>2, <2>3, <2>4 DEF StateTypes
  <2>6. promised' \in [Users -> SUBSET Rooms]
    BY <2>2, <2>3, ContentRooms DEF StateTypes
  <2> QED
    BY <1>4, <2>2, <2>5, <2>6 DEF StateTypes
<1>12. CASE OnSaveError(s)
  <2>1. CASE SaveNotOpened(s) /\ UNCHANGED <<status, instanceVars, queueVars, observed>>
    BY <1>4, <2>1 DEF SaveNotOpened, StateTypes
  <2>2. CASE /\ LeaveTorn(s)
             /\ promised' = [promised EXCEPT ![Head(tasks[s]).user] = {}]
             /\ UNCHANGED <<status, instanceVars, queueVars, fate, gone, holds, hasty>>
    <3>1. promised' \in [Users -> SUBSET Rooms]
      BY <2>2 DEF StateTypes
    <3> QED
      BY <1>4, <2>2, <3>1 DEF LeaveTorn, StateTypes
  <2> QED
    BY <1>12, <2>1, <2>2 DEF OnSaveError
<1> QED
  BY <1>1, <1>2, <1>3, <1>6, <1>7, <1>8, <1>9, <1>10, <1>11, <1>12 DEF FileStep

LEMMA TypesStep ==
    ASSUME StateTypes, Structure, [Next]_vars
    PROVE  StateTypes'
<1>1. CASE UNCHANGED vars
  BY <1>1 DEF vars, StateTypes, threadVars, instanceVars, queueVars, observed, pageVars
<1>2. CASE ClosePage
  BY <1>2, DownTypes DEF ClosePage
<1>3. CASE Reload
  BY <1>3 DEF Reload, StateTypes, threadVars, instanceVars, queueVars, observed, pageVars
<1> QED
  BY <1>1, <1>2, <1>3, UserTypes, PageTypes, MainTypes, AnswerTypes, FileTypes DEF Next

-----------------------------------------------------------------------------
(* Threads and stores, and what was read before store_ was assigned.       *)

LEMMA InitStructure == Init => Structure /\ ReadOK
<1> SUFFICES ASSUME Init
             PROVE  Structure /\ ReadOK
  OBVIOUS
<1> USE DEF Init, FileStoreInit, InstanceInit, PageInit
<1>1. DOMAIN << >> = {}
  OBVIOUS
<1>2. \A s \in Stores : ThreadOK(s)
  BY StoresOK DEF ThreadOK
<1>3. StoresInUse
  BY DEF StoresInUse
<1>4. userName = NoUser /\ NobodyIn
  BY <1>1 DEF NobodyIn, NoRoomObject, RoomObject
<1>5. ReadOK
  BY <1>1 DEF ReadOK, NothingRead
<1> QED
  BY <1>2, <1>3, <1>4, <1>5 DEF Structure

LEMMA DownStructure ==
    ASSUME NEW cause, cause # "up", Down(cause), UNCHANGED pageVars,
           cause = "no store" => listed = {}
    PROVE  Structure' /\ ReadOK'
<1>1. DOMAIN << >> = {}
  BY NoPositions
<1> USE DEF Down, ThreadsDown, pageVars
<1>2. \A s \in Stores : ThreadOK(s)'
  BY DEF ThreadOK
<1>3. StoresInUse'
  BY DEF StoresInUse
<1>4. userName' = NoUser /\ NobodyIn'
  BY <1>1 DEF NobodyIn, NoRoomObject, RoomObject
<1>5. ReadOK'
  BY DEF ReadOK
<1> QED
  BY <1>2, <1>3, <1>4, <1>5 DEF Structure

(* A thread that has work belongs to somebody's store.                     *)
LEMMA WorkHasUser ==
    ASSUME StateTypes, Structure, NEW s \in Stores, tasks[s] # << >>
    PROVE  SomebodyIn /\ userName # NoUser /\ loop[s] # "none"
  BY DEF Structure, ThreadOK, NobodyIn

SameThreads ==
    UNCHANGED <<status, loop, ready, tasks, at, target, made, store, userName>>

LEMMA ThreadsStay ==
    ASSUME Structure, SameThreads
    PROVE  /\ \A s \in Stores : ThreadOK(s)'
           /\ StoresInUse'
           /\ userName # NoUser => Structure'
<1>1. \A s \in Stores : ThreadOK(s)'
  BY DEF Structure, ThreadOK, SameThreads
<1>2. StoresInUse'
  BY DEF Structure, StoresInUse, SameThreads
<1>3. userName # NoUser => SomebodyIn'
  BY DEF Structure, SomebodyIn, SameThreads
<1> QED
  BY <1>1, <1>2, <1>3 DEF Structure, SameThreads

LEMMA SubmitStructure ==
    ASSUME StateTypes, Structure, ReadOK, NEW ms \in Seq(FromPage), Submits(ms),
           listed' = listed,
           userName # NoUser \/ (screen' \in {"auth", "loading"}
                                 /\ \A i \in DOMAIN ms : ms[i].cmd = "login")
    PROVE  Structure' /\ ReadOK'
<1> USE DEF threadVars, instanceVars
<1>1. SameThreads /\ room' = room /\ outbox' = outbox /\ status = "up" /\ inbox' = inbox \o ms
  BY DEF SameThreads, Submits
<1>2. ReadOK'
  BY <1>1 DEF ReadOK, NothingRead, SameThreads
<1>3. ASSUME userName = NoUser
      PROVE  Structure'
  <2>1. \A i \in DOMAIN inbox : inbox[i].cmd = "login"
    BY <1>3 DEF Structure, NobodyIn
  <2>2. \A i \in DOMAIN ms : ms[i].cmd = "login"
    BY <1>3
  <2>3. PICK q : q = inbox \o ms
    OBVIOUS
  <2>4. /\ DOMAIN inbox = 1 .. Len(inbox) /\ DOMAIN ms = 1 .. Len(ms)
        /\ Len(inbox) \in Nat /\ Len(ms) \in Nat
        /\ DOMAIN q = 1 .. Len(inbox) + Len(ms)
        /\ \A i \in DOMAIN q : q[i] = IF i <= Len(inbox) THEN inbox[i] ELSE ms[i - Len(inbox)]
    BY <2>3, ConcatProperties, LenProperties DEF StateTypes
  <2>5. ASSUME NEW i \in DOMAIN q
        PROVE  q[i].cmd = "login"
    <3>1. CASE i <= Len(inbox)
      BY <2>1, <2>4, <2>5, <3>1
    <3>2. CASE ~(i <= Len(inbox))
      <4>1. i - Len(inbox) \in DOMAIN ms
        BY <2>4, <2>5, <3>2
      <4> QED
        BY <2>2, <2>4, <2>5, <3>2, <4>1
    <3> QED
      BY <3>1, <3>2
  <2>6. \A i \in DOMAIN inbox' : inbox'[i].cmd = "login"
    BY <1>1, <2>3, <2>5
  <2>7. NobodyIn'
    BY <1>1, <1>3, <2>6 DEF Structure, NobodyIn, SameThreads
  <2> QED
    BY <1>1, <1>3, <2>7, ThreadsStay DEF Structure, SameThreads
<1> QED
  BY <1>1, <1>2, <1>3, ThreadsStay

LEMMA UserStructure ==
    ASSUME StateTypes, Structure, ReadOK, UserStep
    PROVE  Structure' /\ ReadOK'
<1>1. screen \notin {"auth", "loading"} /\ status = "up" => userName # NoUser
  BY DEF Structure, NobodyIn
<1>2. ASSUME NEW u \in Users, NEW p \in Passwords, SubmitLogin(u, p)
      PROVE  Structure' /\ ReadOK'
  <2>1. Login(u, p) \in FromPage /\ Login(u, p).cmd = "login"
    BY FromPageParts DEF Login, Logins
  <2>2. <<Login(u, p)>> \in Seq(FromPage)
        /\ \A i \in DOMAIN <<Login(u, p)>> : <<Login(u, p)>>[i].cmd = "login"
    BY <2>1, OneElement
  <2> QED
    BY <1>2, <2>2, SubmitStructure DEF SubmitLogin, Sends
<1>3. CASE SubmitAgain
  <2>1. typed \in FromPage /\ typed.cmd = "login"
    BY <1>3, FromPageParts DEF SubmitAgain, StateTypes
  <2>2. <<typed>> \in Seq(FromPage) /\ \A i \in DOMAIN <<typed>> : <<typed>>[i].cmd = "login"
    BY <2>1, OneElement
  <2> QED
    BY <1>3, <2>2, SubmitStructure DEF SubmitAgain
<1>4. ASSUME NEW ms \in Seq(FromPage), Sends(ms), screen \notin {"auth", "loading"}, listed' = listed
      PROVE  Structure' /\ ReadOK'
  BY <1>1, <1>4, SubmitStructure DEF Sends, Submits
<1>5. ASSUME NEW r \in Rooms, ClickRoom(r) \/ JoinRoom(r)
      PROVE  Structure' /\ ReadOK'
  <2>1. \A m \in {[cmd |-> "room.open", room |-> r], [cmd |-> "room.open_by_invite", room |-> r]} :
            <<m>> \in Seq(FromPage)
    BY DEF FromPage
  <2> QED
    BY <1>4, <1>5, <2>1 DEF ClickRoom, JoinRoom, pageVars
<1>6. CASE CreateRoom \/ ChatInput \/ ChatInvite
  <2>1. \A m \in {[cmd |-> "room.create"], Say, [cmd |-> "room.invite.generate"]} :
            <<m>> \in Seq(FromPage)
    BY DEF FromPage, Say
  <2> QED
    BY <1>4, <1>6, <2>1 DEF CreateRoom, ChatInput, ChatInvite, pageVars
<1>7. CASE ShowRooms
  <2>1. userName # NoUser /\ SameThreads
    BY <1>1, <1>7 DEF ShowRooms, SameThreads, threadVars, instanceVars
  <2>2. ReadOK'
    BY <1>7 DEF ShowRooms, ReadOK, NothingRead, threadVars, instanceVars, queueVars
  <2> QED
    BY <2>1, <2>2, ThreadsStay
<1>8. CASE Logout
  <2>1. <<Say, [cmd |-> "logout"]>> \in Seq(FromPage)
    BY DEF FromPage, Say
  <2> QED
    BY <1>4, <1>8, <2>1 DEF Logout
<1> QED
  BY <1>2, <1>3, <1>5, <1>6, <1>7, <1>8, PageOK DEF UserStep

LEMMA PageStructure ==
    ASSUME StateTypes, Structure, ReadOK, PageStep
    PROVE  Structure' /\ ReadOK'
<1>1. /\ outbox # << >> /\ outbox' = Tail(outbox)
      /\ UNCHANGED <<status, files, threadVars, instanceVars, observed>>
      /\ \/ Head(outbox).cmd = "available_chat_list" /\ listed' = listed \cup Head(outbox).rooms
         \/ listed' = listed
         \/ listed' = listed \ {Head(outbox).room}
  BY DEF PageStep, OnChatList, OnOpenRoom, OnRemoveRoom, Receives
<1>2. userName # NoUser
  BY <1>1 DEF Structure, NobodyIn
<1>3. SameThreads
  BY <1>1 DEF SameThreads, threadVars, instanceVars
<1>4. status = "up"
  BY <1>2 DEF Structure, SomebodyIn
<1>5. ASSUME store = NoStore
      PROVE  NothingRead'
  <2>1. NothingRead
    BY <1>4, <1>5 DEF ReadOK
  <2>2. /\ Head(outbox) = outbox[1] /\ 1 \in DOMAIN outbox
        /\ \A i \in DOMAIN Tail(outbox) : i + 1 \in DOMAIN outbox /\ Tail(outbox)[i] = outbox[i + 1]
    BY <1>1, HeadAndTail DEF StateTypes
  <2>3. listed' = {}
    BY <1>1, <2>1, <2>2 DEF NothingRead
  <2>4. \A i \in DOMAIN outbox' : outbox'[i].cmd = "available_chat_list" => outbox'[i].rooms = {}
    BY <1>1, <2>1, <2>2 DEF NothingRead
  <2> QED
    BY <1>3, <2>1, <2>3, <2>4 DEF NothingRead, SameThreads
<1> QED
  BY <1>2, <1>3, <1>4, <1>5, ThreadsStay DEF ReadOK, SameThreads

LEMMA ReadStays ==
    ASSUME ReadOK, SameThreads, UNCHANGED <<outbox, listed>>
    PROVE  ReadOK'
  BY DEF ReadOK, NothingRead, SameThreads

LEMMA MainStructure ==
    ASSUME StateTypes, Structure, ReadOK, MainStep, UNCHANGED pageVars
    PROVE  Structure' /\ ReadOK'
<1> USE DEF threadVars, instanceVars, queueVars, observed, pageVars
<1>1. ASSUME NEW cmd, Command(cmd)
      PROVE  /\ MainIdle /\ status = "up" /\ made = NoStore
             /\ Head(inbox) \in FromPage /\ Head(inbox).cmd = cmd
             /\ cmd # "login" => userName # NoUser
  <2>1. /\ inbox # << >> /\ Head(inbox) \in FromPage /\ Head(inbox) = inbox[1]
        /\ 1 \in DOMAIN inbox /\ Head(inbox).cmd = cmd
    BY <1>1, HeadAndTail DEF Command, StateTypes
  <2> QED
    BY <1>1, <2>1 DEF Command, MainIdle, Structure, NobodyIn
<1>2. CASE HandleLogin
  <2>1. PICK m : m = Head(inbox)
    OBVIOUS
  <2>2. PICK s : s = Free
    OBVIOUS
  <2>3. /\ Command("login") /\ userName' = m.user
        /\ StartStore(s, m.user, m.password) /\ made' = s
        /\ UNCHANGED <<status, store, userData, room, outbox, promised, gone, holds>>
    BY <1>2, <2>1, <2>2 DEF HandleLogin
  <2>4. s \in Stores /\ loop[s] = "none"
    BY <1>1, <2>2, <2>3, FreeStore
  <2>5. m.user \in Users /\ m.user # NoUser
    BY <1>1, <2>1, <2>3, FromPageParts, NullsOK
  <2>6. PICK t : t = Task("open", m.user, NoContent, s)
    OBVIOUS
  <2>7. t.op = "open"
    BY <2>6 DEF Task
  <2>8. /\ loop' = [loop EXCEPT ![s] = "running"] /\ tasks' = [tasks EXCEPT ![s] = <<t>>]
        /\ UNCHANGED <<ready, at, target>>
    BY <2>3, <2>6 DEF StartStore
  <2>9. tasks[s] = << >> /\ at[s] = "idle" /\ store # s
    BY <2>4, StoresOK DEF Structure, ThreadOK, StoresInUse
  <2>10. status = "up" /\ made = NoStore
    BY <1>1, <2>3
  <2>11. ASSUME NEW x \in Stores
         PROVE  ThreadOK(x)'
    <3>1. CASE x = s
      BY <2>3, <2>4, <2>8, <2>9, <3>1 DEF ThreadOK, StateTypes
    <3>2. CASE x # s
      <4>1. /\ loop'[x] = loop[x] /\ tasks'[x] = tasks[x] /\ at'[x] = at[x] /\ ready'[x] = ready[x]
            /\ target'[x] = target[x]
        BY <2>4, <2>8, <3>2 DEF StateTypes
      <4>2. loop[x] = "running" => x = store
        BY <2>10, StoresOK DEF Structure, ThreadOK
      <4> QED
        BY <2>3, <4>1, <4>2 DEF Structure, ThreadOK
    <3> QED
      BY <3>1, <3>2
  <2>12. StoresInUse'
    BY <2>3, <2>4, <2>8, <2>9, StoresOK DEF StoresInUse, Structure, StateTypes
  <2>13. SomebodyIn'
    BY <2>3, <2>4, <2>10, StoresOK DEF SomebodyIn
  <2>14. ASSUME store = NoStore
         PROVE  NothingRead'
    <3>1. NothingRead
      BY <2>10, <2>14 DEF ReadOK
    <3>2. \A x \in Stores : at'[x] # "posting" /\ \A i \in DOMAIN tasks'[x] : tasks'[x][i].op # "load"
      <4>1. DOMAIN <<t>> = {1} /\ <<t>>[1] = t
        OBVIOUS
      <4>2. tasks'[s] = <<t>> /\ \A x \in Stores \ {s} : tasks'[x] = tasks[x]
        BY <2>4, <2>8 DEF StateTypes
      <4>3. \A i \in DOMAIN tasks'[s] : tasks'[s][i].op # "load"
        BY <2>7, <4>1, <4>2
      <4> QED
        BY <2>8, <3>1, <4>2, <4>3 DEF NothingRead
    <3> QED
      BY <2>3, <3>1, <3>2 DEF NothingRead
  <2> QED
    BY <2>3, <2>5, <2>10, <2>11, <2>12, <2>13, <2>14 DEF Structure, ReadOK
<1>3. CASE AssignStore
  <2>1. /\ status = "up" /\ made # NoStore /\ store' = made /\ made' = NoStore
        /\ IF store # NoStore THEN loop' = [loop EXCEPT ![store] = "quitting"] ELSE loop' = loop
        /\ UNCHANGED <<status, ready, tasks, at, target, userName, outbox, listed>>
    BY <1>3 DEF AssignStore, QuitStore
  <2>2. made \in Stores /\ loop[made] = "running" /\ made # store
        /\ (store # NoStore => store \in Stores /\ loop[store] = "running")
    BY <2>1 DEF Structure, StoresInUse, StateTypes
  <2>3. \A x \in Stores : loop'[x] = IF x = store THEN "quitting" ELSE loop[x]
    BY <2>1, <2>2, StoresOK DEF StateTypes
  <2>4. ASSUME NEW x \in Stores
        PROVE  ThreadOK(x)'
    BY <2>1, <2>2, <2>3 DEF Structure, ThreadOK
  <2>5. StoresInUse'
    BY <2>1, <2>2, <2>3 DEF StoresInUse
  <2>6. userName # NoUser /\ SomebodyIn'
    BY <2>1 DEF Structure, NobodyIn, SomebodyIn
  <2>7. ReadOK'
    BY <2>1 DEF ReadOK
  <2> QED
    BY <2>1, <2>4, <2>5, <2>6, <2>7 DEF Structure
<1>4. CASE OldStoreGone
  <2>1. PICK s \in Stores : JoinStore(s)
    BY <1>4 DEF OldStoreGone
  <2>2. /\ loop[s] = "quitting" /\ tasks[s] = << >>
        /\ loop' = [loop EXCEPT ![s] = "none"] /\ ready' = [ready EXCEPT ![s] = FALSE]
        /\ UNCHANGED <<status, tasks, at, target, made, store, userName, outbox, listed>>
    BY <1>4, <2>1 DEF OldStoreGone, JoinStore
  <2>3. ASSUME NEW x \in Stores
        PROVE  ThreadOK(x)'
    BY <2>2 DEF Structure, ThreadOK, StateTypes
  <2>4. StoresInUse'
    BY <2>2 DEF Structure, StoresInUse, StateTypes
  <2>5. userName # NoUser /\ SomebodyIn'
    BY <2>2 DEF Structure, NobodyIn, SomebodyIn
  <2>6. ReadOK'
    BY <2>2 DEF ReadOK, NothingRead
  <2> QED
    BY <2>2, <2>3, <2>4, <2>5, <2>6 DEF Structure
<1>5. ASSUME NEW cmd, Command(cmd), cmd # "login", SameThreads, UNCHANGED <<outbox, listed>>
      PROVE  Structure' /\ ReadOK'
  BY <1>1, <1>5, ThreadsStay, ReadStays
<1>6. ASSUME NEW cmd, NEW object, cmd # "login", ReplaceRoom(cmd, object)
      PROVE  Structure' /\ ReadOK'
  BY <1>5, <1>6 DEF ReplaceRoom, SameThreads
<1>7. CASE HandleLogout \/ HandleCreate \/ HandleOpenByInvite \/ HandleOpen
  BY <1>6, <1>7 DEF HandleLogout, HandleCreate, HandleOpenByInvite, HandleOpen
<1>8. CASE HandleSay
  <2>1. CASE room.stage = "joining"
    <3>1. Down("no key")
      BY <1>8, <2>1 DEF HandleSay
    <3> QED
      BY <3>1, DownStructure
  <2>2. CASE room.stage # "joining"
    BY <1>5, <1>8, <2>2 DEF HandleSay, SameThreads
  <2> QED
    BY <2>1, <2>2
<1>9. CASE HandleGenerateInvite
  <2>1. CASE room.stage = "none"
    <3>1. Down("no room")
      BY <1>9, <2>1 DEF HandleGenerateInvite
    <3> QED
      BY <3>1, DownStructure
  <2>2. CASE room.stage # "none"
    BY <1>5, <1>9, <2>2 DEF HandleGenerateInvite, SameThreads
  <2> QED
    BY <2>1, <2>2
<1> QED
  BY <1>2, <1>3, <1>4, <1>7, <1>8, <1>9 DEF MainStep

(* A save is posted to the one store there is.                             *)
LEMMA SaveStructure ==
    ASSUME StateTypes, Structure, ReadOK, MainIdle, room.stage # "none",
           NEW content \in Contents, SaveAll(content)
    PROVE  /\ Structure' /\ ReadOK'
           /\ tasks' = [tasks EXCEPT ![store] =
                            Append(@, Task("save", userName, content, store))]
<1> USE DEF threadVars, instanceVars, queueVars, observed, pageVars
<1>1. userName \in Users /\ store \in Stores /\ made = NoStore /\ loop[store] = "running"
  BY RoomHasUser
<1>2. PICK t : t = Task("save", userName, content, store)
  OBVIOUS
<1>3. /\ tasks' = [tasks EXCEPT ![store] = Append(@, t)]
      /\ UNCHANGED <<status, loop, ready, at, target, made, store, userName>>
  BY <1>1, <1>2 DEF SaveAll, PostTask
<1>4. t \in TaskSet /\ tasks[store] \in Seq(TaskSet)
  BY <1>1, <1>2, TaskParts DEF StateTypes
<1>5. /\ Append(tasks[store], t) # << >>
      /\ tasks[store] # << >> => Head(Append(tasks[store], t)) = Head(tasks[store])
  BY <1>4, OneMore
<1>6. ASSUME NEW x \in Stores
      PROVE  ThreadOK(x)'
  <2>1. CASE x = store
    BY <1>1, <1>3, <1>5, <2>1 DEF Structure, ThreadOK, StateTypes
  <2>2. CASE x # store
    BY <1>1, <1>3, <2>2 DEF Structure, ThreadOK, StateTypes
  <2> QED
    BY <2>1, <2>2
<1>7. StoresInUse'
  BY <1>3 DEF Structure, StoresInUse
<1>8. userName # NoUser /\ SomebodyIn'
  BY <1>1, <1>3, NullsOK DEF Structure, SomebodyIn
<1>9. ReadOK'
  <2>1. store # NoStore /\ status = "up"
    BY <1>1, StoresOK DEF MainIdle
  <2> QED
    BY <1>3, <2>1 DEF ReadOK
<1> QED
  BY <1>2, <1>3, <1>6, <1>7, <1>8, <1>9 DEF Structure

LEMMA AnswerStructure ==
    ASSUME StateTypes, Structure, ReadOK, Answered, UNCHANGED pageVars
    PROVE  Structure' /\ ReadOK'
<1>1. ASSUME MainIdle, room.stage # "none", NEW r \in Rooms, KeepRoom(r)
      PROVE  Structure' /\ ReadOK'
  <2>1. Entered(userData, r, "keys") \in Contents
    BY EnteredContent DEF StateTypes
  <2> QED
    BY <1>1, <2>1, SaveStructure DEF KeepRoom
<1>2. CASE OnRoomCreated
  <2>1. PICK r : r = CHOOSE x \in Fresh : TRUE
    OBVIOUS
  <2>2. KeepRoom(r) /\ Fresh # {} /\ MainIdle /\ room.stage # "none"
    BY <1>2, <2>1 DEF OnRoomCreated
  <2>3. r \in Rooms
    BY <2>1, <2>2 DEF Fresh
  <2> QED
    BY <1>1, <2>2, <2>3
<1>3. CASE OnRoomOpened \/ OnAdmitted
  <2>1. room.id \in Rooms /\ room.stage # "none" /\ MainIdle /\ KeepRoom(room.id)
    BY <1>3 DEF OnRoomOpened, OnAdmitted, StateTypes
  <2> QED
    BY <1>1, <2>1
<1>4. CASE OnRoomNotExist
  <2>1. PICK content : content = Without(userData, room.id)
    OBVIOUS
  <2>2. MainIdle /\ room.stage = "opening" /\ SaveAll(content)
    BY <1>4, <2>1 DEF OnRoomNotExist, Without
  <2>3. content \in Contents
    BY <2>1, WithoutContent DEF StateTypes
  <2> QED
    BY <2>2, <2>3, SaveStructure
<1>5. CASE OnEarlyFrame
  <2>1. Down("no key")
    BY <1>5 DEF OnEarlyFrame
  <2> QED
    BY <2>1, DownStructure
<1> QED
  BY <1>2, <1>3, <1>4, <1>5 DEF Answered

(* A thread gets on with its task, or ends it.                             *)
LEMMA OneThreadMoves ==
    ASSUME StateTypes, Structure, NEW s \in Stores, tasks[s] # << >>, ThreadOK(s)',
           \A x \in Stores \ {s} :
               tasks'[x] = tasks[x] /\ at'[x] = at[x] /\ target'[x] = target[x] /\ ready'[x] = ready[x],
           UNCHANGED <<status, loop, made, store, userName>>
    PROVE  Structure'
<1>1. \A x \in Stores : ThreadOK(x)'
  <2>1. ASSUME NEW x \in Stores, x # s
        PROVE  ThreadOK(x)'
    BY <2>1 DEF Structure, ThreadOK
  <2> QED
    BY <2>1
<1>2. StoresInUse'
  BY DEF Structure, StoresInUse
<1>3. userName # NoUser /\ SomebodyIn'
  BY WorkHasUser DEF SomebodyIn
<1> QED
  BY <1>1, <1>2, <1>3 DEF Structure

LEMMA FileStructure ==
    ASSUME StateTypes, Structure, ReadOK, NEW s \in Stores, FileStep(s), UNCHANGED pageVars
    PROVE  Structure' /\ ReadOK'
<1> USE DEF threadVars, instanceVars, queueVars, observed, pageVars
<1>1. ASSUME NEW op, NEW place, Works(s, op, place)
      PROVE  /\ tasks[s] \in Seq(TaskSet) /\ tasks[s] # << >>
             /\ Head(tasks[s]) = tasks[s][1] /\ 1 \in DOMAIN tasks[s] /\ tasks[s][1].op = op
             /\ at[s] = place /\ loop[s] # "none" /\ status = "up"
             /\ \A i \in DOMAIN Tail(tasks[s]) :
                   i + 1 \in DOMAIN tasks[s] /\ Tail(tasks[s])[i] = tasks[s][i + 1]
  BY <1>1, WorkOf, WorkHasUser DEF Works, SomebodyIn
<1>2. ASSUME NEW op, NEW place, Works(s, op, place), EndTask(s),
             UNCHANGED <<status, loop, ready, target, made, store, userName>>
      PROVE  /\ Structure'
             /\ tasks'[s] = Tail(tasks[s]) /\ at'[s] = "idle"
             /\ \A x \in Stores \ {s} : tasks'[x] = tasks[x] /\ at'[x] = at[x]
  <2>1. /\ tasks'[s] = Tail(tasks[s]) /\ at'[s] = "idle"
        /\ \A x \in Stores \ {s} : tasks'[x] = tasks[x] /\ at'[x] = at[x]
    BY <1>2 DEF EndTask, Proceeds, StateTypes
  <2>2. ThreadOK(s)'
    BY <1>1, <1>2, <2>1 DEF Structure, ThreadOK
  <2> QED
    BY <1>1, <1>2, <2>1, <2>2, OneThreadMoves
<1>3. ASSUME NEW op, NEW place, Works(s, op, place), EndTask(s), op # "load" \/ store # NoStore,
             UNCHANGED <<status, loop, ready, target, made, store, userName, listed>>,
             outbox' = outbox \/ Reports(s, NoRooms)
      PROVE  ReadOK'
  <2>1. CASE store = NoStore
    <3>1. NothingRead /\ status' = "up"
      BY <1>1, <1>3, <2>1 DEF ReadOK
    <3>2. \A x \in Stores : at'[x] # "posting" /\ \A i \in DOMAIN tasks'[x] : tasks'[x][i].op # "load"
      <4>1. at'[s] = "idle" /\ \A i \in DOMAIN tasks'[s] : tasks'[s][i].op # "load"
        <5>1. tasks'[s] = Tail(tasks[s]) /\ at'[s] = "idle"
          BY <1>2, <1>3
        <5>2. \A i \in DOMAIN Tail(tasks[s]) :
                  i + 1 \in DOMAIN tasks[s] /\ Tail(tasks[s])[i] = tasks[s][i + 1]
          BY <1>1, <1>3
        <5>3. \A i \in DOMAIN Tail(tasks[s]) : Tail(tasks[s])[i].op # "load"
          BY <3>1, <5>2 DEF NothingRead
        <5> QED
          BY <5>1, <5>3
      <4> QED
        BY <1>2, <1>3, <3>1, <4>1 DEF NothingRead
    <3>3. \A i \in DOMAIN outbox' :
              outbox'[i].cmd = "available_chat_list" => outbox'[i].rooms = {}
      <4>1. CASE outbox' = outbox
        BY <3>1, <4>1 DEF NothingRead
      <4>2. CASE Reports(s, NoRooms)
        <5>1. PICK m : m = ChatList(NoRooms)
          OBVIOUS
        <5>2. outbox' = Append(outbox, m) /\ m \in ToPage /\ m.rooms = {}
          BY <4>2, <5>1, ToPageParts, EmptyContent DEF Reports, Post
        <5>3. outbox \in Seq(ToPage)
          BY DEF StateTypes
        <5>4. ASSUME NEW i \in DOMAIN outbox'
              PROVE  outbox'[i] = m \/ (i \in DOMAIN outbox /\ outbox'[i] = outbox[i])
          BY <5>2, <5>3, <5>4, OneMore
        <5> QED
          BY <3>1, <5>2, <5>4 DEF NothingRead
      <4> QED
        BY <1>3, <4>1, <4>2
    <3> QED
      BY <1>3, <3>1, <3>2, <3>3 DEF ReadOK, NothingRead
  <2>2. CASE store # NoStore
    BY <1>1, <1>3, <2>2 DEF ReadOK
  <2> QED
    BY <2>1, <2>2
<1>4. ASSUME NEW op, NEW place, NEW place2, Works(s, op, place), Proceeds(s, place2), place2 # "idle",
             ready'[s] = ready[s] \/ ready'[s],
             \A x \in Stores \ {s} : ready'[x] = ready[x] /\ target'[x] = target[x],
             place2 \in {"opened", "posting"} => op = "open",
             place2 = "loaded" => op = "load",
             place2 = "truncated" => op = "save" /\ ready'[s],
             place2 = "posting" => target'[s] \in Stores /\ store # NoStore,
             UNCHANGED <<status, loop, tasks, made, store, userName, outbox, listed>>
      PROVE  Structure' /\ ReadOK'
  <2>1. at'[s] = place2 /\ \A x \in Stores \ {s} : at'[x] = at[x]
    BY <1>4 DEF Proceeds, StateTypes
  <2>2. ThreadOK(s)'
    BY <1>1, <1>4, <2>1 DEF Structure, ThreadOK
  <2>3. ReadOK'
    BY <1>1, <1>4, <2>1 DEF ReadOK, NothingRead
  <2> QED
    BY <1>1, <1>4, <2>1, <2>2, <2>3, OneThreadMoves
<1>5. CASE OpenFileSystem(s) /\ UNCHANGED <<status, instanceVars, queueVars, observed>>
  <2>1. /\ Works(s, "open", "idle") /\ Proceeds(s, "opened")
        /\ ready' = [ready EXCEPT ![s] = TRUE]
        /\ UNCHANGED <<status, loop, tasks, target, made, store, userName, outbox, listed>>
    BY <1>5 DEF OpenFileSystem
  <2>2. ready'[s] /\ \A x \in Stores \ {s} : ready'[x] = ready[x]
    BY <2>1 DEF StateTypes
  <2> QED
    BY <1>4, <2>1, <2>2
<1>6. CASE LoadFile(s) /\ UNCHANGED <<status, instanceVars, queueVars, observed>>
  <2>1. /\ Works(s, "load", "idle") /\ Proceeds(s, "loaded")
        /\ UNCHANGED <<status, loop, ready, tasks, target, made, store, userName, outbox, listed>>
    BY <1>6 DEF LoadFile
  <2> QED
    BY <1>4, <2>1
<1>7. CASE TruncateFile(s) /\ UNCHANGED <<status, instanceVars, queueVars, observed>>
  <2>1. /\ Works(s, "save", "idle") /\ Proceeds(s, "truncated") /\ ready[s]
        /\ UNCHANGED <<status, loop, ready, tasks, target, made, store, userName, outbox, listed>>
    BY <1>7 DEF TruncateFile
  <2> QED
    BY <1>4, <2>1
<1>8. CASE OnOpenError(s)
  <2>1. /\ Works(s, "open", "idle") /\ EndTask(s) /\ Reports(s, NoRooms)
        /\ UNCHANGED <<status, loop, ready, target, made, store, userName, listed>>
    BY <1>8 DEF OnOpenError, OpenFails
  <2> QED
    BY <1>2, <1>3, <2>1
<1>9. CASE OnOpen(s)
  <2>1. CASE store = NoStore
    <3>1. Works(s, "open", "opened") /\ Down("no store")
      BY <1>9, <2>1 DEF OnOpen
    <3>2. listed = {}
      BY <1>1, <2>1, <3>1 DEF ReadOK, NothingRead
    <3> QED
      BY <3>1, <3>2, DownStructure
  <2>2. CASE store # NoStore
    <3>1. /\ Works(s, "open", "opened") /\ Proceeds(s, "posting")
          /\ target' = [target EXCEPT ![s] = store]
          /\ UNCHANGED <<status, loop, ready, tasks, made, store, userName, outbox, listed>>
      BY <1>9, <2>2 DEF OnOpen, ReadsTarget
    <3>2. target'[s] \in Stores /\ \A x \in Stores \ {s} : target'[x] = target[x]
      BY <2>2, <3>1 DEF StateTypes
    <3> QED
      BY <1>4, <2>2, <3>1, <3>2
  <2> QED
    BY <2>1, <2>2
<1>10. CASE OnOpenLoads(s)
  <2>1. CASE PostsLoad(s) /\ UNCHANGED <<status, instanceVars, queueVars, promised, gone, holds, hasty>>
    <3>1. PICK t : t = target[s]
      OBVIOUS
    <3>2. PICK load : load = Task("load", Head(tasks[s]).user, NoContent, s)
      OBVIOUS
    <3>3. PICK rest : rest = [tasks EXCEPT ![s] = Tail(@)]
      OBVIOUS
    <3>4. /\ Works(s, "open", "posting") /\ Proceeds(s, "idle")
          /\ tasks' = IF loop[t] = "running" THEN [rest EXCEPT ![t] = Append(@, load)] ELSE rest
          /\ target' = [target EXCEPT ![s] = NoStore]
          /\ UNCHANGED <<status, loop, ready, made, store, userName, outbox, listed>>
      BY <2>1, <3>1, <3>2, <3>3 DEF PostsLoad
    <3>5. load \in TaskSet /\ rest \in [Stores -> Seq(TaskSet)] /\ t \in Stores
      BY <3>1, <3>2, <3>3, <3>4, WorkOf, TaskParts DEF Structure, ThreadOK, Works
    <3>6. /\ Append(rest[t], load) # << >>
          /\ rest[t] # << >> => Head(Append(rest[t], load)) = Head(rest[t])
      BY <3>5, OneMore
    <3>7. at'[s] = "idle" /\ \A x \in Stores \ {s} : at'[x] = at[x] /\ target'[x] = target[x]
      BY <3>4 DEF Proceeds, StateTypes
    <3>8. \A x \in Stores : rest[x] = IF x = s THEN Tail(tasks[s]) ELSE tasks[x]
      BY <3>3 DEF StateTypes
    <3>9. ASSUME NEW x \in Stores
          PROVE  ThreadOK(x)'
      <4>1. CASE loop[t] = "running" /\ x = t
        <5>1. tasks'[x] = Append(rest[t], load)
          BY <3>4, <3>5, <4>1
        <5>2. loop'[x] = "running" /\ (x = made' \/ x = store')
          BY <3>4, <4>1 DEF Structure, ThreadOK
        <5>3. CASE x = s
          BY <3>4, <3>6, <3>7, <4>1, <5>1, <5>2, <5>3 DEF ThreadOK
        <5>4. CASE x # s
          <6>1. rest[t] = tasks[x] /\ at'[x] = at[x] /\ target'[x] = target[x] /\ ready'[x] = ready[x]
            BY <3>4, <3>7, <3>8, <4>1, <5>4
          <6> QED
            BY <3>6, <4>1, <5>1, <5>2, <6>1 DEF Structure, ThreadOK
        <5> QED
          BY <5>3, <5>4
      <4>2. CASE ~(loop[t] = "running" /\ x = t)
        <5>1. tasks'[x] = rest[x]
          BY <3>4, <3>5, <4>2
        <5>2. CASE x = s
          <6>1. loop'[x] # "none" /\ (loop'[x] = "running" => x = made' \/ x = store')
            BY <1>1, <3>4, <5>2 DEF Structure, ThreadOK
          <6> QED
            BY <3>7, <5>2, <6>1 DEF ThreadOK
        <5>3. CASE x # s
          BY <3>4, <3>7, <3>8, <5>1, <5>3 DEF Structure, ThreadOK
        <5> QED
          BY <5>2, <5>3
      <4> QED
        BY <4>1, <4>2
    <3>10. StoresInUse'
      BY <3>4 DEF Structure, StoresInUse
    <3>11. userName # NoUser /\ SomebodyIn'
      BY <1>1, <3>4, WorkHasUser DEF SomebodyIn
    <3>12. status = "up" /\ store # NoStore
      BY <1>1, <3>4 DEF ReadOK, NothingRead
    <3>13. ReadOK'
      BY <3>4, <3>12 DEF ReadOK
    <3> QED
      BY <3>4, <3>9, <3>10, <3>11, <3>13 DEF Structure
  <2>2. CASE Down("freed")
    BY <2>2, DownStructure
  <2> QED
    BY <1>10, <2>1, <2>2 DEF OnOpenLoads
<1>11. CASE OnLoad(s) \/ OnLoadError(s)
  <2>1. /\ Works(s, "load", "loaded") /\ EndTask(s)
        /\ UNCHANGED <<status, loop, ready, target, made, store, userName, listed>>
    BY <1>11 DEF OnLoad, OnLoadError, EndLoad
  <2>2. store # NoStore
    BY <1>1, <2>1 DEF ReadOK, NothingRead
  <2>3. ReadOK'
    BY <1>1, <2>1, <2>2 DEF ReadOK
  <2> QED
    BY <1>2, <2>1, <2>3
<1>12. CASE RaceCrash(s)
  <2>1. Down("race")
    BY <1>12 DEF RaceCrash
  <2> QED
    BY <2>1, DownStructure
<1>13. CASE OnSaved(s) \/ OnSaveError(s)
  <2>1. PICK place : /\ Works(s, "save", place) /\ EndTask(s)
                     /\ UNCHANGED <<status, loop, ready, target, made, store, userName, outbox, listed>>
    BY <1>13 DEF OnSaved, WriteFile, OnSaveError, SaveNotOpened, LeaveTorn
  <2> QED
    BY <1>2, <1>3, <2>1
<1> QED
  BY <1>5, <1>6, <1>7, <1>8, <1>9, <1>10, <1>11, <1>12, <1>13 DEF FileStep

LEMMA StructureStep ==
    ASSUME StateTypes, Structure, ReadOK, [Next]_vars
    PROVE  Structure' /\ ReadOK'
<1> USE DEF vars, threadVars, instanceVars, queueVars, observed, pageVars
<1>1. CASE UNCHANGED vars
  BY <1>1 DEF Structure, ThreadOK, StoresInUse, NobodyIn, SomebodyIn, ReadOK, NothingRead
<1>2. CASE ClosePage
  BY <1>2, DownStructure DEF ClosePage
<1>3. CASE Reload
  <2>1. /\ status # "up" /\ status' = "up" /\ screen' = "auth" /\ listed' = {}
        /\ UNCHANGED <<loop, ready, tasks, at, target, made, store, userName, room, inbox, outbox>>
    BY <1>3 DEF Reload
  <2>2. userName = NoUser /\ NobodyIn
    BY <2>1 DEF Structure, SomebodyIn
  <2>3. \A s \in Stores : ThreadOK(s)'
    BY <2>1 DEF Structure, ThreadOK
  <2>4. StoresInUse' /\ NobodyIn'
    BY <2>1, <2>2 DEF Structure, StoresInUse, NobodyIn
  <2>5. ReadOK'
    <3>1. \A s \in Stores : tasks[s] = << >> /\ at[s] = "idle"
      BY <2>2 DEF NobodyIn, Structure, ThreadOK
    <3> QED
      BY <2>1, <2>2, <3>1, NoPositions DEF ReadOK, NothingRead, NobodyIn
  <2> QED
    BY <2>1, <2>2, <2>3, <2>4, <2>5 DEF Structure
<1> QED
  BY <1>1, <1>2, <1>3, UserStructure, PageStructure, MainStructure, AnswerStructure, FileStructure DEF Next

-----------------------------------------------------------------------------
(* What the page has asked for, and the room it shows.                     *)

LEMMA InitShown == Init => PageOneAtATime /\ RoomShown
  BY NoPositions DEF Init, InstanceInit, PageInit, NoRoomObject, RoomObject,
     PageOneAtATime, RoomShown, InInbox

LEMMA DownShown ==
    ASSUME NEW cause, cause \notin {"up", "no room"}, Down(cause)
    PROVE  PageOneAtATime' /\ RoomShown'
<1>1. inbox' = << >> /\ status' = cause
  BY DEF Down
<1>2. DOMAIN inbox' = {}
  BY <1>1, NoPositions
<1> QED
  BY <1>1, <1>2 DEF PageOneAtATime, RoomShown

(* A command taken, the rest keeps its order.                              *)
LEMMA InboxRest ==
    ASSUME StateTypes, PageOneAtATime, inbox # << >>, inbox' = Tail(inbox)
    PROVE  /\ Head(inbox) = inbox[1] /\ 1 \in DOMAIN inbox /\ Head(inbox) \in FromPage
           /\ PageOneAtATime'
           /\ \A i \in DOMAIN inbox' : i + 1 \in DOMAIN inbox /\ inbox'[i] = inbox[i + 1]
           /\ Head(inbox) # Say => \A i \in DOMAIN inbox' : inbox'[i] = Say
           /\ \A cmd : InInbox(cmd)' => InInbox(cmd)
           /\ \A cmd : InInbox(cmd) /\ Head(inbox).cmd # cmd => InInbox(cmd)'
<1>1. /\ Head(inbox) = inbox[1] /\ 1 \in DOMAIN inbox /\ Head(inbox) \in FromPage
      /\ \A i \in DOMAIN inbox' : i \in Nat /\ i + 1 \in DOMAIN inbox /\ inbox'[i] = inbox[i + 1]
  BY HeadAndTail DEF StateTypes
<1>2. /\ DOMAIN inbox = 1 .. Len(inbox) /\ DOMAIN inbox' = 1 .. Len(inbox) - 1 /\ Len(inbox) \in Nat
  <2>1. Tail(inbox) \in Seq(FromPage) /\ Len(Tail(inbox)) = Len(inbox) - 1
    BY HeadTailProperties DEF StateTypes
  <2> QED
    BY <2>1, LenProperties DEF StateTypes
<1>3. PageOneAtATime'
  <2>1. ASSUME NEW i \in DOMAIN inbox', NEW j \in DOMAIN inbox', inbox'[i] # Say, inbox'[j] # Say
        PROVE  i = j
    <3>1. i + 1 = j + 1
      BY <1>1, <2>1 DEF PageOneAtATime
    <3> QED
      BY <1>1, <2>1, <3>1
  <2> QED
    BY <2>1 DEF PageOneAtATime, Say
<1>4. ASSUME Head(inbox) # Say, NEW i \in DOMAIN inbox'
      PROVE  inbox'[i] = Say
  <2>1. i + 1 # 1 /\ i + 1 \in DOMAIN inbox /\ inbox'[i] = inbox[i + 1]
    BY <1>1, <1>2, <1>4
  <2> QED
    BY <1>1, <1>4, <2>1 DEF PageOneAtATime
<1>5. ASSUME NEW cmd, InInbox(cmd)'
      PROVE  InInbox(cmd)
  BY <1>1, <1>5 DEF InInbox
<1>6. ASSUME NEW cmd, InInbox(cmd), Head(inbox).cmd # cmd
      PROVE  InInbox(cmd)'
  <2>1. PICK i \in DOMAIN inbox : inbox[i].cmd = cmd
    BY <1>6 DEF InInbox
  <2>2. i # 1 /\ i - 1 \in DOMAIN inbox' /\ i \in Nat
    BY <1>1, <1>2, <1>6, <2>1
  <2>3. inbox'[i - 1] = inbox[i]
    BY <1>1, <1>2, <2>1, <2>2
  <2> QED
    BY <2>1, <2>2, <2>3 DEF InInbox
<1> QED
  BY <1>1, <1>3, <1>4, <1>5, <1>6

LEMMA ShownStays ==
    ASSUME PageOneAtATime, RoomShown,
           UNCHANGED <<status, inbox, screen>>, room'.stage = room.stage,
           \A i \in DOMAIN outbox' : outbox'[i].cmd = "open_room" =>
               \E j \in DOMAIN outbox : outbox[j].cmd = "open_room"
    PROVE  PageOneAtATime' /\ RoomShown'
<1>1. \A cmd : InInbox(cmd)' <=> InInbox(cmd)
  BY DEF InInbox
<1>2. PageOneAtATime'
  BY DEF PageOneAtATime, Say
<1>3. RoomShown'
  BY <1>1 DEF RoomShown, Say
<1> QED
  BY <1>2, <1>3

LEMMA SubmitShown ==
    ASSUME MaxQueue = 0, StateTypes, RoomShown, NEW ms \in Seq(FromPage), Submits(ms),
           \A i, j \in DOMAIN ms : ms[i] # Say /\ ms[j] # Say => i = j,
           \A i \in DOMAIN ms : ms[i].cmd = "logout" => screen' = "unload",
           \A i \in DOMAIN ms : ms[i].cmd = "room.invite.generate" => room.stage # "none",
           screen' = "chat" => room.stage # "none",
           screen' = "unload" =>
               /\ \E i \in DOMAIN ms : ms[i].cmd = "logout"
               /\ \A i \in DOMAIN ms : ms[i] = Say \/ ms[i].cmd = "logout"
    PROVE  PageOneAtATime' /\ RoomShown'
<1>1. /\ status' = "up" /\ outbox' = outbox /\ room' = room /\ inbox' = inbox \o ms
      /\ Len(inbox) + Len(outbox) <= 0
  BY DEF Submits, instanceVars
<1>2. inbox = << >> /\ outbox = << >>
  BY <1>1, NoneYet DEF StateTypes
<1>3. inbox' = ms
  BY <1>1, <1>2, ConcatEmptySeq
<1>4. DOMAIN outbox' = {}
  BY <1>1, <1>2, NoPositions
<1>5. PageOneAtATime'
  BY <1>3 DEF PageOneAtATime, Say
<1>6. RoomShown'
  BY <1>1, <1>3, <1>4 DEF RoomShown, InInbox, Say
<1> QED
  BY <1>5, <1>6

LEMMA UserShown ==
    ASSUME MaxQueue = 0, StateTypes, PageOneAtATime, RoomShown, UserStep
    PROVE  PageOneAtATime' /\ RoomShown'
<1>1. ASSUME NEW m \in FromPage, Submits(<<m>>), m.cmd # "logout", screen' \in {"loading", "rooms", "chat"},
             m.cmd = "room.invite.generate" \/ screen' = "chat" => screen = "chat"
      PROVE  PageOneAtATime' /\ RoomShown'
  <2>1. <<m>> \in Seq(FromPage) /\ DOMAIN <<m>> = {1} /\ <<m>>[1] = m
    BY OneElement
  <2>2. screen = "chat" => room.stage # "none"
    BY <1>1 DEF RoomShown, Submits
  <2>3. m.cmd = "room.invite.generate" => room.stage # "none"
    BY <1>1, <2>2
  <2>4. screen' = "chat" => room.stage # "none"
    BY <1>1, <2>2
  <2>5. screen' # "unload"
    BY <1>1
  <2> QED
    BY <1>1, <2>1, <2>3, <2>4, <2>5, SubmitShown
<1>2. ASSUME NEW u \in Users, NEW p \in Passwords, SubmitLogin(u, p)
      PROVE  PageOneAtATime' /\ RoomShown'
  <2>1. Login(u, p) \in FromPage /\ Login(u, p).cmd = "login"
    BY FromPageParts DEF Login, Logins
  <2> QED
    BY <1>1, <1>2, <2>1 DEF SubmitLogin, Sends
<1>3. CASE SubmitAgain
  <2>1. typed \in FromPage /\ typed.cmd = "login"
    BY <1>3, FromPageParts DEF SubmitAgain, StateTypes
  <2> QED
    BY <1>1, <1>3, <2>1 DEF SubmitAgain
<1>4. ASSUME NEW r \in Rooms, ClickRoom(r) \/ JoinRoom(r)
      PROVE  PageOneAtATime' /\ RoomShown'
  <2>1. \A m \in {[cmd |-> "room.open", room |-> r], [cmd |-> "room.open_by_invite", room |-> r]} :
            m \in FromPage /\ m.cmd \in {"room.open", "room.open_by_invite"}
    BY DEF FromPage
  <2> QED
    BY <1>1, <1>4, <2>1 DEF ClickRoom, JoinRoom, Sends, pageVars
<1>5. CASE CreateRoom \/ ChatInput \/ ChatInvite
  <2>1. \A m \in {[cmd |-> "room.create"], Say, [cmd |-> "room.invite.generate"]} :
            m \in FromPage /\ m.cmd # "logout"
    BY DEF FromPage, Say
  <2>2. [cmd |-> "room.create"].cmd = "room.create" /\ Say.cmd = "room.message.send"
    BY DEF Say
  <2> QED
    BY <1>1, <1>5, <2>1, <2>2 DEF CreateRoom, ChatInput, ChatInvite, Sends, pageVars
<1>6. CASE ShowRooms
  <2>1. /\ status = "up" /\ screen = "chat" /\ screen' = "rooms"
        /\ UNCHANGED <<status, inbox, outbox, room>>
    BY <1>6 DEF ShowRooms, instanceVars, queueVars
  <2>2. PageOneAtATime'
    BY <2>1 DEF PageOneAtATime, Say
  <2>3. RoomShown'
    BY <2>1 DEF RoomShown, InInbox, Say
  <2> QED
    BY <2>2, <2>3
<1>7. CASE Logout
  <2>1. PICK bye : bye = [cmd |-> "logout"]
    OBVIOUS
  <2>2. bye \in FromPage /\ Say \in FromPage /\ bye.cmd = "logout" /\ Say.cmd # "logout"
        /\ Say.cmd # "room.invite.generate"
    BY <2>1 DEF FromPage, Say
  <2>3. /\ <<Say, bye>> \in Seq(FromPage) /\ DOMAIN <<Say, bye>> = {1, 2}
        /\ <<Say, bye>>[1] = Say /\ <<Say, bye>>[2] = bye
    BY <2>2, TwoElements
  <2>4. Submits(<<Say, bye>>) /\ screen' = "unload"
    BY <1>7, <2>1 DEF Logout, Sends
  <2>5. PICK ms : ms = <<Say, bye>>
    OBVIOUS
  <2>6. /\ ms \in Seq(FromPage) /\ Submits(ms)
        /\ \A i, j \in DOMAIN ms : ms[i] # Say /\ ms[j] # Say => i = j
        /\ \A i \in DOMAIN ms : ms[i].cmd = "logout" => screen' = "unload"
        /\ \A i \in DOMAIN ms : ms[i].cmd = "room.invite.generate" => room.stage # "none"
        /\ \E i \in DOMAIN ms : ms[i].cmd = "logout"
        /\ \A i \in DOMAIN ms : ms[i] = Say \/ ms[i].cmd = "logout"
    BY <2>2, <2>3, <2>4, <2>5
  <2> QED
    BY <2>4, <2>6, SubmitShown
<1> QED
  BY <1>2, <1>3, <1>4, <1>5, <1>6, <1>7, PageOK DEF UserStep

LEMMA PageShown ==
    ASSUME StateTypes, Structure, PageOneAtATime, RoomShown, PageStep
    PROVE  PageOneAtATime' /\ RoomShown'
<1>1. /\ outbox # << >> /\ outbox' = Tail(outbox)
      /\ UNCHANGED <<status, room>>
  BY DEF PageStep, OnChatList, OnOpenRoom, OnRemoveRoom, Receives, instanceVars
<1>2. status = "up"
  BY <1>1 DEF Structure, NobodyIn, SomebodyIn
<1>3. /\ Head(outbox) = outbox[1] /\ 1 \in DOMAIN outbox
      /\ \A i \in DOMAIN outbox' : i + 1 \in DOMAIN outbox /\ outbox'[i] = outbox[i + 1]
  BY <1>1, HeadAndTail DEF StateTypes
<1>4. CASE OnChatList
  <2>1. inbox' = inbox /\ screen' = IF screen = "unload" THEN "unload" ELSE "rooms"
    BY <1>4 DEF OnChatList, Shows
  <2>2. PageOneAtATime'
    BY <2>1 DEF PageOneAtATime, Say
  <2>3. RoomShown'
    BY <1>1, <1>2, <1>3, <2>1 DEF RoomShown, InInbox, Say
  <2> QED
    BY <2>2, <2>3
<1>5. CASE OnOpenRoom
  <2>1. /\ inbox' = Append(inbox, Say)
        /\ screen' = IF screen = "unload" THEN "unload" ELSE "chat"
        /\ Head(outbox).cmd = "open_room"
    BY <1>5 DEF OnOpenRoom, Shows, Receives
  <2>2. /\ DOMAIN inbox = 1 .. Len(inbox) /\ DOMAIN inbox' = 1 .. Len(inbox) + 1
        /\ \A i \in DOMAIN inbox : inbox'[i] = inbox[i]
        /\ inbox'[Len(inbox) + 1] = Say /\ Len(inbox) \in Nat
    BY <2>1, OneMore, FromPageParts DEF StateTypes
  <2>3. \A i \in DOMAIN inbox' : inbox'[i] = Say \/ (i \in DOMAIN inbox /\ inbox'[i] = inbox[i])
    BY <2>2
  <2>4. PageOneAtATime'
    BY <2>3 DEF PageOneAtATime, Say
  <2>5. \A cmd : cmd # "room.message.send" => (InInbox(cmd)' <=> InInbox(cmd))
    BY <2>2, <2>3 DEF InInbox, Say
  <2>6. room.stage # "none" \/ screen = "unload"
    BY <1>2, <1>3, <2>1 DEF RoomShown
  <2>7. \A i \in DOMAIN inbox' : inbox'[i] = Say \/ \E j \in DOMAIN inbox : inbox'[i] = inbox[j]
    BY <2>3
  <2>8. InInbox("logout")' => InInbox("logout")
    BY <2>5
  <2>9. InInbox("logout") => InInbox("logout")'
    BY <2>5
  <2>10. InInbox("room.invite.generate")' => InInbox("room.invite.generate")
    BY <2>5
  <2>11. \A i \in DOMAIN outbox' : \E j \in DOMAIN outbox : outbox'[i] = outbox[j]
    BY <1>3
  <2>12. RoomShown'
    <3>1. CASE screen = "unload"
      <4>1. \A i \in DOMAIN inbox' : inbox'[i] = Say \/ inbox'[i].cmd = "logout"
        BY <1>2, <2>7, <3>1 DEF RoomShown
      <4> QED
        BY <1>1, <1>2, <2>1, <2>8, <2>9, <2>10, <3>1, <4>1 DEF RoomShown, Say
    <3>2. CASE screen # "unload"
      BY <1>1, <1>2, <2>1, <2>6, <2>8, <2>10, <3>2 DEF RoomShown
    <3> QED
      BY <3>1, <3>2
  <2> QED
    BY <2>4, <2>12
<1>6. CASE OnRemoveRoom
  <2>1. UNCHANGED <<inbox, screen>>
    BY <1>6 DEF OnRemoveRoom
  <2> QED
    BY <1>1, <1>3, <2>1, ShownStays
<1> QED
  BY <1>4, <1>5, <1>6 DEF PageStep

LEMMA MainShown ==
    ASSUME StateTypes, Structure, PageOneAtATime, RoomShown, MainStep, UNCHANGED pageVars
    PROVE  PageOneAtATime' /\ RoomShown'
<1> USE DEF threadVars, instanceVars, queueVars, observed, pageVars
<1>1. ASSUME NEW cmd, Command(cmd)
      PROVE  /\ inbox # << >> /\ Head(inbox).cmd = cmd /\ status = "up"
             /\ Head(inbox) = inbox[1] /\ 1 \in DOMAIN inbox
             /\ cmd # "room.message.send" => Head(inbox) # Say
             /\ InInbox(cmd)
  BY <1>1, HeadAndTail DEF Command, MainIdle, StateTypes, Say, InInbox
<1>2. ASSUME NEW cmd, Command(cmd), inbox' = Tail(inbox), cmd # "logout",
             UNCHANGED <<status, outbox>>,
             room' = room \/ (room'.stage # "none" /\ cmd # "room.message.send")
      PROVE  PageOneAtATime' /\ RoomShown'
  <2>1. /\ PageOneAtATime'
        /\ \A i \in DOMAIN inbox' : i + 1 \in DOMAIN inbox /\ inbox'[i] = inbox[i + 1]
        /\ InInbox("logout")' => InInbox("logout")
        /\ InInbox("room.invite.generate")' => InInbox("room.invite.generate")
        /\ InInbox("logout") => InInbox("logout")'
    BY <1>1, <1>2, InboxRest
  <2>2. CASE room' = room
    <3>1. screen = "unload" => \A i \in DOMAIN inbox' : inbox'[i] = Say \/ inbox'[i].cmd = "logout"
      BY <1>1, <1>2, <2>1 DEF RoomShown
    <3> QED
      BY <1>1, <1>2, <2>1, <2>2, <3>1 DEF RoomShown, Say
  <2>3. CASE room'.stage # "none" /\ cmd # "room.message.send"
    <3>1. screen # "unload"
      BY <1>1, <1>2, <2>3 DEF RoomShown, Say
    <3> QED
      BY <1>1, <1>2, <2>1, <2>3, <3>1 DEF RoomShown
  <2> QED
    BY <1>2, <2>2, <2>3
<1>3. CASE HandleLogin
  BY <1>2, <1>3 DEF HandleLogin, TakeCommand
<1>4. CASE AssignStore \/ OldStoreGone
  <2>1. UNCHANGED <<status, inbox, outbox, screen, room>>
    BY <1>4 DEF AssignStore, OldStoreGone
  <2> QED
    BY <2>1, ShownStays
<1>5. CASE HandleLogout
  <2>1. /\ Command("logout") /\ inbox' = Tail(inbox) /\ room'.stage = "none"
        /\ UNCHANGED <<status, outbox>>
    BY <1>5 DEF HandleLogout, ReplaceRoom, TakeCommand, NoRoomObject, RoomObject
  <2>2. screen = "unload" /\ Head(inbox) # Say /\ inbox # << >>
    BY <1>1, <2>1 DEF RoomShown
  <2>3. PageOneAtATime' /\ \A i \in DOMAIN inbox' : inbox'[i] = Say
    BY <2>1, <2>2, InboxRest
  <2>4. ~InInbox("room.invite.generate")'
    BY <2>3 DEF InInbox, Say
  <2>5. RoomShown'
    BY <1>1, <2>1, <2>2, <2>3, <2>4 DEF RoomShown, Say
  <2> QED
    BY <2>3, <2>5
<1>6. ASSUME NEW cmd, NEW stage, NEW r, stage # "none",
             cmd \notin {"logout", "room.message.send"}, ReplaceRoom(cmd, RoomObject(stage, r))
      PROVE  PageOneAtATime' /\ RoomShown'
  <2>1. Command(cmd) /\ inbox' = Tail(inbox) /\ UNCHANGED <<status, outbox>> /\ room'.stage # "none"
    BY <1>6 DEF ReplaceRoom, TakeCommand, RoomObject
  <2> QED
    BY <1>2, <1>6, <2>1
<1>7. CASE HandleCreate \/ HandleOpenByInvite
  BY <1>6, <1>7 DEF HandleCreate, HandleOpenByInvite
<1>8. CASE HandleOpen
  <2>1. PICK r : r = Head(inbox).room
    OBVIOUS
  <2>2. PICK stage : stage = IF r \in KeyedIn(userData) THEN "opening" ELSE "dead"
    OBVIOUS
  <2>3. ReplaceRoom("room.open", RoomObject(stage, r)) /\ stage # "none"
    BY <1>8, <2>1, <2>2 DEF HandleOpen
  <2> QED
    BY <1>6, <2>3
<1>9. CASE HandleSay
  <2>1. CASE room.stage = "joining"
    <3>1. Down("no key")
      BY <1>9, <2>1 DEF HandleSay
    <3> QED
      BY <3>1, DownShown
  <2>2. CASE room.stage # "joining"
    BY <1>2, <1>9, <2>2 DEF HandleSay, TakeCommand
  <2> QED
    BY <2>1, <2>2
<1>10. CASE HandleGenerateInvite
  <2>1. room.stage # "none" /\ Command("room.invite.generate")
    BY <1>1, <1>10 DEF HandleGenerateInvite, RoomShown
  <2> QED
    BY <1>2, <1>10, <2>1 DEF HandleGenerateInvite, TakeCommand
<1> QED
  BY <1>3, <1>4, <1>5, <1>7, <1>8, <1>9, <1>10 DEF MainStep

LEMMA AnswerShown ==
    ASSUME StateTypes, PageOneAtATime, RoomShown, Answered, UNCHANGED pageVars
    PROVE  PageOneAtATime' /\ RoomShown'
<1>1. ASSUME MainIdle, room.stage # "none", NEW content, SaveAll(content),
             room'.stage # "none"
      PROVE  PageOneAtATime' /\ RoomShown'
  <2>1. status = "up" /\ UNCHANGED <<status, inbox, screen>>
    BY <1>1 DEF MainIdle, SaveAll, pageVars
  <2>2. PageOneAtATime'
    BY <2>1 DEF PageOneAtATime, Say
  <2>3. RoomShown'
    BY <1>1, <2>1 DEF RoomShown, InInbox, Say
  <2> QED
    BY <2>2, <2>3
<1>2. ASSUME NEW r, KeepRoom(r)
      PROVE  (\E content : SaveAll(content)) /\ room'.stage # "none"
  BY <1>2 DEF KeepRoom, RoomObject
<1>3. CASE OnRoomCreated \/ OnRoomOpened \/ OnAdmitted
  <2>1. MainIdle /\ room.stage # "none" /\ \E r : KeepRoom(r)
    BY <1>3 DEF OnRoomCreated, OnRoomOpened, OnAdmitted
  <2> QED
    BY <1>1, <1>2, <2>1
<1>4. CASE OnRoomNotExist
  <2>1. PICK content : content = [x \in DOMAIN userData \ {room.id} |-> userData[x]]
    OBVIOUS
  <2>2. MainIdle /\ room.stage # "none" /\ SaveAll(content) /\ room'.stage # "none"
    BY <1>4, <2>1 DEF OnRoomNotExist, RoomObject
  <2> QED
    BY <1>1, <2>2
<1>5. CASE OnEarlyFrame
  <2>1. Down("no key")
    BY <1>5 DEF OnEarlyFrame
  <2> QED
    BY <2>1, DownShown
<1> QED
  BY <1>3, <1>4, <1>5 DEF Answered

LEMMA FileShown ==
    ASSUME StateTypes, PageOneAtATime, RoomShown, NEW s \in Stores, FileStep(s), UNCHANGED pageVars
    PROVE  PageOneAtATime' /\ RoomShown'
<1> USE DEF instanceVars, queueVars, observed, pageVars
<1>1. ASSUME UNCHANGED <<status, inbox, room>>,
             outbox' = outbox \/ \E f \in Contents : Reports(s, f)
      PROVE  PageOneAtATime' /\ RoomShown'
  <2>1. ASSUME NEW f \in Contents, Reports(s, f)
        PROVE  \A i \in DOMAIN outbox' : outbox'[i].cmd = "open_room" =>
                   \E j \in DOMAIN outbox : outbox[j].cmd = "open_room"
    <3>1. PICK m : m = ChatList(f)
      OBVIOUS
    <3>2. m \in ToPage /\ m.cmd = "available_chat_list" /\ outbox' = Append(outbox, m)
      BY <2>1, <3>1, ToPageParts DEF Reports, Post
    <3>3. \A i \in DOMAIN outbox' : outbox'[i] = m \/ (i \in DOMAIN outbox /\ outbox'[i] = outbox[i])
      BY <3>2, OneMore DEF StateTypes
    <3> QED
      BY <3>2, <3>3
  <2> QED
    BY <1>1, <2>1, ShownStays
<1>2. ASSUME NEW cause \in {"no store", "freed", "race"}, Down(cause)
      PROVE  PageOneAtATime' /\ RoomShown'
  BY <1>2, DownShown
<1>3. CASE /\ OpenFileSystem(s) \/ LoadFile(s) \/ TruncateFile(s)
           /\ UNCHANGED <<status, instanceVars, queueVars, observed>>
  BY <1>1, <1>3
<1>4. CASE OnOpenError(s)
  BY <1>1, <1>4, EmptyContent DEF OnOpenError
<1>5. CASE OnOpen(s)
  BY <1>1, <1>2, <1>5 DEF OnOpen
<1>6. CASE OnOpenLoads(s)
  BY <1>1, <1>2, <1>6 DEF OnOpenLoads
<1>7. CASE OnLoad(s)
  <2>1. loaded[s] \in Contents
    BY <1>7 DEF OnLoad, StateTypes
  <2> QED
    BY <1>1, <1>7, <2>1 DEF OnLoad
<1>8. CASE OnLoadError(s)
  BY <1>1, <1>8, EmptyContent DEF OnLoadError
<1>9. CASE RaceCrash(s)
  BY <1>2, <1>9 DEF RaceCrash
<1>10. CASE OnSaved(s) \/ OnSaveError(s)
  BY <1>1, <1>10 DEF OnSaved, OnSaveError
<1> QED
  BY <1>3, <1>4, <1>5, <1>6, <1>7, <1>8, <1>9, <1>10 DEF FileStep

LEMMA ShownStep ==
    ASSUME MaxQueue = 0, StateTypes, Structure, PageOneAtATime, RoomShown, [Next]_vars
    PROVE  PageOneAtATime' /\ RoomShown'
<1> USE DEF vars, threadVars, instanceVars, queueVars, observed, pageVars
<1>1. CASE UNCHANGED vars
  BY <1>1, ShownStays
<1>2. CASE ClosePage
  <2>1. Down("closed")
    BY <1>2 DEF ClosePage
  <2> QED
    BY <2>1, DownShown
<1>3. CASE Reload
  <2>1. status # "up" /\ screen' = "auth" /\ UNCHANGED <<inbox, outbox, room>> /\ status' = "up"
    BY <1>3 DEF Reload
  <2>2. inbox = << >> /\ outbox = << >>
    BY <2>1 DEF Structure, SomebodyIn, NobodyIn
  <2>3. DOMAIN inbox' = {} /\ DOMAIN outbox' = {}
    BY <2>1, <2>2, NoPositions
  <2> QED
    BY <2>1, <2>3 DEF PageOneAtATime, RoomShown, InInbox
<1> QED
  BY <1>1, <1>2, <1>3, UserShown, PageShown, MainShown, AnswerShown, FileShown DEF Next

-----------------------------------------------------------------------------
(* Who is not hasty loses nothing.                                         *)

LEMMA InitCalm == Init => Calm
<1> SUFFICES ASSUME Init
             PROVE  Calm
  OBVIOUS
<1>1. DOMAIN << >> = {}
  BY NoPositions
<1> USE DEF Init, FileStoreInit, InstanceInit, PageInit
<1>2. FilesOK
  BY DEF FilesOK, Kept
<1>3. SavesOK
  BY <1>1 DEF SavesOK
<1>4. Fresh0
  BY DEF Fresh0, QueuesEmpty, NoWork, Alone, NoRoomObject, RoomObject
<1> QED
  BY <1>2, <1>3, <1>4 DEF Calm, PhaseOK

LEMMA BeingWrittenIs ==
    ASSUME NEW u, NEW r
    PROVE  r \in BeingWritten(u) <=>
               \E s \in Stores : /\ at[s] = "truncated"
                                 /\ Head(tasks[s]).user = u
                                 /\ r \in KeyedIn(Head(tasks[s]).content)
  BY DEF BeingWritten

LEMMA DownCalm ==
    ASSUME StateTypes, FilesOK, NEW cause, cause \notin {"up", "race"}, Down(cause)
    PROVE  Calm'
<1>1. /\ files' = files /\ status' = cause /\ holds' = holds
      /\ promised' = [u \in Users |-> IF files[u] = Torn THEN {} ELSE promised[u]]
      /\ tasks' = [s \in Stores |-> << >>] /\ at' = [s \in Stores |-> "idle"]
  BY DEF Down, ThreadsDown
<1>2. \A s \in Stores : tasks'[s] = << >> /\ at'[s] = "idle"
  BY <1>1
<1>3. ASSUME NEW u \in Users, NEW r \in promised'[u]
      PROVE  r \in Kept(u)'
  <2>1. files[u] # Torn /\ r \in promised[u]
    BY <1>1, <1>3
  <2>2. r \notin BeingWritten(u)
    BY <2>1, BeingWrittenIs DEF FilesOK
  <2>3. r \in Kept(u)
    BY <2>1, <2>2 DEF FilesOK
  <2> QED
    BY <1>1, <2>3 DEF Kept
<1>4. \A u \in Users : Kept(u)' \subseteq holds'[u]
  BY <1>1 DEF FilesOK, Kept
<1>5. FilesOK'
  BY <1>2, <1>3, <1>4 DEF FilesOK
<1>6. SavesOK'
  BY <1>2, NoPositions DEF SavesOK
<1> QED
  BY <1>1, <1>5, <1>6 DEF Calm

(* What none of the steps below it touches.                                *)
SameFiles ==
    /\ UNCHANGED <<files, tasks, promised>>
    /\ \A s \in Stores : at'[s] = "truncated" => at[s] = "truncated"
    /\ \A s \in Stores : at[s] = "truncated" => at'[s] = "truncated"
    /\ \A u \in Users : holds[u] \subseteq holds'[u]

LEMMA FilesStay ==
    ASSUME FilesOK, SameFiles
    PROVE  FilesOK'
<1>1. \A u \in Users : Kept(u)' = Kept(u)
  BY DEF SameFiles, Kept
<1>2. ASSUME NEW u \in Users, NEW r \in BeingWritten(u)
      PROVE  r \in BeingWritten(u)'
  BY <1>2 DEF SameFiles, BeingWritten
<1>3. ASSUME NEW u \in Users
      PROVE  promised'[u] \subseteq Kept(u)' \cup BeingWritten(u)'
  BY <1>1, <1>2 DEF FilesOK, SameFiles
<1>4. \A u \in Users : Kept(u)' \subseteq holds'[u]
  BY <1>1 DEF FilesOK, SameFiles
<1>5. \A s \in Stores : at'[s] = "truncated" => files'[Head(tasks'[s]).user] = Torn
  BY DEF FilesOK, SameFiles
<1> QED
  BY <1>3, <1>4, <1>5 DEF FilesOK

SameUser ==
    /\ UNCHANGED <<userName, holds, promised, gone>>
    /\ Current' = Current
    /\ KeyedIn(userData)' = KeyedIn(userData)
    /\ \A s \in Stores : ready'[s] => ready[s]

LEMMA SavesStay ==
    ASSUME SavesOK, SameUser, tasks' = tasks
    PROVE  SavesOK'
<1>1. ASSUME NEW s \in Stores, NEW i \in DOMAIN tasks'[s], tasks'[s][i].op = "save"
      PROVE  SaveOK(s, i)'
  <2>1. SaveOK(s, i) /\ tasks'[s] = tasks[s]
    BY <1>1 DEF SavesOK
  <2>2. KeyedIn(tasks[s][i].content)' = KeyedIn(tasks[s][i].content)
        /\ \A j \in DOMAIN tasks[s] : KeyedIn(tasks[s][j].content)' = KeyedIn(tasks[s][j].content)
    BY DEF KeyedIn
  <2> QED
    BY <2>1, <2>2 DEF SaveOK, SameUser
<1> QED
  BY <1>1 DEF SavesOK

LEMMA CurrentStore ==
    ASSUME StateTypes, Structure, userName # NoUser
    PROVE  Current \in Stores
  BY DEF StateTypes, Structure, SomebodyIn, Current

LEMMA DataStays ==
    ASSUME StateTypes, Structure, userName # NoUser, DataOK, SameUser
    PROVE  DataOK'
<1>1. Current \in Stores
  BY CurrentStore
<1> QED
  BY <1>1 DEF DataOK, SameUser

(* Where a thread may be.                                                  *)
LEMMA LoginWork ==
    ASSUME StateTypes, Structure, Calm, NEW s \in Stores, NEW op, NEW place,
           Works(s, op, place), op # "save"
    PROVE  Opening /\ OpeningTask(s)
<1>1. tasks[s] # << >> /\ 1 \in DOMAIN tasks[s] /\ tasks[s][1].op # "save" /\ status = "up"
  BY WorkOf, WorkHasUser DEF SomebodyIn
<1>2. Opening
  BY <1>1 DEF Calm, PhaseOK, Fresh0, Submitted, Listing, Lost, InRooms, NoWork, OnlySaves
<1>3. PICK x \in Stores : OpeningTask(x)
  BY <1>2 DEF Opening
<1>4. x = s
  BY <1>1, <1>3 DEF OpeningTask
<1> QED
  BY <1>2, <1>3, <1>4

LEMMA SaveWork ==
    ASSUME StateTypes, Structure, Calm, NEW s \in Stores, NEW place, Works(s, "save", place)
    PROVE  /\ Submitted \/ InRooms
           /\ OnlySaves
           /\ SaveOK(s, 1) /\ s = Current
           /\ \A x \in Stores \ {s} : tasks[x] = << >>
<1>1. tasks[s] # << >> /\ 1 \in DOMAIN tasks[s] /\ tasks[s][1].op = "save" /\ status = "up"
  BY WorkOf, WorkHasUser DEF SomebodyIn
<1>2. ~Opening
  BY <1>1 DEF Opening, OpeningTask
<1>3. Submitted \/ InRooms
  BY <1>1, <1>2 DEF Calm, PhaseOK, Fresh0, Listing, Lost, NoWork
<1>4. OnlySaves
  BY <1>3 DEF Submitted, InRooms
<1>5. SaveOK(s, 1) /\ s = Current
  BY <1>1 DEF Calm, SavesOK, SaveOK
<1>6. ASSUME NEW x \in Stores \ {s}, tasks[x] # << >>
      PROVE  FALSE
  <2>1. 1 \in DOMAIN tasks[x]
    BY <1>6, HeadAndTail DEF StateTypes
  <2>2. SaveOK(x, 1)
    BY <1>4, <2>1 DEF OnlySaves, Calm, SavesOK
  <2> QED
    BY <1>5, <1>6, <2>2 DEF SaveOK
<1> QED
  BY <1>3, <1>4, <1>5, <1>6

LEMMA QuietCalm ==
    ASSUME Calm, UNCHANGED <<files, threadVars, instanceVars, promised, gone, holds>>,
           status' = "up", PhaseOK'
    PROVE  Calm'
<1> USE DEF threadVars, instanceVars
<1>1. FilesOK'
  BY FilesStay DEF Calm, SameFiles
<1>2. SameUser
  BY DEF SameUser, Current, KeyedIn
<1>3. SavesOK'
  BY <1>2, SavesStay DEF Calm
<1> QED
  BY <1>1, <1>3 DEF Calm

LEMMA InRoomsStays ==
    ASSUME InRooms, UNCHANGED <<threadVars, instanceVars, promised, gone, holds>>,
           screen' \in {"rooms", "chat", "unload"}, ~InInbox("login")',
           \A i \in DOMAIN outbox' : outbox'[i].cmd # "available_chat_list"
    PROVE  InRooms'
<1> USE DEF threadVars, instanceVars
<1>1. DataOK'
  BY DEF InRooms, DataOK, Current, KeyedIn
<1>2. OnlySaves'
  BY DEF InRooms, OnlySaves
<1> QED
  BY <1>1, <1>2 DEF InRooms

LEMMA SubmitQueues ==
    ASSUME MaxQueue = 0, StateTypes, NEW ms \in Seq(FromPage), Submits(ms)
    PROVE  /\ inbox = << >> /\ outbox = << >> /\ inbox' = ms /\ outbox' = << >>
           /\ status = "up" /\ status' = "up"
           /\ UNCHANGED <<files, threadVars, instanceVars, promised, gone, holds>>
<1>1. Len(inbox) + Len(outbox) <= 0
  BY DEF Submits
<1>2. inbox = << >> /\ outbox = << >>
  BY <1>1, NoneYet DEF StateTypes
<1>3. << >> \o ms = ms
  BY ConcatEmptySeq
<1> QED
  BY <1>2, <1>3 DEF Submits

LEMMA UserCalm ==
    ASSUME MaxQueue = 0, StateTypes, RoomShown, Calm, ~hasty', UserStep
    PROVE  Calm'
<1> USE DEF pageVars
<1>1. ASSUME NEW u \in Users, NEW p \in Passwords, SubmitLogin(u, p)
      PROVE  Calm'
  <2>1. PICK m : m = Login(u, p)
    OBVIOUS
  <2>2. m \in FromPage
    BY <2>1, FromPageParts DEF Login, Logins
  <2>3. Submits(<<m>>) /\ screen \in {"auth", "unload"} /\ screen' = "loading" /\ typed' = m
    BY <1>1, <2>1 DEF SubmitLogin, Sends
  <2>4. /\ inbox = << >> /\ outbox = << >> /\ inbox' = <<m>> /\ outbox' = << >>
        /\ status = "up" /\ status' = "up"
        /\ UNCHANGED <<files, threadVars, instanceVars, promised, gone, holds>>
    BY <2>2, <2>3, OneElement, SubmitQueues
  <2>5. Fresh0 \/ InRooms
    BY <2>3, <2>4 DEF Calm, PhaseOK, Submitted, Opening, Listing, Lost
  <2>6. Alone
    <3>1. CASE Fresh0
      BY <3>1 DEF Fresh0
    <3>2. CASE InRooms
      <4>1. screen = "unload" /\ ~InInbox("logout")
        BY <2>3, <2>4, <3>2, NoPositions DEF InRooms, InInbox
      <4> QED
        BY <2>4, <4>1 DEF RoomShown, Alone
    <3> QED
      BY <2>5, <3>1, <3>2
  <2>7. OnlySaves
    BY <2>5, NoPositions DEF Fresh0, NoWork, InRooms, OnlySaves
  <2>8. Submitted'
    BY <2>3, <2>4, <2>6, <2>7 DEF Submitted, Alone, OnlySaves, threadVars, instanceVars
  <2> QED
    BY <2>4, <2>8, QuietCalm DEF PhaseOK
<1>2. CASE SubmitAgain
  BY <1>2 DEF SubmitAgain
<1>3. ASSUME NEW ms \in Seq(FromPage), Submits(ms), \A i \in DOMAIN ms : ms[i].cmd # "login",
             screen \in {"rooms", "chat"}, screen' \in {"rooms", "chat", "unload"}
      PROVE  Calm'
  <2>1. /\ inbox' = ms /\ outbox' = << >> /\ status = "up" /\ status' = "up"
        /\ UNCHANGED <<files, threadVars, instanceVars, promised, gone, holds>>
    BY <1>3, SubmitQueues
  <2>2. InRooms
    BY <1>3, <2>1 DEF Calm, PhaseOK, Fresh0, Submitted, Opening, Listing, Lost
  <2>3. InRooms'
    BY <1>3, <2>1, <2>2, NoPositions, InRoomsStays DEF InInbox
  <2> QED
    BY <2>1, <2>3, QuietCalm DEF PhaseOK
<1>4. ASSUME NEW m \in FromPage, m.cmd # "login", Submits(<<m>>),
             screen \in {"rooms", "chat"}, screen' = screen
      PROVE  Calm'
  <2>1. <<m>> \in Seq(FromPage) /\ DOMAIN <<m>> = {1} /\ <<m>>[1] = m
    BY OneElement
  <2> QED
    BY <1>3, <1>4, <2>1
<1>5. ASSUME NEW r \in Rooms, ClickRoom(r) \/ JoinRoom(r)
      PROVE  Calm'
  <2>1. \A m \in {[cmd |-> "room.open", room |-> r], [cmd |-> "room.open_by_invite", room |-> r]} :
            m \in FromPage /\ m.cmd # "login"
    BY DEF FromPage
  <2> QED
    BY <1>4, <1>5, <2>1 DEF ClickRoom, JoinRoom, Sends
<1>6. CASE CreateRoom \/ ChatInput \/ ChatInvite
  <2>1. \A m \in {[cmd |-> "room.create"], Say, [cmd |-> "room.invite.generate"]} :
            m \in FromPage /\ m.cmd # "login"
    BY DEF FromPage, Say
  <2> QED
    BY <1>4, <1>6, <2>1 DEF CreateRoom, ChatInput, ChatInvite, Sends
<1>7. CASE ShowRooms
  <2>1. /\ status = "up" /\ status' = "up" /\ screen = "chat" /\ screen' = "rooms"
        /\ UNCHANGED <<inbox, outbox, files, threadVars, instanceVars, promised, gone, holds>>
    BY <1>7 DEF ShowRooms, queueVars, observed
  <2>2. InRooms
    BY <2>1 DEF Calm, PhaseOK, Fresh0, Submitted, Opening, Listing, Lost
  <2>3. ~InInbox("login")' /\ \A i \in DOMAIN outbox' : outbox'[i].cmd # "available_chat_list"
    BY <2>1, <2>2 DEF InRooms, InInbox
  <2>4. InRooms'
    BY <2>1, <2>2, <2>3, InRoomsStays
  <2> QED
    BY <2>1, <2>4, QuietCalm DEF PhaseOK
<1>8. CASE Logout
  <2>1. PICK bye : bye = [cmd |-> "logout"]
    OBVIOUS
  <2>2. bye \in FromPage /\ Say \in FromPage /\ bye.cmd # "login" /\ Say.cmd # "login"
    BY <2>1 DEF FromPage, Say
  <2>3. /\ <<Say, bye>> \in Seq(FromPage) /\ DOMAIN <<Say, bye>> = {1, 2}
        /\ <<Say, bye>>[1] = Say /\ <<Say, bye>>[2] = bye
    BY <2>2, TwoElements
  <2>4. PICK ms : ms = <<Say, bye>>
    OBVIOUS
  <2>5. /\ ms \in Seq(FromPage) /\ Submits(ms) /\ \A i \in DOMAIN ms : ms[i].cmd # "login"
        /\ screen \in {"rooms", "chat"} /\ screen' = "unload"
    BY <1>8, <2>1, <2>2, <2>3, <2>4 DEF Logout, Sends
  <2> QED
    BY <1>3, <2>5
<1> QED
  BY <1>1, <1>2, <1>5, <1>6, <1>7, <1>8, PageOK DEF UserStep

LEMMA PageCalm ==
    ASSUME StateTypes, Structure, Calm, PageStep
    PROVE  Calm'
<1>1. /\ outbox # << >> /\ outbox' = Tail(outbox)
      /\ UNCHANGED <<status, files, threadVars, instanceVars, promised, gone, holds>>
  BY DEF PageStep, OnChatList, OnOpenRoom, OnRemoveRoom, Receives, observed
<1>2. status = "up" /\ status' = "up" /\ userName # NoUser
  BY <1>1 DEF Structure, NobodyIn, SomebodyIn
<1>3. /\ Head(outbox) = outbox[1] /\ 1 \in DOMAIN outbox
      /\ \A i \in DOMAIN outbox' : i + 1 \in DOMAIN outbox /\ outbox'[i] = outbox[i + 1]
  BY <1>1, HeadAndTail DEF StateTypes
<1>4. Listing \/ InRooms
  BY <1>1, <1>2 DEF Calm, PhaseOK, Fresh0, Submitted, Opening, Lost, QueuesEmpty
<1>5. CASE Listing
  <2>1. Head(outbox).cmd = "available_chat_list"
    BY <1>3, <1>5 DEF Listing
  <2>2. inbox' = inbox /\ screen' = "rooms"
    BY <1>5, <2>1 DEF PageStep, OnChatList, OnOpenRoom, OnRemoveRoom, Receives, Shows, Listing
  <2>3. DOMAIN outbox' = {}
    <3>1. Tail(outbox) \in Seq(ToPage) /\ Len(Tail(outbox)) = 0
      BY <1>1, <1>5, HeadTailProperties DEF StateTypes, Listing
    <3> QED
      BY <1>1, <3>1, EmptySeq, NoPositions
  <2>4. ~InInbox("login")'
    BY <1>5, <2>2, NoPositions DEF InInbox, Listing
  <2>5. OnlySaves'
    BY <1>1, <1>5, NoPositions DEF Listing, NoWork, OnlySaves, threadVars
  <2>6. DataOK'
    BY <1>1, <1>5 DEF Listing, DataOK, Current, KeyedIn, threadVars, instanceVars
  <2>7. InRooms'
    BY <1>1, <1>2, <2>2, <2>3, <2>4, <2>5, <2>6 DEF InRooms, instanceVars
  <2> QED
    BY <1>1, <1>2, <2>7, QuietCalm DEF PhaseOK
<1>6. CASE InRooms
  <2>1. Head(outbox).cmd # "available_chat_list"
    BY <1>3, <1>6 DEF InRooms
  <2>2. screen' \in {"rooms", "chat", "unload"} /\ (inbox' = inbox \/ inbox' = Append(inbox, Say))
    BY <1>6, <2>1 DEF PageStep, OnChatList, OnOpenRoom, OnRemoveRoom, Receives, Shows, InRooms
  <2>3. ~InInbox("login")'
    <3>1. CASE inbox' = inbox
      BY <1>6, <3>1 DEF InRooms, InInbox
    <3>2. CASE inbox' = Append(inbox, Say)
      <4>1. \A i \in DOMAIN inbox' : inbox'[i] = Say \/ (i \in DOMAIN inbox /\ inbox'[i] = inbox[i])
        BY <3>2, OneMore, FromPageParts DEF StateTypes
      <4> QED
        BY <1>6, <4>1 DEF InRooms, InInbox, Say
    <3> QED
      BY <2>2, <3>1, <3>2
  <2>4. \A i \in DOMAIN outbox' : outbox'[i].cmd # "available_chat_list"
    BY <1>3, <1>6 DEF InRooms
  <2>5. InRooms'
    BY <1>1, <1>6, <2>2, <2>3, <2>4, InRoomsStays
  <2> QED
    BY <1>1, <1>2, <2>5, QuietCalm DEF PhaseOK
<1> QED
  BY <1>4, <1>5, <1>6

(* The main thread.                                                        *)
LEMMA PhaseStays ==
    ASSUME StateTypes, Structure, PhaseOK, SameUser,
           UNCHANGED <<screen, typed, inbox, outbox, room, files, tasks, at, loaded>>
    PROVE  PhaseOK'
<1> USE DEF Alone, QueuesEmpty
<1>1. NoWork' <=> NoWork
  BY DEF NoWork
<1>2. OnlySaves' <=> OnlySaves
  BY DEF OnlySaves
<1>3. CASE Fresh0
  BY <1>1, <1>3 DEF PhaseOK, Fresh0
<1>4. CASE Submitted
  BY <1>2, <1>4 DEF PhaseOK, Submitted
<1>5. CASE Opening
  <2>1. PICK s \in Stores : OpeningTask(s)
    BY <1>5 DEF Opening
  <2>2. OpeningTask(s)'
    BY <2>1 DEF OpeningTask, SameUser
  <2> QED
    BY <1>5, <2>2 DEF PhaseOK, Opening
<1>6. CASE Listing
  <2>1. Len(outbox) # Len(<< >>)
    BY <1>6 DEF Listing
  <2>2. userName # NoUser
    BY <2>1 DEF Structure, NobodyIn
  <2>3. DataOK'
    BY <1>6, <2>2, DataStays DEF Listing
  <2> QED
    BY <1>1, <1>6, <2>3 DEF PhaseOK, Listing
<1>7. CASE Lost
  BY <1>1, <1>7 DEF PhaseOK, Lost
<1>8. CASE InRooms
  <2>1. DataOK'
    BY <1>8, DataStays DEF InRooms
  <2>2. ~InInbox("login")' /\ userName' # NoUser
    BY <1>8 DEF InRooms, InInbox, SameUser
  <2>3. InRooms'
    BY <1>2, <1>8, <2>1, <2>2 DEF InRooms
  <2> QED
    BY <2>3 DEF PhaseOK
<1> QED
  BY <1>3, <1>4, <1>5, <1>6, <1>7, <1>8 DEF PhaseOK

LEMMA CalmStays ==
    ASSUME Calm, SameUser, SameFiles, status' = "up", PhaseOK'
    PROVE  Calm'
<1>1. FilesOK'
  BY FilesStay DEF Calm
<1>2. SavesOK'
  BY SavesStay DEF Calm, SameFiles
<1> QED
  BY <1>1, <1>2 DEF Calm

LEMMA RoomsCalm ==
    ASSUME StateTypes, Structure, Calm, InRooms, SameUser, SameFiles, status' = "up",
           screen' = screen, ~InInbox("login")',
           \A i \in DOMAIN outbox' : outbox'[i].cmd # "available_chat_list"
    PROVE  Calm'
<1>1. DataOK'
  BY DataStays DEF InRooms
<1>2. OnlySaves'
  BY DEF InRooms, OnlySaves, SameFiles
<1>3. InRooms'
  BY <1>1, <1>2 DEF InRooms, SameUser
<1> QED
  BY <1>3, CalmStays DEF PhaseOK

LEMMA LoginCalm ==
    ASSUME StateTypes, Structure, Calm, ~hasty', HandleLogin, UNCHANGED pageVars
    PROVE  Calm'
<1> USE DEF pageVars
<1>0. PICK fresh : fresh = Free
  OBVIOUS
<1>1. /\ status = "up" /\ made = NoStore /\ inbox # << >> /\ Head(inbox).cmd = "login"
      /\ inbox' = Tail(inbox) /\ userName' = Head(inbox).user /\ made' = fresh
      /\ StartStore(fresh, Head(inbox).user, Head(inbox).password)
      /\ UNCHANGED <<status, store, userData, room, outbox, promised, gone, holds, screen>>
  BY <1>0 DEF HandleLogin, Command, MainIdle, TakeCommand
<1>2. fresh \in Stores /\ loop[fresh] = "none"
  BY <1>0, FreeStore DEF HandleLogin, Command
<1>3. tasks[fresh] = << >> /\ at[fresh] = "idle" /\ ~ready[fresh]
  BY <1>2 DEF Structure, ThreadOK
<1>4. Head(inbox) = inbox[1] /\ 1 \in DOMAIN inbox /\ Head(inbox) \in FromPage
  BY <1>1, HeadAndTail DEF StateTypes
<1>5. Submitted
  BY <1>1, <1>4 DEF Calm, PhaseOK, Fresh0, Opening, Listing, Lost, InRooms, QueuesEmpty, InInbox
<1>6. NoWork
  BY DEF HandleLogin, NoWork
<1>7. \A s \in Stores : at[s] # "truncated"
  BY <1>6 DEF NoWork, Structure, ThreadOK
<1>8. PICK t : t = Task("open", Head(inbox).user, NoContent, fresh)
  OBVIOUS
<1>9. /\ tasks' = [tasks EXCEPT ![fresh] = <<t>>]
      /\ UNCHANGED <<files, ready, at, loaded>>
      /\ t.op = "open" /\ t.user = userName'
  BY <1>1, <1>8 DEF StartStore, Task
<1>10. /\ tasks'[fresh] = <<t>> /\ DOMAIN <<t>> = {1} /\ <<t>>[1] = t /\ Len(<<t>>) = 1
       /\ \A s \in Stores \ {fresh} : tasks'[s] = << >>
  BY <1>2, <1>6, <1>9, OneElement DEF StateTypes, NoWork
<1>11. FilesOK'
  <2>1. \A s \in Stores : at'[s] # "truncated"
    BY <1>7, <1>9
  <2>2. \A u \in Users : Kept(u)' = Kept(u) /\ BeingWritten(u) = {}
    BY <1>7, <1>9 DEF Kept, BeingWritten
  <2> QED
    BY <1>1, <2>1, <2>2 DEF Calm, FilesOK
<1>12. SavesOK'
  BY <1>9, <1>10, NoPositions DEF SavesOK
<1>13. Current' = fresh
  BY <1>1, <1>2, StoresOK DEF Current
<1>14. OpeningTask(fresh)'
  BY <1>2, <1>3, <1>9, <1>10, <1>13 DEF OpeningTask
<1>15. QueuesEmpty'
  <2>1. Tail(inbox) = << >>
    BY <1>5, OneElement DEF Submitted
  <2> QED
    BY <1>1, <1>5, <2>1 DEF Submitted, QueuesEmpty
<1>16. Opening'
  BY <1>1, <1>2, <1>5, <1>14, <1>15 DEF Opening, Submitted, Alone
<1> QED
  BY <1>1, <1>11, <1>12, <1>16 DEF Calm, PhaseOK

LEMMA MainCalm ==
    ASSUME StateTypes, Structure, PageOneAtATime, Calm, ~hasty', MainStep, UNCHANGED pageVars
    PROVE  Calm'
<1> USE DEF threadVars, instanceVars, queueVars, observed, pageVars
<1>1. ASSUME status = "up", status' = "up", Current' = Current, \A s \in Stores : ready'[s] => ready[s],
             UNCHANGED <<queueVars, userName, userData, room, files, tasks, at, loaded, promised, gone, holds>>
      PROVE  Calm'
  <2>1. SameUser /\ SameFiles
    BY <1>1 DEF SameUser, SameFiles, KeyedIn
  <2> QED
    BY <1>1, <2>1, PhaseStays, CalmStays DEF Calm
<1>2. CASE AssignStore
  <2>1. Current' = Current
    BY <1>2 DEF AssignStore, Current
  <2> QED
    BY <1>1, <1>2, <2>1 DEF AssignStore
<1>3. CASE OldStoreGone
  <2>1. PICK s \in Stores : JoinStore(s)
    BY <1>3 DEF OldStoreGone
  <2>2. /\ \A x \in Stores : ready'[x] => ready[x]
        /\ UNCHANGED <<files, tasks, at, loaded>>
    BY <2>1 DEF JoinStore, StateTypes
  <2>3. Current' = Current
    BY <1>3 DEF OldStoreGone, Current
  <2> QED
    BY <1>1, <1>3, <2>2, <2>3 DEF OldStoreGone
<1>4. ASSUME NEW cmd, Command(cmd), cmd # "login", TakeCommand,
             UNCHANGED <<status, files, threadVars, made, store, userName, outbox, promised, gone, holds>>,
             KeyedIn(userData)' = KeyedIn(userData)
      PROVE  Calm'
  <2>1. /\ status = "up" /\ inbox # << >> /\ Head(inbox).cmd = cmd /\ inbox' = Tail(inbox)
    BY <1>4 DEF Command, MainIdle, TakeCommand
  <2>2. /\ Head(inbox) = inbox[1] /\ 1 \in DOMAIN inbox
        /\ InInbox("login")' => InInbox("login")
    BY <2>1, InboxRest
  <2>3. ~Submitted
    BY <1>4, <2>1, <2>2, FromPageParts DEF Submitted, StateTypes
  <2>4. InRooms
    BY <2>1, <2>3 DEF Calm, PhaseOK, Fresh0, Opening, Listing, Lost, QueuesEmpty
  <2>5. SameUser /\ SameFiles
    BY <1>4 DEF SameUser, SameFiles, Current
  <2>6. ~InInbox("login")' /\ \A i \in DOMAIN outbox' : outbox'[i].cmd # "available_chat_list"
    BY <1>4, <2>2, <2>4 DEF InRooms
  <2> QED
    BY <1>4, <2>1, <2>4, <2>5, <2>6, RoomsCalm
<1>5. CASE HandleLogout \/ HandleCreate \/ HandleOpenByInvite
  <2>1. PICK cmd \in {"logout", "room.create", "room.open_by_invite"} :
            Command(cmd) /\ \E object : ReplaceRoom(cmd, object)
    BY <1>5 DEF HandleLogout, HandleCreate, HandleOpenByInvite, ReplaceRoom
  <2>2. userData' = userData
    BY <1>5 DEF HandleLogout, HandleCreate, HandleOpenByInvite
  <2>3. KeyedIn(userData)' = KeyedIn(userData)
    BY <2>2 DEF KeyedIn
  <2> QED
    BY <1>4, <2>1, <2>3 DEF ReplaceRoom
<1>6. CASE HandleOpen
  <2>1. PICK r : r = Head(inbox).room
    OBVIOUS
  <2>2. Command("room.open") /\ \E object : ReplaceRoom("room.open", object)
    BY <1>6 DEF HandleOpen, ReplaceRoom
  <2>3. userData' = LoadRoom(r)
    BY <1>6, <2>1 DEF HandleOpen
  <2>4. r \in Rooms
    BY <2>1, <2>2, HeadAndTail, FromPageParts DEF Command, StateTypes
  <2>5. KeyedIn(userData)' = KeyedIn(userData)
    <3>1. KeyedIn(userData)' = KeyedIn(LoadRoom(r))
      BY <2>3 DEF KeyedIn
    <3> QED
      BY <2>4, <3>1, LoadRoomContent DEF StateTypes
  <2> QED
    BY <1>4, <2>2, <2>5 DEF ReplaceRoom
<1>7. CASE HandleSay \/ HandleGenerateInvite
  <2>1. CASE \E cause \in {"no key", "no room"} : Down(cause)
    BY <2>1, DownCalm DEF Calm
  <2>2. CASE \A cause \in {"no key", "no room"} : ~Down(cause)
    <3>1. PICK cmd \in {"room.message.send", "room.invite.generate"} :
              /\ Command(cmd) /\ TakeCommand
              /\ UNCHANGED <<status, files, threadVars, instanceVars, outbox, observed>>
      BY <1>7, <2>2 DEF HandleSay, HandleGenerateInvite
    <3>2. KeyedIn(userData)' = KeyedIn(userData)
      BY <3>1 DEF KeyedIn
    <3> QED
      BY <1>4, <3>1, <3>2
  <2> QED
    BY <2>1, <2>2
<1>8. CASE HandleLogin
  BY <1>8, LoginCalm
<1> QED
  BY <1>2, <1>3, <1>5, <1>6, <1>7, <1>8 DEF MainStep

(* The server's answers: each puts another save behind those before it.    *)
LEMMA RoomOpenInRooms ==
    ASSUME StateTypes, Structure, Calm, MainIdle, room.stage # "none"
    PROVE  /\ InRooms /\ DataOK /\ userName \in Users
           /\ store \in Stores /\ Current = store /\ status = "up"
<1>1. status = "up" /\ InRooms
  BY DEF MainIdle, Calm, PhaseOK, Fresh0, Submitted, Opening, Listing, Lost, Alone
<1>2. userName \in Users /\ store \in Stores /\ made = NoStore
  BY RoomHasUser
<1> QED
  BY <1>1, <1>2 DEF InRooms, Current

LEMMA SaveCalm ==
    ASSUME StateTypes, Structure, ReadOK, Calm, MainIdle, room.stage # "none", screen' = screen,
           NEW f \in Contents, SaveAll(f),
           NEW m \in ToPage, m.cmd # "available_chat_list", Post(m),
           gone \subseteq gone',
           \A u \in Users : promised'[u] \subseteq promised[u] /\ holds[u] \subseteq holds'[u],
           KeyedIn(userData) \ gone' \subseteq KeyedIn(f),
           ready[store] => /\ KeyedIn(f) \subseteq holds'[userName]
                           /\ promised'[userName] \subseteq KeyedIn(f)
    PROVE  Calm'
<1>1. /\ InRooms /\ DataOK /\ userName \in Users
      /\ store \in Stores /\ Current = store /\ status = "up"
  BY RoomOpenInRooms
<1>2. PICK t : t = Task("save", userName, f, store)
  OBVIOUS
<1>3. t \in TaskSet /\ t.op = "save" /\ t.user = userName /\ t.content = f
  BY <1>1, <1>2, TaskParts DEF Task
<1>4. PICK st \in Stores : st = store
  BY <1>1
<1>5. /\ tasks' = [tasks EXCEPT ![st] = Append(@, t)]
      /\ userData' = f
      /\ UNCHANGED <<status, files, ready, at, made, store, userName, inbox>>
  BY <1>2, <1>4, SaveStructure DEF SaveAll
<1>6. PICK n \in Nat : n = Len(tasks[st])
  BY LenProperties DEF StateTypes
<1>7. /\ DOMAIN tasks[st] = 1 .. n /\ DOMAIN tasks'[st] = 1 .. n + 1
      /\ \A i \in DOMAIN tasks[st] : tasks'[st][i] = tasks[st][i]
      /\ tasks'[st][n + 1] = t
      /\ tasks[st] # << >> => Head(tasks'[st]) = Head(tasks[st])
      /\ \A s \in Stores \ {st} : tasks'[s] = tasks[s]
  BY <1>3, <1>5, <1>6, OneMore DEF StateTypes
<1>8. \A s \in Stores : at[s] = "truncated" => Head(tasks'[s]) = Head(tasks[s])
  BY <1>7 DEF Structure, ThreadOK
<1>9. FilesOK'
  <2>1. \A u \in Users : Kept(u)' = Kept(u)
    BY <1>5 DEF Kept
  <2>2. ASSUME NEW u \in Users, NEW r \in BeingWritten(u)
        PROVE  r \in BeingWritten(u)'
    <3>1. PICK s \in Stores : /\ at[s] = "truncated" /\ Head(tasks[s]).user = u
                              /\ r \in KeyedIn(Head(tasks[s]).content)
      BY <2>2, BeingWrittenIs
    <3>2. at'[s] = "truncated" /\ Head(tasks'[s]) = Head(tasks[s])
      BY <1>5, <1>8, <3>1
    <3> QED
      BY <3>1, <3>2 DEF BeingWritten
  <2>3. \A u \in Users : promised'[u] \subseteq Kept(u)' \cup BeingWritten(u)'
    BY <2>1, <2>2 DEF Calm, FilesOK
  <2>4. \A u \in Users : Kept(u)' \subseteq holds'[u]
    BY <2>1 DEF Calm, FilesOK
  <2>5. \A s \in Stores : at'[s] = "truncated" => files'[Head(tasks'[s]).user] = Torn
    BY <1>5, <1>8 DEF Calm, FilesOK
  <2> QED
    BY <2>3, <2>4, <2>5 DEF FilesOK
<1>10. Current' = Current
  BY <1>5 DEF Current
<1>11. KeyedIn(userData)' = KeyedIn(f)
  BY <1>5 DEF KeyedIn
<1>12. ASSUME NEW s \in Stores, NEW i \in DOMAIN tasks'[s], tasks'[s][i].op = "save"
       PROVE  SaveOK(s, i)'
  <2>1. CASE s = st /\ i = n + 1
    <3>1. KeyedIn(tasks[s][i].content)' = KeyedIn(f)
      BY <1>3, <1>7, <2>1 DEF KeyedIn
    <3>2. \A j \in DOMAIN tasks'[s] : ~(i < j)
      BY <1>7, <2>1
    <3> QED
      BY <1>1, <1>3, <1>4, <1>5, <1>7, <1>10, <1>11, <2>1, <3>1, <3>2 DEF SaveOK
  <2>2. CASE i \in DOMAIN tasks[s] /\ tasks'[s][i] = tasks[s][i]
    <3>1. SaveOK(s, i)
      BY <1>12, <2>2 DEF Calm, SavesOK
    <3>2. PICK kept : kept = KeyedIn(tasks[s][i].content)
      OBVIOUS
    <3>3. KeyedIn(tasks[s][i].content)' = kept
      BY <2>2, <3>2 DEF KeyedIn
    <3>4. s = Current' /\ tasks'[s][i].user = userName'
      BY <1>5, <1>10, <2>2, <3>1 DEF SaveOK
    <3>5. ASSUME ready[s]
          PROVE  /\ kept \subseteq holds'[userName'] /\ promised'[userName'] \subseteq kept
                 /\ kept \ gone' \subseteq KeyedIn(userData)'
                 /\ \A j \in DOMAIN tasks'[s] : i < j =>
                        kept \ gone' \subseteq KeyedIn(tasks[s][j].content)'
      <4>1. /\ kept \subseteq holds[userName] /\ promised[userName] \subseteq kept
            /\ kept \ gone \subseteq KeyedIn(userData)
            /\ \A j \in DOMAIN tasks[s] : i < j => kept \ gone \subseteq KeyedIn(tasks[s][j].content)
        BY <3>1, <3>2, <3>5 DEF SaveOK
      <4>2. kept \ gone' \subseteq KeyedIn(f)
        BY <4>1
      <4>3. ASSUME NEW j \in DOMAIN tasks'[s], i < j
            PROVE  kept \ gone' \subseteq KeyedIn(tasks[s][j].content)'
        <5>1. CASE j \in DOMAIN tasks[s] /\ tasks'[s][j] = tasks[s][j]
          <6>1. KeyedIn(tasks[s][j].content)' = KeyedIn(tasks[s][j].content)
            BY <5>1 DEF KeyedIn
          <6> QED
            BY <4>1, <4>3, <5>1, <6>1
        <5>2. CASE s = st /\ j = n + 1
          <6>1. KeyedIn(tasks[s][j].content)' = KeyedIn(f)
            BY <1>3, <1>7, <5>2 DEF KeyedIn
          <6> QED
            BY <4>2, <6>1
        <5> QED
          BY <1>7, <5>1, <5>2
      <4> QED
        BY <1>1, <1>5, <1>11, <4>1, <4>2, <4>3
    <3> QED
      BY <1>5, <3>3, <3>4, <3>5 DEF SaveOK
  <2>3. i \in DOMAIN tasks[s] \/ i = n + 1
    BY <1>7
  <2> QED
    BY <1>7, <2>1, <2>2, <2>3
<1>13. SavesOK'
  BY <1>12 DEF SavesOK
<1>14. DataOK'
  BY <1>1, <1>5, <1>10, <1>11 DEF DataOK
<1>15. OnlySaves'
  <2>1. ASSUME NEW s \in Stores, NEW i \in DOMAIN tasks'[s]
        PROVE  tasks'[s][i].op = "save"
    <3>1. (s = st /\ i = n + 1) \/ (i \in DOMAIN tasks[s] /\ tasks'[s][i] = tasks[s][i])
      BY <1>7
    <3> QED
      BY <1>1, <1>3, <1>7, <3>1 DEF InRooms, OnlySaves
  <2> QED
    BY <2>1 DEF OnlySaves
<1>16. \A i \in DOMAIN outbox' : outbox'[i].cmd # "available_chat_list"
  <2>1. \A i \in DOMAIN outbox' : outbox'[i] = m \/ (i \in DOMAIN outbox /\ outbox'[i] = outbox[i])
    BY OneMore DEF StateTypes, Post
  <2> QED
    BY <1>1, <2>1 DEF InRooms
<1>17. InRooms'
  BY <1>1, <1>5, <1>14, <1>15, <1>16 DEF InRooms, InInbox
<1> QED
  BY <1>1, <1>5, <1>9, <1>13, <1>17 DEF Calm, PhaseOK

LEMMA AnswerCalm ==
    ASSUME StateTypes, Structure, ReadOK, Calm, Answered, UNCHANGED pageVars
    PROVE  Calm'
<1>1. CASE OnEarlyFrame
  <2>1. Down("no key")
    BY <1>1 DEF OnEarlyFrame
  <2> QED
    BY <2>1, DownCalm DEF Calm
<1>2. ASSUME MainIdle, room.stage # "none", NEW r \in Rooms, KeepRoom(r)
      PROVE  Calm'
  <2>1. /\ DataOK /\ userName \in Users /\ Current = store
    BY <1>2, RoomOpenInRooms
  <2>2. PICK f : f = Entered(userData, r, "keys")
    OBVIOUS
  <2>3. f \in Contents /\ KeyedIn(f) = KeyedIn(userData) \cup {r}
    BY <2>2, EnteredContent DEF StateTypes
  <2>4. PICK m : m = [cmd |-> "open_room"]
    OBVIOUS
  <2>5. m \in ToPage /\ m.cmd # "available_chat_list"
    BY <2>4, ToPageParts
  <2>6. /\ SaveAll(f) /\ Post(m) /\ UNCHANGED <<promised, gone>>
        /\ holds' = [holds EXCEPT ![userName] = @ \cup {r}]
    BY <1>2, <2>2, <2>4 DEF KeepRoom
  <2>7. \A u \in Users : promised'[u] \subseteq promised[u] /\ holds[u] \subseteq holds'[u]
    BY <2>6 DEF StateTypes
  <2>8. holds'[userName] = holds[userName] \cup {r}
    BY <2>1, <2>6 DEF StateTypes
  <2>9. ready[store] => /\ KeyedIn(f) \subseteq holds'[userName]
                        /\ promised'[userName] \subseteq KeyedIn(f)
    BY <2>1, <2>3, <2>6, <2>8 DEF DataOK
  <2> QED
    BY <1>2, <2>3, <2>5, <2>6, <2>7, <2>9, SaveCalm DEF pageVars
<1>3. CASE OnRoomCreated
  <2>1. PICK r : r \in Rooms /\ KeepRoom(r)
    BY <1>3 DEF OnRoomCreated, Fresh
  <2> QED
    BY <1>2, <1>3, <2>1 DEF OnRoomCreated
<1>4. CASE OnRoomOpened \/ OnAdmitted
  <2>1. MainIdle /\ room.stage \in {"opening", "joining"} /\ KeepRoom(room.id)
    BY <1>4 DEF OnRoomOpened, OnAdmitted
  <2>2. PICK r \in Rooms : r = room.id
    BY <2>1 DEF StateTypes
  <2> QED
    BY <1>2, <2>1, <2>2
<1>5. CASE OnRoomNotExist
  <2>1. MainIdle /\ room.stage = "opening"
    BY <1>5 DEF OnRoomNotExist
  <2>2. /\ DataOK /\ userName \in Users /\ Current = store
    BY <2>1, RoomOpenInRooms
  <2>3. PICK r \in Rooms : r = room.id
    BY <2>1 DEF StateTypes
  <2>4. PICK f : f = Without(userData, r)
    OBVIOUS
  <2>5. f \in Contents /\ KeyedIn(f) = KeyedIn(userData) \ {r}
    BY <2>4, WithoutContent DEF StateTypes
  <2>6. PICK m : m = [cmd |-> "remove_room", room |-> r]
    OBVIOUS
  <2>7. m \in ToPage /\ m.cmd # "available_chat_list"
    BY <2>6, ToPageParts
  <2>8. /\ SaveAll(f) /\ Post(m) /\ holds' = holds
        /\ gone' = gone \cup {r}
        /\ promised' = [promised EXCEPT ![userName] = @ \ {r}]
    BY <1>5, <2>3, <2>4, <2>6 DEF OnRoomNotExist, Without
  <2>9. /\ \A u \in Users : promised'[u] \subseteq promised[u] /\ holds[u] \subseteq holds'[u]
        /\ promised'[userName] = promised[userName] \ {r}
    BY <2>2, <2>8 DEF StateTypes
  <2>10. ready[store] => /\ KeyedIn(f) \subseteq holds'[userName]
                         /\ promised'[userName] \subseteq KeyedIn(f)
    BY <2>2, <2>5, <2>8, <2>9 DEF DataOK
  <2>11. gone \subseteq gone' /\ KeyedIn(userData) \ gone' \subseteq KeyedIn(f)
    BY <2>5, <2>8
  <2> QED
    BY <2>1, <2>5, <2>7, <2>8, <2>9, <2>10, <2>11, SaveCalm DEF pageVars
<1> QED
  BY <1>1, <1>3, <1>4, <1>5 DEF Answered

(* The file thread, opening and loading for a login: nothing else is       *)
(* going on.                                                               *)
LEMMA OpeningCalm ==
    ASSUME StateTypes, Structure, Calm, Opening,
           UNCHANGED <<files, holds>>, status' = "up",
           \A u \in Users : promised'[u] \subseteq promised[u],
           \A x \in Stores : at'[x] = "truncated" => at[x] = "truncated",
           \A x \in Stores : \A i \in DOMAIN tasks'[x] : tasks'[x][i].op # "save",
           PhaseOK'
    PROVE  Calm'
<1>1. PICK s \in Stores : OpeningTask(s)
  BY DEF Opening
<1>2. ASSUME NEW x \in Stores
      PROVE  at[x] # "truncated"
  <2>1. CASE x = s
    <3>1. tasks[s] # << >> => Head(tasks[s]) = tasks[s][1]
      BY HeadAndTail DEF StateTypes
    <3> QED
      BY <1>1, <2>1, <3>1 DEF OpeningTask, Structure, ThreadOK
  <2>2. CASE x # s
    BY <1>1, <2>2 DEF OpeningTask, Structure, ThreadOK
  <2> QED
    BY <2>1, <2>2
<1>3. \A u \in Users : Kept(u)' = Kept(u) /\ BeingWritten(u) = {}
  BY <1>2 DEF Kept, BeingWritten
<1>4. FilesOK'
  BY <1>2, <1>3 DEF Calm, FilesOK
<1>5. SavesOK'
  BY DEF SavesOK
<1> QED
  BY <1>4, <1>5 DEF Calm

LEMMA LoginTask ==
    ASSUME StateTypes, NEW s \in Stores, OpeningTask(s)
    PROVE  /\ tasks[s] # << >> /\ Head(tasks[s]) = tasks[s][1] /\ Tail(tasks[s]) = << >>
           /\ DOMAIN tasks[s] = {1}
<1>1. tasks[s] \in Seq(TaskSet) /\ Len(tasks[s]) = 1
  BY DEF OpeningTask, StateTypes
<1>2. tasks[s] # << >> /\ Len(Tail(tasks[s])) = 0 /\ Tail(tasks[s]) \in Seq(TaskSet)
  BY <1>1, EmptySeq, HeadTailProperties
<1>3. DOMAIN tasks[s] = 1 .. 1
  BY <1>1, LenProperties
<1> QED
  BY <1>1, <1>2, <1>3, HeadAndTail, EmptySeq

(* The thread goes on with the login's task.                               *)
LEMMA LoginGoesOn ==
    ASSUME StateTypes, Structure, Calm, Opening, NEW s \in Stores, OpeningTask(s),
           UNCHANGED <<files, tasks, made, store, userName, room, inbox, outbox, screen, promised, holds>>,
           status' = "up",
           \A x \in Stores \ {s} : at'[x] = at[x],
           at'[s] \in {"opened", "posting", "loaded"},
           at'[s] = "loaded" /\ loaded'[s] # NoContent =>
              files[userName] \notin {NoFile, Torn} /\ files[userName].content = loaded'[s]
    PROVE  Calm'
<1>1. OpeningTask(s)'
  BY DEF OpeningTask, Current
<1>2. Opening'
  BY <1>1 DEF Opening, Alone, QueuesEmpty
<1>3. DOMAIN tasks[s] = {1}
  BY LoginTask
<1>4. \A x \in Stores : \A i \in DOMAIN tasks'[x] : tasks'[x][i].op # "save"
  BY <1>3, NoPositions DEF OpeningTask
<1>5. \A x \in Stores : at'[x] = "truncated" => at[x] = "truncated"
  OBVIOUS
<1> QED
  BY <1>2, <1>4, <1>5, OpeningCalm DEF PhaseOK

(* It ends it, and the page gets its list.                                 *)
LEMMA LoginEnds ==
    ASSUME StateTypes, Structure, Calm, Opening, NEW s \in Stores, OpeningTask(s),
           EndTask(s), NEW f \in Contents, Post(ChatList(f)),
           UNCHANGED <<files, made, store, userName, room, inbox, screen, holds>>, status' = "up",
           \A u \in Users : promised'[u] \subseteq promised[u],
           DataOK'
    PROVE  Calm'
<1>1. \A x \in Stores : tasks'[x] = << >>
  BY LoginTask DEF EndTask, OpeningTask, StateTypes
<1>2. \A x \in Stores : at'[x] = "truncated" => at[x] = "truncated"
  BY DEF EndTask, Proceeds, StateTypes
<1>3. PICK m : m = ChatList(f)
  OBVIOUS
<1>4. m.cmd = "available_chat_list" /\ m \in ToPage
  BY <1>3, ToPageParts
<1>5. outbox' = <<m>>
  BY <1>3 DEF Post, Opening, QueuesEmpty
<1>6. Len(<<m>>) = 1 /\ <<m>>[1] = m
  BY <1>4, OneElement
<1>7. Listing'
  BY <1>1, <1>4, <1>5, <1>6 DEF Opening, QueuesEmpty, Listing, Alone, NoWork
<1> QED
  BY <1>1, <1>2, <1>7, NoPositions, OpeningCalm DEF PhaseOK

LEMMA KeptAlone ==
    ASSUME StateTypes, Structure, Calm, Opening, NEW u \in Users
    PROVE  promised[u] \subseteq Kept(u) /\ Kept(u) \subseteq holds[u]
<1>1. PICK s \in Stores : OpeningTask(s)
  BY DEF Opening
<1>2. \A x \in Stores : at[x] # "truncated"
  BY <1>1, LoginTask DEF OpeningTask, Structure, ThreadOK
<1>3. BeingWritten(u) = {}
  BY <1>2 DEF BeingWritten
<1> QED
  BY <1>3 DEF Calm, FilesOK

LEMMA PostsLoadCalm ==
    ASSUME StateTypes, Structure, Calm, NEW s \in Stores, PostsLoad(s), status = "up",
           UNCHANGED <<status, instanceVars, inbox, outbox, promised, holds, screen>>
    PROVE  Calm'
<1> USE DEF instanceVars
<1>1. Works(s, "open", "posting")
  BY DEF PostsLoad
<1>2. Opening /\ OpeningTask(s)
  BY <1>1, LoginWork
<1>3. /\ tasks[s] # << >> /\ Head(tasks[s]) = tasks[s][1] /\ Tail(tasks[s]) = << >>
      /\ Head(tasks[s]).user = userName /\ at[s] = "posting"
  BY <1>1, <1>2, LoginTask DEF OpeningTask, Works
<1>4. PICK t \in Stores : t = target[s]
  BY <1>1 DEF Works, Structure, ThreadOK
<1>5. PICK load : load = Task("load", userName, NoContent, s)
  OBVIOUS
<1>6. load.op = "load" /\ load.user = userName
  BY <1>5 DEF Task
<1>7. PICK rest : rest = [tasks EXCEPT ![s] = << >>]
  OBVIOUS
<1>8. /\ tasks' = IF loop[t] = "running" THEN [rest EXCEPT ![t] = Append(@, load)] ELSE rest
      /\ at' = [at EXCEPT ![s] = "idle"]
      /\ UNCHANGED <<files, loop, ready, loaded>>
  BY <1>3, <1>4, <1>5, <1>7 DEF PostsLoad, Proceeds
<1>9. \A x \in Stores : rest[x] = << >>
  BY <1>2, <1>7 DEF OpeningTask, StateTypes
<1>10. DOMAIN rest = Stores
  BY <1>7 DEF StateTypes
<1>11. \A x \in Stores : at'[x] = "truncated" => at[x] = "truncated"
  BY <1>8 DEF StateTypes
<1>12. CASE loop[t] = "running"
  <2>1. Append(<< >>, load) = <<load>> /\ DOMAIN <<load>> = {1} /\ <<load>>[1] = load /\ Len(<<load>>) = 1
    OBVIOUS
  <2>2. tasks'[t] = <<load>> /\ \A x \in Stores \ {t} : tasks'[x] = << >>
    BY <1>8, <1>9, <1>10, <1>12, <2>1
  <2>3. at'[t] = "idle"
    <3>1. CASE t = s
      BY <1>8, <3>1 DEF StateTypes
    <3>2. CASE t # s
      BY <1>2, <1>8, <3>2 DEF OpeningTask, Structure, ThreadOK
    <3> QED
      BY <3>1, <3>2
  <2>4. OpeningTask(t)'
    BY <1>6, <2>1, <2>2, <2>3 DEF OpeningTask
  <2>5. Opening'
    BY <1>2, <2>4 DEF Opening, Alone, QueuesEmpty
  <2>6. \A x \in Stores : \A i \in DOMAIN tasks'[x] : tasks'[x][i].op # "save"
    BY <1>6, <2>1, <2>2, NoPositions
  <2> QED
    BY <1>2, <1>8, <1>11, <2>5, <2>6, OpeningCalm DEF PhaseOK
<1>13. CASE loop[t] # "running"
  <2>1. \A x \in Stores : tasks'[x] = << >>
    BY <1>8, <1>9, <1>13
  <2>2. Lost'
    BY <1>2, <2>1 DEF Opening, Lost, NoWork, Alone, QueuesEmpty
  <2> QED
    BY <1>2, <1>8, <1>11, <2>1, <2>2, NoPositions, OpeningCalm DEF PhaseOK
<1> QED
  BY <1>12, <1>13

LEMMA OpenCalm ==
    ASSUME StateTypes, Structure, Calm, NEW s \in Stores, status = "up", UNCHANGED pageVars,
           \/ OpenFileSystem(s) /\ UNCHANGED <<status, instanceVars, queueVars, observed>>
           \/ OnOpenError(s)
           \/ OnOpen(s)
           \/ OnOpenLoads(s)
    PROVE  Calm'
<1> USE DEF instanceVars, queueVars, observed, pageVars
<1>1. CASE OpenFileSystem(s) /\ UNCHANGED <<status, instanceVars, queueVars, observed>>
  <2>1. Opening /\ OpeningTask(s)
    BY <1>1, LoginWork DEF OpenFileSystem
  <2>2. at'[s] = "opened" /\ \A x \in Stores \ {s} : at'[x] = at[x]
    BY <1>1 DEF OpenFileSystem, Proceeds, StateTypes
  <2> QED
    BY <1>1, <2>1, <2>2, LoginGoesOn DEF OpenFileSystem
<1>2. CASE OnOpenError(s)
  <2>1. Opening /\ OpeningTask(s) /\ at[s] = "idle" /\ tasks[s][1].op = "open"
    BY <1>2, LoginWork, LoginTask DEF OnOpenError, OpenFails, Works
  <2>2. UNCHANGED <<ready, made, store>> /\ s = Current /\ ~ready[s]
    BY <1>2, <2>1 DEF OnOpenError, OpenFails, OpeningTask
  <2>3. DataOK'
    BY <2>2 DEF DataOK, Current
  <2> QED
    BY <1>2, <2>1, <2>3, EmptyContent, LoginEnds DEF OnOpenError, OpenFails, Reports
<1>3. CASE OnOpen(s)
  <2>1. CASE store = NoStore
    BY <1>3, <2>1, DownCalm DEF OnOpen, Calm
  <2>2. CASE store # NoStore
    <3>1. ReadsTarget(s, store) /\ UNCHANGED <<status, instanceVars, queueVars, observed>>
      BY <1>3, <2>2 DEF OnOpen
    <3>2. Opening /\ OpeningTask(s)
      BY <3>1, LoginWork DEF ReadsTarget
    <3>3. at'[s] = "posting" /\ \A x \in Stores \ {s} : at'[x] = at[x]
      BY <3>1 DEF ReadsTarget, Proceeds, StateTypes
    <3> QED
      BY <3>1, <3>2, <3>3, LoginGoesOn DEF ReadsTarget
  <2> QED
    BY <2>1, <2>2
<1>4. CASE OnOpenLoads(s)
  <2>1. CASE Down("freed")
    BY <2>1, DownCalm DEF Calm
  <2>2. CASE ~Down("freed")
    BY <1>4, <2>2, PostsLoadCalm DEF OnOpenLoads
  <2> QED
    BY <2>1, <2>2
<1> QED
  BY <1>1, <1>2, <1>3, <1>4

LEMMA LoadCalm ==
    ASSUME StateTypes, Structure, Calm, NEW s \in Stores, status = "up", UNCHANGED pageVars,
           \/ LoadFile(s) /\ UNCHANGED <<status, instanceVars, queueVars, observed>>
           \/ OnLoad(s)
           \/ OnLoadError(s)
           \/ RaceCrash(s)
    PROVE  Calm'
<1> USE DEF instanceVars, queueVars, observed, pageVars
<1>1. Opening /\ OpeningTask(s)
  BY LoginWork DEF LoadFile, OnLoad, OnLoadError, EndLoad, RaceCrash
<1>2. /\ tasks[s] # << >> /\ Head(tasks[s]) = tasks[s][1] /\ Head(tasks[s]).user = userName
      /\ userName \in Users
  <2>1. tasks[s] # << >> /\ Head(tasks[s]) = tasks[s][1]
    BY <1>1, LoginTask
  <2>2. Head(tasks[s]).user \in Users
    BY <2>1, HeadAndTail, TaskParts DEF StateTypes
  <2> QED
    BY <1>1, <2>1, <2>2 DEF OpeningTask
<1>3. promised[userName] \subseteq Kept(userName) /\ Kept(userName) \subseteq holds[userName]
  BY <1>1, <1>2, KeptAlone
<1>4. CASE LoadFile(s) /\ UNCHANGED <<status, instanceVars, queueVars, observed>>
  <2>1. PICK content \in Readings(s, userName) : loaded' = [loaded EXCEPT ![s] = content]
    BY <1>2, <1>4 DEF LoadFile
  <2>2. at'[s] = "loaded" /\ \A x \in Stores \ {s} : at'[x] = at[x]
    BY <1>4 DEF LoadFile, Proceeds, StateTypes
  <2>3. loaded'[s] = content
    BY <2>1 DEF StateTypes
  <2>4. content # NoContent => files[userName] \notin {NoFile, Torn} /\ files[userName].content = content
    BY <2>1 DEF Readings
  <2> QED
    BY <1>1, <1>4, <2>2, <2>3, <2>4, LoginGoesOn DEF LoadFile
<1>5. CASE OnLoad(s)
  <2>1. at[s] = "loaded" /\ loaded[s] # NoContent /\ loaded[s] \in Contents
    BY <1>5 DEF OnLoad, EndLoad, Works, StateTypes
  <2>2. Kept(userName) = KeyedIn(loaded[s])
    BY <1>1, <2>1 DEF OpeningTask, Kept
  <2>3. userData' = loaded[s] /\ UNCHANGED <<userName, holds, promised>>
    BY <1>5 DEF OnLoad
  <2>4. KeyedIn(userData)' = KeyedIn(loaded[s])
    BY <2>3 DEF KeyedIn
  <2>5. DataOK'
    BY <1>3, <2>2, <2>3, <2>4 DEF DataOK
  <2> QED
    BY <1>1, <1>5, <2>1, <2>5, LoginEnds DEF OnLoad, EndLoad, Reports
<1>6. CASE OnLoadError(s)
  <2>1. /\ userData' = NoRooms /\ UNCHANGED <<userName, holds>>
        /\ promised' = [promised EXCEPT ![userName] = {}]
    BY <1>2, <1>6 DEF OnLoadError
  <2>2. promised'[userName] = {} /\ \A u \in Users : promised'[u] \subseteq promised[u]
    BY <1>2, <2>1 DEF StateTypes
  <2>3. KeyedIn(userData)' = {}
    BY <2>1, EmptyContent DEF KeyedIn
  <2>4. DataOK'
    BY <2>1, <2>2, <2>3 DEF DataOK
  <2> QED
    BY <1>1, <1>6, <2>2, <2>4, EmptyContent, LoginEnds DEF OnLoadError, EndLoad, Reports
<1>7. CASE RaceCrash(s)
  <2>1. ~TouchesData
    BY <1>1 DEF TouchesData, Command, Opening, Alone, QueuesEmpty
  <2>2. \A x \in Stores \ {s} : ~Works(x, "load", "loaded")
    BY <1>1 DEF Works, OpeningTask
  <2> QED
    BY <1>7, <2>1, <2>2 DEF RaceCrash
<1> QED
  BY <1>4, <1>5, <1>6, <1>7

(* The file thread, saving: there is one who saves, for who is logged in.  *)
LEMMA OneWriter ==
    ASSUME StateTypes, Structure, Calm, NEW s \in Stores, NEW place, Works(s, "save", place)
    PROVE  /\ \A x \in Stores \ {s} : at[x] # "truncated"
           /\ \A u \in Users : u # userName => BeingWritten(u) = {}
           /\ at[s] # "truncated" => BeingWritten(userName) = {}
           /\ Head(tasks[s]) = tasks[s][1] /\ Head(tasks[s]).user = userName /\ userName \in Users
           /\ Head(tasks[s]).content \in Contents
<1>1. SaveOK(s, 1) /\ \A x \in Stores \ {s} : tasks[x] = << >>
  BY SaveWork
<1>2. \A x \in Stores \ {s} : at[x] # "truncated"
  BY <1>1 DEF Structure, ThreadOK
<1>3. /\ Head(tasks[s]) = tasks[s][1] /\ Head(tasks[s]).user = userName /\ userName \in Users
      /\ Head(tasks[s]).content \in Contents
  BY <1>1, WorkOf DEF SaveOK
<1> QED
  BY <1>2, <1>3 DEF BeingWritten

LEMMA SavingGoesOn ==
    ASSUME StateTypes, Structure, Calm, Submitted \/ InRooms,
           UNCHANGED <<status, screen, typed, inbox, outbox, room, userName>>,
           FilesOK', SavesOK', OnlySaves', InRooms => DataOK', status = "up"
    PROVE  Calm'
<1>1. CASE Submitted
  BY <1>1 DEF Submitted, Calm, PhaseOK, Alone
<1>2. CASE InRooms
  <2>1. InRooms'
    BY <1>2 DEF InRooms, InInbox
  <2> QED
    BY <2>1 DEF Calm, PhaseOK
<1> QED
  BY <1>1, <1>2

LEMMA TruncateCalm ==
    ASSUME StateTypes, Structure, Calm, NEW s \in Stores, TruncateFile(s), status = "up",
           UNCHANGED <<status, instanceVars, queueVars, observed, pageVars>>
    PROVE  Calm'
<1> USE DEF instanceVars, queueVars, observed, pageVars
<1>1. /\ Works(s, "save", "idle") /\ at[s] = "idle" /\ ready[s]
      /\ files' = [files EXCEPT ![Head(tasks[s]).user] = Torn]
      /\ at' = [at EXCEPT ![s] = "truncated"]
      /\ UNCHANGED <<tasks, ready>>
  BY DEF TruncateFile, Proceeds, Works
<1>2. /\ Submitted \/ InRooms
      /\ OnlySaves /\ SaveOK(s, 1)
  BY <1>1, SaveWork
<1>3. /\ \A x \in Stores \ {s} : at[x] # "truncated"
      /\ \A u \in Users : BeingWritten(u) = {}
      /\ Head(tasks[s]) = tasks[s][1] /\ Head(tasks[s]).user = userName /\ userName \in Users
  BY <1>1, OneWriter
<1>4. /\ files'[userName] = Torn
      /\ \A u \in Users \ {userName} : files'[u] = files[u]
      /\ at'[s] = "truncated" /\ \A x \in Stores \ {s} : at'[x] = at[x]
  BY <1>1, <1>3 DEF StateTypes
<1>5. \A r \in promised[userName] : r \in BeingWritten(userName)'
  <2>1. \A r \in promised[userName] : r \in KeyedIn(Head(tasks[s]).content)
    BY <1>1, <1>2, <1>3 DEF SaveOK
  <2>2. KeyedIn(Head(tasks[s]).content)' = KeyedIn(Head(tasks[s]).content)
    BY <1>1 DEF KeyedIn
  <2> QED
    BY <1>1, <1>3, <1>4, <2>1, <2>2 DEF BeingWritten
<1>6. ASSUME NEW u \in Users, u # userName
      PROVE  /\ promised'[u] \subseteq Kept(u)' /\ Kept(u)' \subseteq holds'[u]
  <2>1. Kept(u)' = Kept(u)
    BY <1>4, <1>6 DEF Kept
  <2> QED
    BY <1>3, <2>1 DEF Calm, FilesOK
<1>7. Kept(userName)' = {}
  BY <1>4 DEF Kept
<1>8. FilesOK'
  <2>1. \A u \in Users : promised'[u] \subseteq Kept(u)' \cup BeingWritten(u)'
    BY <1>5, <1>6
  <2>2. \A u \in Users : Kept(u)' \subseteq holds'[u]
    BY <1>6, <1>7
  <2>3. \A x \in Stores : at'[x] = "truncated" => files'[Head(tasks'[x]).user] = Torn
    BY <1>1, <1>3, <1>4
  <2> QED
    BY <2>1, <2>2, <2>3 DEF FilesOK
<1>9. SameUser
  BY <1>1 DEF SameUser, Current, KeyedIn
<1>10. SavesOK'
  BY <1>1, <1>9, SavesStay DEF Calm
<1>11. OnlySaves'
  BY <1>1, <1>2 DEF OnlySaves
<1>12. InRooms => DataOK'
  BY <1>9, DataStays DEF InRooms
<1> QED
  BY <1>2, <1>8, <1>10, <1>11, <1>12, SavingGoesOn

(* The saves behind it move up.                                            *)
LEMMA TailSaves ==
    ASSUME StateTypes, Structure, Calm, NEW s \in Stores, NEW place, Works(s, "save", place),
           tasks' = [tasks EXCEPT ![s] = Tail(@)],
           UNCHANGED <<made, store, userName, userData, ready, gone, holds>>,
           ready[s] => promised'[userName] \subseteq
                           promised[userName] \cup (KeyedIn(Head(tasks[s]).content) \ gone)
    PROVE  SavesOK' /\ OnlySaves' /\ (InRooms => DataOK')
<1>1. /\ OnlySaves /\ SaveOK(s, 1) /\ s = Current
      /\ \A x \in Stores \ {s} : tasks[x] = << >>
  BY SaveWork
<1>2. tasks[s] \in Seq(TaskSet) /\ tasks[s] # << >> /\ Head(tasks[s]) = tasks[s][1] /\ 1 \in DOMAIN tasks[s]
  BY WorkOf
<1>3. /\ \A i \in DOMAIN tasks'[s] : i \in Nat /\ i + 1 \in DOMAIN tasks[s] /\ tasks'[s][i] = tasks[s][i + 1]
      /\ \A x \in Stores \ {s} : tasks'[x] = << >>
  BY <1>1, <1>2, HeadAndTail DEF StateTypes
<1>4. \A i \in DOMAIN tasks[s] : i \in Nat \ {0}
  BY <1>2, LenProperties
<1>5. \A i \in DOMAIN tasks'[s] : i \in Nat \ {0}
  <2>1. Tail(tasks[s]) \in Seq(TaskSet) /\ tasks'[s] = Tail(tasks[s])
    BY <1>2, HeadTailProperties DEF StateTypes
  <2> QED
    BY <2>1, LenProperties
<1>6. OnlySaves'
  <2>1. \A i \in DOMAIN tasks'[s] : tasks'[s][i].op = "save"
    BY <1>1, <1>3 DEF OnlySaves
  <2> QED
    BY <1>3, <2>1, NoPositions DEF OnlySaves
<1>7. PICK first : first = KeyedIn(tasks[s][1].content)
  OBVIOUS
<1>8. ready[s] => /\ promised'[userName] \subseteq first \cup promised[userName]
                  /\ promised'[userName] \subseteq promised[userName] \cup (first \ gone)
                  /\ promised[userName] \subseteq first
                  /\ first \ gone \subseteq KeyedIn(userData)
                  /\ \A j \in DOMAIN tasks[s] : 1 < j => first \ gone \subseteq KeyedIn(tasks[s][j].content)
  BY <1>1, <1>2, <1>7 DEF SaveOK
<1>9. Current' = Current /\ KeyedIn(userData)' = KeyedIn(userData)
  BY DEF Current, KeyedIn
<1>10. ASSUME NEW i \in DOMAIN tasks'[s]
       PROVE  SaveOK(s, i)'
  <2>1. PICK k : k = i + 1
    OBVIOUS
  <2>2. k \in DOMAIN tasks[s] /\ 1 < k /\ tasks'[s][i] = tasks[s][k] /\ i \in Nat
    BY <1>3, <1>5, <2>1
  <2>3. SaveOK(s, k)
    BY <1>1, <2>2 DEF OnlySaves, Calm, SavesOK
  <2>4. PICK kept : kept = KeyedIn(tasks[s][k].content)
    OBVIOUS
  <2>5. KeyedIn(tasks[s][i].content)' = kept
    BY <2>2, <2>4 DEF KeyedIn
  <2>6. ASSUME ready[s]
        PROVE  /\ kept \subseteq holds[userName] /\ promised'[userName] \subseteq kept
               /\ kept \ gone \subseteq KeyedIn(userData)
    <3>1. /\ kept \subseteq holds[userName] /\ promised[userName] \subseteq kept
          /\ kept \ gone \subseteq KeyedIn(userData)
      BY <2>3, <2>4, <2>6 DEF SaveOK
    <3>2. first \ gone \subseteq kept
      BY <1>8, <2>2, <2>4, <2>6
    <3> QED
      BY <1>8, <2>6, <3>1, <3>2
  <2>7. ASSUME ready[s], NEW j \in DOMAIN tasks'[s], i < j
        PROVE  kept \ gone \subseteq KeyedIn(tasks[s][j].content)'
    <3>1. PICK l : l = j + 1
      OBVIOUS
    <3>2. l \in DOMAIN tasks[s] /\ tasks'[s][j] = tasks[s][l] /\ k < l
      BY <1>3, <1>5, <2>1, <2>2, <2>7, <3>1
    <3>3. KeyedIn(tasks[s][j].content)' = KeyedIn(tasks[s][l].content)
      BY <3>2 DEF KeyedIn
    <3> QED
      BY <2>3, <2>4, <2>7, <3>2, <3>3 DEF SaveOK
  <2>8. s = Current' /\ tasks'[s][i].user = userName'
    BY <1>9, <2>2, <2>3 DEF SaveOK
  <2> QED
    BY <1>9, <2>5, <2>6, <2>7, <2>8 DEF SaveOK
<1>11. SavesOK'
  BY <1>3, <1>10, NoPositions DEF SavesOK
<1>12. ASSUME InRooms
       PROVE  DataOK'
  <2>1. DataOK /\ (ready[Current]' => ready[s])
    BY <1>1, <1>9, <1>12 DEF InRooms
  <2> QED
    BY <1>1, <1>8, <1>9, <2>1 DEF DataOK
<1> QED
  BY <1>6, <1>11, <1>12

LEMMA SavedCalm ==
    ASSUME StateTypes, Structure, Calm, NEW s \in Stores, status = "up", UNCHANGED pageVars,
           OnSaved(s) \/ OnSaveError(s)
    PROVE  Calm'
<1> USE DEF instanceVars, queueVars, observed, pageVars
<1>1. PICK place : Works(s, "save", place) /\ place \in {"idle", "truncated"}
  BY DEF OnSaved, WriteFile, OnSaveError, SaveNotOpened, LeaveTorn
<1>2. /\ Submitted \/ InRooms
      /\ SaveOK(s, 1)
  BY <1>1, SaveWork
<1>3. /\ \A x \in Stores \ {s} : at[x] # "truncated"
      /\ \A u \in Users : u # userName => BeingWritten(u) = {}
      /\ at[s] # "truncated" => BeingWritten(userName) = {}
      /\ Head(tasks[s]) = tasks[s][1] /\ Head(tasks[s]).user = userName /\ userName \in Users
      /\ Head(tasks[s]).content \in Contents
  BY <1>1, OneWriter
<1>4. /\ tasks' = [tasks EXCEPT ![s] = Tail(@)] /\ at' = [at EXCEPT ![s] = "idle"]
      /\ UNCHANGED <<ready, status, instanceVars, queueVars, gone, holds>>
  BY DEF OnSaved, WriteFile, OnSaveError, SaveNotOpened, LeaveTorn, EndTask, Proceeds
<1>5. \A x \in Stores : at'[x] # "truncated"
  BY <1>3, <1>4 DEF StateTypes
<1>6. PICK task \in TaskSet : task = Head(tasks[s])
  BY <1>1, WorkOf
<1>7. task.user = userName /\ task.content \in Contents
  BY <1>3, <1>6
<1>8. ASSUME ready[s] => promised'[userName] \subseteq
                             promised[userName] \cup (KeyedIn(task.content) \ gone),
             promised'[userName] \subseteq Kept(userName)', Kept(userName)' \subseteq holds[userName],
             \A u \in Users \ {userName} : promised'[u] = promised[u] /\ files'[u] = files[u]
      PROVE  Calm'
  <2>1. ASSUME NEW u \in Users
        PROVE  promised'[u] \subseteq Kept(u)' /\ Kept(u)' \subseteq holds'[u]
    <3>1. CASE u = userName
      BY <1>4, <1>8, <3>1
    <3>2. CASE u # userName
      <4>1. Kept(u)' = Kept(u) /\ promised'[u] = promised[u] /\ BeingWritten(u) = {}
        BY <1>3, <1>8, <3>2 DEF Kept
      <4> QED
        BY <1>4, <4>1 DEF Calm, FilesOK
    <3> QED
      BY <3>1, <3>2
  <2>2. FilesOK'
    BY <1>5, <2>1 DEF FilesOK
  <2>3. SavesOK' /\ OnlySaves' /\ (InRooms => DataOK')
    BY <1>1, <1>4, <1>6, <1>8, TailSaves
  <2> QED
    BY <1>2, <1>4, <2>2, <2>3, SavingGoesOn
<1>9. CASE OnSaved(s)
  <2>1. PICK sealed : sealed = [password |-> password[s], content |-> task.content]
    OBVIOUS
  <2>2. /\ Works(s, "save", "truncated")
        /\ files' = [files EXCEPT ![userName] = sealed]
        /\ promised' = [promised EXCEPT ![userName] = @ \cup (KeyedIn(task.content) \ gone)]
    BY <1>6, <1>7, <1>9, <2>1 DEF OnSaved, WriteFile
  <2>3. ready[s]
    BY <2>2 DEF Works, Structure, ThreadOK
  <2>4. sealed \in Sealed /\ sealed \notin {NoFile, Torn} /\ sealed.content = task.content
    BY <1>7, <2>1, NullsOK DEF Sealed, StateTypes
  <2>5. /\ files'[userName] = sealed
        /\ promised'[userName] = promised[userName] \cup (KeyedIn(task.content) \ gone)
        /\ \A u \in Users \ {userName} : promised'[u] = promised[u] /\ files'[u] = files[u]
    BY <1>3, <2>2 DEF StateTypes
  <2>6. Kept(userName)' = KeyedIn(task.content)
    BY <1>4, <2>4, <2>5 DEF Kept, KeyedIn
  <2>7. promised[userName] \subseteq KeyedIn(task.content) /\ KeyedIn(task.content) \subseteq holds[userName]
    BY <1>2, <1>3, <1>6, <2>3 DEF SaveOK
  <2> QED
    BY <1>8, <2>5, <2>6, <2>7
<1>10. CASE OnSaveError(s)
  <2>1. files' = files
    BY <1>10 DEF OnSaveError, SaveNotOpened, LeaveTorn
  <2>2. Kept(userName)' = Kept(userName) /\ Kept(userName) \subseteq holds[userName]
    BY <1>3, <1>4, <2>1 DEF Kept, Calm, FilesOK
  <2>3. CASE SaveNotOpened(s) /\ UNCHANGED observed
    <3>1. at[s] = "idle"
      BY <2>3 DEF SaveNotOpened, Works
    <3>2. promised[userName] \subseteq Kept(userName)
      BY <1>3, <3>1 DEF Calm, FilesOK
    <3> QED
      BY <1>8, <2>1, <2>2, <2>3, <3>2
  <2>4. CASE promised' = [promised EXCEPT ![Head(tasks[s]).user] = {}]
    <3>1. promised'[userName] = {} /\ \A u \in Users \ {userName} : promised'[u] = promised[u]
      BY <1>3, <2>4 DEF StateTypes
    <3> QED
      BY <1>8, <2>1, <2>2, <3>1
  <2> QED
    BY <1>10, <2>3, <2>4 DEF OnSaveError
<1> QED
  BY <1>9, <1>10

LEMMA FileCalm ==
    ASSUME StateTypes, Structure, Calm, NEW s \in Stores, FileStep(s), UNCHANGED pageVars
    PROVE  Calm'
<1>1. tasks[s] # << >>
  BY DEF FileStep, OpenFileSystem, LoadFile, TruncateFile, OnOpenError, OpenFails, OnOpen, ReadsTarget,
         OnOpenLoads, PostsLoad, OnLoad, OnLoadError, EndLoad, RaceCrash, OnSaved, WriteFile,
         OnSaveError, SaveNotOpened, LeaveTorn, Works
<1>2. status = "up"
  BY <1>1, WorkHasUser DEF SomebodyIn
<1> QED
  BY <1>2, OpenCalm, LoadCalm, TruncateCalm, SavedCalm DEF FileStep

LEMMA CalmStep ==
    ASSUME MaxQueue = 0, StateTypes, Structure, ReadOK, PageOneAtATime, RoomShown,
           Calm, ~hasty', [Next]_vars
    PROVE  Calm'
<1> USE DEF vars, queueVars, observed, pageVars
<1>1. CASE UNCHANGED vars
  <2>1. SameUser /\ SameFiles
    BY <1>1 DEF SameUser, SameFiles, Current, KeyedIn, threadVars, instanceVars
  <2>2. FilesOK' /\ SavesOK'
    BY <1>1, <2>1, FilesStay, SavesStay DEF Calm, threadVars
  <2>3. status = "up" => PhaseOK'
    BY <1>1, <2>1, PhaseStays DEF Calm, threadVars, instanceVars
  <2> QED
    BY <1>1, <2>2, <2>3 DEF Calm
<1>2. CASE ClosePage
  <2>1. Down("closed")
    BY <1>2 DEF ClosePage
  <2> QED
    BY <2>1, DownCalm DEF Calm
<1>3. CASE Reload
  <2>1. /\ status # "up" /\ status' = "up" /\ screen' = "auth"
        /\ UNCHANGED <<inbox, outbox, files, threadVars, instanceVars, promised, gone, holds>>
    BY <1>3 DEF Reload
  <2>2. NobodyIn
    BY <2>1 DEF Structure, SomebodyIn
  <2>3. NoWork
    BY <2>2 DEF NobodyIn, NoWork, Structure, ThreadOK
  <2>4. Fresh0'
    BY <2>1, <2>2, <2>3 DEF NobodyIn, Fresh0, QueuesEmpty, NoWork, Alone, threadVars, instanceVars
  <2> QED
    BY <2>1, <2>4, QuietCalm DEF PhaseOK
<1>4. CASE UserStep
  BY <1>4, UserCalm
<1>5. CASE PageStep
  BY <1>5, PageCalm
<1>6. CASE (MainStep \/ Answered \/ \E s \in Stores : FileStep(s)) /\ UNCHANGED pageVars
  <2>1. CASE MainStep
    BY <1>6, <2>1, MainCalm
  <2>2. CASE Answered
    BY <1>6, <2>2, AnswerCalm
  <2>3. CASE \E s \in Stores : FileStep(s)
    BY <1>6, <2>3, FileCalm
  <2> QED
    BY <1>6, <2>1, <2>2, <2>3
<1> QED
  BY <1>1, <1>2, <1>3, <1>4, <1>5, <1>6 DEF Next

LEMMA HastyForGood ==
    ASSUME [Next]_vars, hasty
    PROVE  hasty'
<1> USE DEF observed, vars
<1>1. CASE UserStep
  BY <1>1 DEF UserStep, SubmitLogin, SubmitAgain, ClickRoom, JoinRoom, CreateRoom, ChatInput, ChatInvite,
              ShowRooms, Logout, Sends
<1>2. CASE PageStep
  BY <1>2 DEF PageStep, OnChatList, OnOpenRoom, OnRemoveRoom, Receives
<1>3. CASE MainStep
  BY <1>3 DEF MainStep, HandleLogin, AssignStore, OldStoreGone, HandleLogout, HandleCreate,
              HandleOpenByInvite, HandleOpen, ReplaceRoom, HandleSay, HandleGenerateInvite, Down
<1>4. CASE Answered
  BY <1>4 DEF Answered, OnRoomCreated, OnRoomOpened, OnAdmitted, OnRoomNotExist, KeepRoom, SaveAll,
              OnEarlyFrame, Down
<1>5. ASSUME NEW s \in Stores, FileStep(s)
      PROVE  hasty'
  BY <1>5 DEF FileStep, OnOpenError, OnOpen, OnOpenLoads, OnLoad, OnLoadError, RaceCrash, OnSaved,
              OnSaveError, Down
<1>6. CASE ClosePage \/ Reload
  BY <1>6 DEF ClosePage, Reload, Down
<1> QED
  BY <1>1, <1>2, <1>3, <1>4, <1>5, <1>6 DEF Next

-----------------------------------------------------------------------------
(* The threads, stores and messages always fit together, whatever the      *)
(* user does and however fast: a thread is in the midst of a task of its   *)
(* own store, no store works before a login or when the module is down,    *)
(* and nothing is read before store_ is assigned (file_thread_, store_).   *)
THEOREM AlwaysStructured == Spec => []IInv
<1>1. Init => IInv
  BY InitTypes, InitStructure DEF IInv
<1>2. IInv /\ [Next]_vars => IInv'
  BY TypesStep, StructureStep DEF IInv
<1> QED
  BY <1>1, <1>2, PTL DEF Spec

(* Every value keeps its type: files hold what was sealed or nothing that  *)
(* can be opened, user_data_ is one user's rooms, and the queues between   *)
(* page and module carry only messages that the other side understands     *)
(* (HandleMessage, handleMessage).                                         *)
THEOREM ChatTypes == Spec => []TypeOK
<1>1. StateTypes => TypeOK
  <2> SUFFICES ASSUME StateTypes
               PROVE  TypeOK
    OBVIOUS
  <2>1. ASSUME NEW s \in Stores, NEW i \in DOMAIN tasks[s]
        PROVE  /\ tasks[s][i].op \in {"open", "load", "save"}
               /\ tasks[s][i].user \in Users
               /\ tasks[s][i].content \in Contents \cup {NoContent}
    <3>1. tasks[s][i] \in TaskSet
      BY ElementsOf DEF StateTypes
    <3> QED
      BY <3>1 DEF TaskSet
  <2>2. FromPage \subseteq Messages /\ ToPage \subseteq Messages /\ Logins \subseteq Messages
    BY DEF FromPage, ToPage, Logins, Messages
  <2>3. \A i \in DOMAIN inbox : inbox[i] \in Messages
    BY <2>2, ElementsOf DEF StateTypes
  <2>4. \A i \in DOMAIN outbox : outbox[i] \in Messages
    BY <2>2, ElementsOf DEF StateTypes
  <2> QED
    BY <2>1, <2>2, <2>3, <2>4 DEF StateTypes, TypeOK
<1> QED
  BY <1>1, AlwaysStructured, PTL DEF IInv

LEMMA PInvAlways ==
    ASSUME MaxQueue = 0
    PROVE  Spec => []PInv
<1>1. Init => PInv
  BY InitTypes, InitStructure, InitShown, InitCalm DEF IInv, PInv
<1>2. PInv /\ [Next]_vars => PInv'
  <2> SUFFICES ASSUME PInv, [Next]_vars
               PROVE  PInv'
    OBVIOUS
  <2>1. IInv'
    BY TypesStep, StructureStep DEF IInv, PInv
  <2>2. PageOneAtATime' /\ RoomShown'
    BY ShownStep DEF IInv, PInv
  <2>3. ASSUME ~hasty'
        PROVE  Calm'
    BY <2>3, HastyForGood, CalmStep DEF IInv, PInv
  <2> QED
    BY <2>1, <2>2, <2>3 DEF PInv
<1> QED
  BY <1>1, <1>2, PTL DEF Spec

(* A room whose keys were stored for a user stays in that user's file, or  *)
(* in what is just being written to it, as long as the server knows the    *)
(* room, no save is broken off, no load fails and nobody logs in over      *)
(* unfinished work, if the user goes on only when nothing is under way     *)
(* (save_room, save_, load_).                                              *)
THEOREM RoomsEndure ==
    ASSUME MaxQueue = 0
    PROVE  Spec => []Durable
<1>1. PInv => Durable
  BY DEF PInv, Calm, FilesOK, Durable
<1> QED
  BY <1>1, PInvAlways, PTL

(* No file gets keys of a room that its user never got, though user_data_  *)
(* outlives logins (handle_login, on_load, save_room).                     *)
THEOREM FilesAreTheirUsers ==
    ASSUME MaxQueue = 0
    PROVE  Spec => []NoForeignRooms
<1>1. PInv => NoForeignRooms
  BY DEF PInv, Calm, FilesOK, NoForeignRooms
<1> QED
  BY <1>1, PInvAlways, PTL

(* The module goes down by store_ only at a first login, by two threads in *)
(* user_data_ only after a hasty login, and never by an invitation asked   *)
(* of no room (on_open, save_room, invite_generate).                       *)
THEOREM OnlyExplainedCrashes ==
    ASSUME MaxQueue = 0
    PROVE  Spec => []CrashesExplained
<1>1. PInv => CrashesExplained
  BY DEF PInv, Calm, IInv, ReadOK, RoomShown, CrashesExplained
<1> QED
  BY <1>1, PInvAlways, PTL
=============================================================================
