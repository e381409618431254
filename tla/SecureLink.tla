----------------------------- MODULE SecureLink -----------------------------
(***************************************************************************)
(* secure_websocket_api over websocket_api at the client, and the session  *)
(* part of wshandler at the server: how a websocket becomes the connection *)
(* that Wire describes.  The two ends of a Themis Secure Session exchange  *)
(* four control messages before they wrap data; each end tells by its own  *)
(* state what to do with what arrives.  The websocket delivers in order    *)
(* and may break at any moment, in the middle of the handshake too.        *)
(*                                                                         *)
(* Requests and replies stay opaque, and so does what the server makes of  *)
(* them: RelayServer says that.  As there, Bad... is the definition below  *)
(* it with a slip.                                                         *)
(***************************************************************************)
EXTENDS Naturals, Sequences, FiniteSets

CONSTANTS
    Conns,         \* connections, each with its client and its handler
    KeyRequest,    \* PUBKEY, the first request connect_callback sends
    Requests,      \* the other requests
    Replies,
    Bursts,        \* what the server may wrap and send at once
    ErrorReply,    \* ROOM.MESSAGE.ERROR, which the server does not wrap
    NoFrame,
    MaxFlight      \* bound: messages under way in each direction

ASSUME LinkOK ==
    /\ KeyRequest \notin Requests
    /\ ErrorReply \in Replies
    /\ Bursts \subseteq Seq(Replies)
    /\ NoFrame \notin Requests \cup Replies \cup {KeyRequest}

VARIABLES
    link,        \* the websocket: "free", "opening", "open", or "closed" at the client's end
    client,      \* session_ at the client: "none", "init", "finish" or "established"
    server,      \* the handler's session: "idle", "proceed" or "established"
    connected,   \* whether connect_callback_ ran
    keyed,       \* connections whose PUBKEY was handled: online
    up, down     \* messages on their way to the server and to the client

vars == <<link, client, server, connected, keyed, up, down>>

(* The session's four control messages, and frames wrapped or not.         *)
Message(kind, f) == [kind |-> kind, frame |-> f]
Control(kind) == Message(kind, NoFrame)
Data(f) == Message("data", f)
Raw(f) == Message("raw", f)

Wrap(fs) == [i \in DOMAIN fs |-> Data(fs[i])]

Init ==
    /\ link = [c \in Conns |-> "free"]
    /\ client = [c \in Conns |-> "none"]
    /\ server = [c \in Conns |-> "idle"]
    /\ connected = [c \in Conns |-> FALSE]
    /\ keyed = {}
    /\ up = [c \in Conns |-> << >>]
    /\ down = [c \in Conns |-> << >>]

-----------------------------------------------------------------------------
(* The client.                                                             *)
Open(c) ==
    /\ link[c] = "free"
    /\ link' = [link EXCEPT ![c] = "opening"]
    /\ UNCHANGED <<client, server, connected, keyed, up, down>>

(* open_handler with a result that is not PP_OK: an error is logged.       *)
OpenFails(c) ==
    /\ link[c] = "opening"
    /\ link' = [link EXCEPT ![c] = "free"]
    /\ UNCHANGED <<client, server, connected, keyed, up, down>>

Sends(c, ms) == up' = [up EXCEPT ![c] = @ \o ms]

OnConnect(c) ==
    /\ link[c] = "opening"
    /\ link' = [link EXCEPT ![c] = "open"]
    /\ client' = [client EXCEPT ![c] = "init"]
    /\ Sends(c, <<Control("init")>>)
    /\ UNCHANGED <<server, connected, keyed, down>>

(* receive_handler: the next message, of a kind.                           *)
Receives(c, kind) ==
    /\ link[c] = "open"
    /\ down[c] # << >>
    /\ Head(down[c]).kind = kind
    /\ down' = [down EXCEPT ![c] = Tail(@)]
    /\ UNCHANGED <<link, server, keyed>>

(* on_receive: unwrap gave an answer and the session is not established.   *)
OnReply(c) ==
    /\ Receives(c, "reply")
    /\ client[c] = "init"
    /\ client' = [client EXCEPT ![c] = "finish"]
    /\ Sends(c, <<Control("confirm")>>)
    /\ UNCHANGED connected

BadFirstRequest(c) ==
    \E f \in Requests : Sends(c, Wrap(<<f, KeyRequest>>))

BadUnwrapped(c) ==
    \E f \in Requests : Sends(c, <<Raw(KeyRequest), Data(f)>>)

BadAnswered(c) ==
    \E f \in Requests : Sends(c, <<Control("confirm")>> \o Wrap(<<KeyRequest, f>>))

(* connect_callback_ of each kind of room: PUBKEY, and what it came for.   *)
FirstRequests(c) ==
    \E f \in Requests : Sends(c, Wrap(<<KeyRequest, f>>))

(* It gave nothing, and the session is established.                        *)
OnEstablished(c) ==
    /\ Receives(c, "confirmed")
    /\ client[c] = "finish"
    /\ client' = [client EXCEPT ![c] = "established"]
    /\ connected' = [connected EXCEPT ![c] = TRUE]
    /\ FirstRequests(c)

(* It gave a reply, for receive_callback_.                                 *)
OnData(c) ==
    /\ Receives(c, "data")
    /\ client[c] = "established"
    /\ UNCHANGED <<client, connected, up>>

(* It threw: the error is logged and the session stays as it was.          *)
OnRaw(c) ==
    /\ Receives(c, "raw")
    /\ UNCHANGED <<client, connected, up>>

(* send: before the session is established wrap throws and the request is  *)
(* lost, of which only the log knows.                                      *)
Send(c) ==
    /\ link[c] \in {"opening", "open"}
    /\ Len(up[c]) < MaxFlight
    /\ IF client[c] = "established"
       THEN \E f \in Requests : Sends(c, <<Data(f)>>)
       ELSE UNCHANGED up
    /\ UNCHANGED <<link, client, server, connected, keyed, down>>

(* The client is destroyed or its network dies; n messages still arrive.   *)
Close(c) ==
    /\ link[c] = "open"
    /\ \E n \in 0 .. Len(up[c]) : up' = [up EXCEPT ![c] = SubSeq(@, 1, n)]
    /\ down' = [down EXCEPT ![c] = << >>]
    /\ link' = [link EXCEPT ![c] = "closed"]
    /\ client' = [client EXCEPT ![c] = "none"]
    /\ UNCHANGED <<server, connected, keyed>>

-----------------------------------------------------------------------------
(* The server.                                                             *)
Arrives(c, kind) ==
    /\ up[c] # << >>
    /\ Head(up[c]).kind = kind
    /\ up' = [up EXCEPT ![c] = Tail(@)]
    /\ UNCHANGED <<link, client, connected>>

(* send_str: each connection gets its messages, if it is still there.      *)
Answers(ms) ==
    down' = [c \in Conns |-> IF link[c] = "open" THEN down[c] \o ms[c] ELSE down[c]]

AnswersOne(c, m) == Answers([x \in Conns |-> IF x = c THEN <<m>> ELSE << >>])

BadOnControl(c, kind, from, to, answer) ==
    /\ Arrives(c, kind)
    /\ c \in keyed
    /\ server[c] = from
    /\ server' = [server EXCEPT ![c] = to]
    /\ AnswersOne(c, Control(answer))
    /\ UNCHANGED keyed

(* msg.is_control: what unwrap gave goes back.                             *)
OnControl(c, kind, from, to, answer) ==
    /\ Arrives(c, kind)
    /\ server[c] = from
    /\ server' = [server EXCEPT ![c] = to]
    /\ AnswersOne(c, Control(answer))
    /\ UNCHANGED keyed

HandleControl(c) ==
    \/ OnControl(c, "init", "idle", "proceed", "reply")
    \/ OnControl(c, "confirm", "proceed", "established", "confirmed")

(* A frame: replies go, wrapped, to its sender and to whoever is online.   *)
HandleFrame(c) ==
    LET now == IF Head(up[c]).frame = KeyRequest THEN keyed \cup {c} ELSE keyed
    IN  /\ Arrives(c, "data")
        /\ server[c] = "established"
        /\ keyed' = now
        /\ \E fs \in [Conns -> Bursts \cup {<< >>}] :
               /\ \A x \in Conns \ (now \cup {c}) : fs[x] = << >>
               /\ \A x \in Conns : Len(down[x]) + Len(fs[x]) <= MaxFlight
               /\ Answers([x \in Conns |-> Wrap(fs[x])])
        /\ UNCHANGED server

(* ROOM.MESSAGE.ERROR goes out as it is.                                   *)
RefuseFrame(c) ==
    /\ Arrives(c, "data")
    /\ server[c] = "established"
    /\ Len(down[c]) < MaxFlight
    /\ AnswersOne(c, Raw(ErrorReply))
    /\ UNCHANGED <<server, keyed>>

(* receive() returns the close and the handler ends.                       *)
HandleClose(c) ==
    /\ link[c] = "closed"
    /\ up[c] = << >>
    /\ link' = [link EXCEPT ![c] = "free"]
    /\ server' = [server EXCEPT ![c] = "idle"]
    /\ connected' = [connected EXCEPT ![c] = FALSE]
    /\ keyed' = keyed \ {c}
    /\ UNCHANGED <<client, up, down>>

Restart ==
    /\ link' = [c \in Conns |-> "free"]
    /\ client' = [c \in Conns |-> "none"]
    /\ server' = [c \in Conns |-> "idle"]
    /\ connected' = [c \in Conns |-> FALSE]
    /\ keyed' = {}
    /\ up' = [c \in Conns |-> << >>]
    /\ down' = [c \in Conns |-> << >>]

-----------------------------------------------------------------------------
OnReceive(c) == OnReply(c) \/ OnEstablished(c) \/ OnData(c) \/ OnRaw(c)

ClientStep(c) ==
    \/ Open(c)
    \/ OpenFails(c)
    \/ OnConnect(c)
    \/ OnReceive(c)
    \/ Send(c)
    \/ Close(c)

ServerStep(c) ==
    \/ HandleControl(c)
    \/ HandleFrame(c)
    \/ RefuseFrame(c)
    \/ HandleClose(c)

Next == Restart \/ \E c \in Conns : ClientStep(c) \/ ServerStep(c)

Spec == Init /\ [][Next]_vars

(* The browser and the server's event loop run whatever is due.            *)
FairSpec ==
    /\ Spec
    /\ \A c \in Conns :
           /\ WF_vars(OnConnect(c) \/ OpenFails(c))
           /\ WF_vars(OnReceive(c))
           /\ WF_vars(HandleControl(c))

-----------------------------------------------------------------------------
Upward == {Control("init"), Control("confirm")} \cup {Data(f) : f \in Requests \cup {KeyRequest}}

Downward == {Control("reply"), Control("confirmed"), Raw(ErrorReply)}
            \cup {Data(f) : f \in Replies}

TypeOK ==
    /\ link \in [Conns -> {"free", "opening", "open", "closed"}]
    /\ client \in [Conns -> {"none", "init", "finish", "established"}]
    /\ server \in [Conns -> {"idle", "proceed", "established"}]
    /\ connected \in [Conns -> BOOLEAN]
    /\ keyed \subseteq Conns
    /\ up \in [Conns -> Seq(Upward)]
    /\ down \in [Conns -> Seq(Downward)]

(* The two ends never get out of step, whenever either of them starts,     *)
(* talks or dies: whatever is under way is what the other end's session is *)
(* ready for, so that unwrap fails for nothing but the server's unwrapped  *)
(* errors (on_receive, wshandler).                                         *)
OnlyFrames(q) == \A i \in DOMAIN q : q[i].kind \in {"data", "raw"}

Step(c, cs, ss, us, ds) ==
    /\ client[c] = cs
    /\ server[c] = ss
    /\ up[c] = us
    /\ down[c] = ds

InStep(c) ==
    \/ Step(c, "init", "idle", <<Control("init")>>, << >>)
    \/ Step(c, "init", "proceed", << >>, <<Control("reply")>>)
    \/ Step(c, "finish", "proceed", <<Control("confirm")>>, << >>)
    \/ Step(c, "finish", "established", << >>, <<Control("confirmed")>>)
    \/ /\ client[c] = "established"
       /\ server[c] = "established"
       /\ OnlyFrames(up[c])
       /\ OnlyFrames(down[c])

LeftBehind(c) ==
    \/ up[c] = << >>
    \/ server[c] = "idle" /\ up[c] = <<Control("init")>>
    \/ server[c] = "proceed" /\ up[c] = <<Control("confirm")>>
    \/ server[c] = "established" /\ OnlyFrames(up[c])

SessionsAgree ==
    \A c \in Conns :
        /\ link[c] = "open" => InStep(c)
        /\ link[c] = "closed" => LeftBehind(c)

(* To those who use it the link is Wire: nothing of theirs is under way    *)
(* before connect_callback_, what is then starts with PUBKEY, and none of  *)
(* it is lost, doubled, reordered or taken for a control message as long   *)
(* as the link stands (connect_callback_, send, on_receive, wshandler).    *)
Frames(q) == [i \in DOMAIN q |-> q[i].frame]

WireLink == [c \in Conns |-> IF connected[c] THEN link[c] ELSE "free"]
WireUp   == [c \in Conns |-> IF connected[c] THEN Frames(up[c]) ELSE << >>]
WireDown == [c \in Conns |-> IF connected[c] THEN Frames(down[c]) ELSE << >>]

AsWire == INSTANCE WireUse WITH
    Bursts <- Bursts \cup {<<ErrorReply>>},
    link <- WireLink, up <- WireUp, down <- WireDown

IsWire == AsWire!Spec

(* A client that opens a link gets to run connect_callback_, or hears that *)
(* the link broke: neither end ever waits for the other's next control     *)
(* message while the other waits for its own.                              *)
HandshakeEnds ==
    \A c \in Conns : link[c] = "opening" ~> connected[c] \/ link[c] \in {"free", "closed"}
=============================================================================
