-------------------------------- MODULE Wire --------------------------------
(***************************************************************************)
(* The websocket connections between the PNaCl clients and the relay       *)
(* server: pnacl_websocket_api.hpp on the client side, aiohttp's           *)
(* WebSocketResponse on the server side.  A connection carries frames in   *)
(* order both ways.  It is created by the client (socket_.Connect), ends   *)
(* by the client's destructor, by a reload of the page or by the network,  *)
(* and the server hears of the end only after the frames that arrived      *)
(* before it; frames it writes meanwhile go nowhere.                       *)
(*                                                                         *)
(* A frame is the request or the reply as the peers see it after Themis    *)
(* Secure Session and base64 are undone, split at its blanks.              *)
(***************************************************************************)
EXTENDS Naturals, Sequences, SequencesExt

CONSTANTS
    Conns    \* connection slots; a slot is reused once the server let go of it

VARIABLES
    link,    \* link[c]: "free", "open" or, until the server's receive() returns the close, "closed"
    up,      \* up[c]: frames on their way to the server, oldest first
    down     \* down[c]: frames on their way to the client, oldest first

wireVars == <<link, up, down>>

LinkStates == {"free", "open", "closed"}

WireInit ==
    /\ link = [c \in Conns |-> "free"]
    /\ up = [c \in Conns |-> << >>]
    /\ down = [c \in Conns |-> << >>]

(* open_handler: the connection is there and on_connect ends in the        *)
(* client's first requests, fs.                                            *)
OpenLink(c, fs) ==
    /\ link[c] = "free"
    /\ link' = [link EXCEPT ![c] = "open"]
    /\ up' = [up EXCEPT ![c] = fs]
    /\ UNCHANGED down

(* The client's end is gone.  The first n requests in flight still reach   *)
(* the server: all of them after an orderly Close, perhaps fewer when the  *)
(* network or the browser dies.  Nobody is left to read what flows down.   *)
Disconnect(c, n) ==
    /\ link[c] = "open"
    /\ n \in 0 .. Len(up[c])
    /\ link' = [link EXCEPT ![c] = "closed"]
    /\ up' = [up EXCEPT ![c] = SubSeq(@, 1, n)]
    /\ down' = [down EXCEPT ![c] = << >>]

(* The server has read everything and its receive() returns the close.     *)
Closing(c) == link[c] = "closed" /\ up[c] = << >>

FreeLink(c) ==
    /\ Closing(c)
    /\ link' = [link EXCEPT ![c] = "free"]
    /\ UNCHANGED <<up, down>>

(* The server's receive() returns frame f of connection c.                 *)
Arrives(c, f) == up[c] # << >> /\ f = Head(up[c])

TakeUp(c) == up' = [up EXCEPT ![c] = Tail(@)]

(* send_str: each connection c gets fs[c], if its client is still there.   *)
SendDown(fs) ==
    down' = [c \in Conns |-> IF link[c] = "open" THEN down[c] \o fs[c] ELSE down[c]]

SendTo(c, fs) == SendDown([x \in Conns |-> IF x = c THEN fs ELSE << >>])
=============================================================================
