------------------------------ MODULE WireUse ------------------------------
(***************************************************************************)
(* What SecureChat and RelayServer take a connection to be: Wire, opened   *)
(* with a PUBKEY and one more request in it, and then used by a room that  *)
(* submits requests and takes replies and by a server that takes requests  *)
(* and sends replies to anybody who is connected.  SecureLink shows that   *)
(* the secure session over a websocket is that.                            *)
(***************************************************************************)
EXTENDS Wire

CONSTANTS
    KeyRequest,    \* the frame that names the client's key, PUBKEY
    Requests,      \* the other frames of clients
    Replies,       \* frames of the server
    Bursts         \* the sequences of replies it may send at once

Opens(c) == \E f \in Requests : OpenLink(c, <<KeyRequest, f>>)

Submits(c) ==
    /\ link[c] = "open"
    /\ \E f \in Requests : up' = [up EXCEPT ![c] = Append(@, f)]
    /\ UNCHANGED <<link, down>>

Takes(c) ==
    /\ link[c] = "open"
    /\ down[c] # << >>
    /\ down' = [down EXCEPT ![c] = Tail(@)]
    /\ UNCHANGED <<link, up>>

Dies(c) == \E n \in 0 .. Len(up[c]) : Disconnect(c, n)

Handles(c) ==
    /\ up[c] # << >>
    /\ TakeUp(c)
    /\ \E fs \in [Conns -> Bursts \cup {<< >>}] : SendDown(fs)
    /\ UNCHANGED link

Restarts ==
    /\ link' = [c \in Conns |-> "free"]
    /\ up' = [c \in Conns |-> << >>]
    /\ down' = [c \in Conns |-> << >>]

Next ==
    \/ \E c \in Conns :
           \/ Opens(c)
           \/ Submits(c)
           \/ Takes(c)
           \/ Dies(c)
           \/ Handles(c)
           \/ FreeLink(c)
    \/ Restarts

Spec == WireInit /\ [][Next]_wireVars
=============================================================================
