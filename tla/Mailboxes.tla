----------------------------- MODULE Mailboxes -----------------------------
(***************************************************************************)
(* What the relay promises, without connections: a room has an owner and   *)
(* members; a frame a member posts is put, once and in order, into the     *)
(* mailbox of every other member and, as an echo, into its author's own;   *)
(* who joins is first given what was posted since the last key rotation.   *)
(***************************************************************************)
EXTENDS Sequences, FiniteSets

CONSTANTS Keys, Rooms, Posts, NoKey

VARIABLES
    owner,     \* owner[r]: the creator of room r, or NoKey
    members,   \* members[r]: the keys admitted
    mailbox,   \* mailbox[k]: all the relay ever handed or will hand to k from others
    echo,      \* echo[k]: the same for what k posted itself
    recent     \* recent[r]: what a new member of r is given

vars == <<owner, members, mailbox, echo, recent>>

Init ==
    /\ owner = [r \in Rooms |-> NoKey]
    /\ members = [r \in Rooms |-> {}]
    /\ mailbox = [k \in Keys |-> << >>]
    /\ echo = [k \in Keys |-> << >>]
    /\ recent = [r \in Rooms |-> << >>]

Create(k, r) ==
    /\ owner[r] = NoKey
    /\ owner' = [owner EXCEPT ![r] = k]
    /\ members' = [members EXCEPT ![r] = {k}]
    /\ UNCHANGED <<mailbox, echo, recent>>

Join(k, r) ==
    /\ owner[r] # NoKey
    /\ k \notin members[r]
    /\ members' = [members EXCEPT ![r] = @ \cup {k}]
    /\ mailbox' = [mailbox EXCEPT ![k] = @ \o recent[r]]
    /\ UNCHANGED <<owner, echo, recent>>

Distribute(k, r, p) ==
    /\ mailbox' = [u \in Keys |-> IF u \in members[r] \ {k}
                                  THEN Append(mailbox[u], p) ELSE mailbox[u]]
    /\ echo' = [echo EXCEPT ![k] = Append(@, p)]
    /\ UNCHANGED <<owner, members>>

Post(k, r, p) ==
    /\ k \in members[r]
    /\ recent' = [recent EXCEPT ![r] = Append(@, p)]
    /\ Distribute(k, r, p)

Rotate(k, r, p) ==
    /\ k = owner[r]
    /\ k # NoKey
    /\ recent' = [recent EXCEPT ![r] = <<p>>]
    /\ Distribute(k, r, p)

Next == \E k \in Keys, r \in Rooms :
    \/ Create(k, r)
    \/ Join(k, r)
    \/ \E p \in Posts : Post(k, r, p) \/ Rotate(k, r, p)

Spec == Init /\ [][Next]_vars
=============================================================================
