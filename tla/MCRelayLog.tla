----------------------------- MODULE MCRelayLog -----------------------------
(* RelayLog for TLC: keys, connections and bodies are interchangeable.     *)
EXTENDS RelayLog, TLC

Symmetry == Permutations(Keys) \cup Permutations(Conns) \cup Permutations(Bodies)

(* The clients of RelayLog react to forwarded requests only, and no        *)
(* property looks at what they have yet to read: states that differ only   *)
(* in the other frames flowing down have the same future.                  *)
Requests(fs) ==
    SelectSeq(fs, LAMBDA f : f.cmd = "ROOM.INVITE.VERIFICATION_REQUEST")

View ==
    <<link, up, [c \in Conns |-> Requests(down[c])], serverVars, clientVars, logVars>>
=============================================================================
