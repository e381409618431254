---------------------------- MODULE MCSecureChat ----------------------------
(* SecureChat for TLC.  Connections, texts and invitations are alike, and  *)
(* so are the keys that join and those that leave.                         *)
EXTENDS SecureChat, TLC

Symmetry == Permutations(Conns) \cup Permutations(Texts) \cup Permutations(Invites)
=============================================================================
