---------------------------- MODULE MCSecureLink ----------------------------
(* SecureLink for TLC: a reply at a time, or two at once from a backlog.   *)
EXTENDS SecureLink

CONSTANTS reply

MCBursts == {<<reply>>, <<reply, reply>>}
=============================================================================
