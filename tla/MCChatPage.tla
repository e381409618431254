----------------------------- MODULE MCChatPage -----------------------------
(* ChatPage for TLC: ann mistypes her password, bob may leave his empty.   *)
EXTENDS ChatPage

CONSTANTS ann, bob, good, typo, empty

MCUsers == {ann, bob}
MCPasswords == {good, typo, empty}
MCCredentials == {<<ann, good>>, <<ann, typo>>, <<bob, good>>, <<bob, empty>>}
=============================================================================
