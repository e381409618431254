------------------------------ MODULE MCBase64 ------------------------------
(* Base64 for TLC: bytes and characters on both sides of every cut that    *)
(* the shifts and masks make.                                              *)
EXTENDS Base64

SomeBytes == {0, 3, 4, 15, 64, 170, 255}
SomeTexts == {0, 15, 33, 48, 63, Pad, Foreign}
=============================================================================
