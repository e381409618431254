------------------------------- MODULE Base64 -------------------------------
(***************************************************************************)
(* helpers/base64.hpp, which every key, token, seal and frame passes       *)
(* through.  A character is its index in base64_chars; two more numbers    *)
(* stand for '=' and for any character that is neither.                    *)
(***************************************************************************)
EXTENDS Integers, Sequences, SequencesExt

CONSTANTS
    Samples,    \* the bytes tried
    Texts,      \* the characters tried
    MaxBytes, MaxChars    \* bounds: lengths tried

Bytes == 0 .. 255
Digits == 0 .. 63
Pad == 64
Foreign == 65
Chars == Digits \cup {Pad, Foreign}

ASSUME SamplesOK ==
    Samples \subseteq Bytes /\ Texts \subseteq Chars /\ {MaxBytes, MaxChars} \subseteq Nat

VARIABLES
    data,    \* bytes to encode
    text     \* characters to decode, whoever wrote them

vars == <<data, text>>

(* char_array_3 to char_array_4, and the first n groups of buf.            *)
BadEncodeGroup(a, b, c) ==
    <<a \div 4, (a % 4) * 16 + b \div 16, (b % 16) * 4 + c \div 128, c % 64>>

EncodeGroup(a, b, c) ==
    <<a \div 4, (a % 4) * 16 + b \div 16, (b % 16) * 4 + c \div 64, c % 64>>

EncodeGroups(buf, n) ==
    FlattenSeq([g \in 1 .. n |->
        EncodeGroup(buf[3 * g - 2], buf[3 * g - 1], buf[3 * g])])

(* Of the i bytes left over, filled up with zeros, i + 1 digits are kept.  *)
base64_encode(buf) ==
    LET n == Len(buf) \div 3
        i == Len(buf) % 3
        rest == SubSeq(buf, 3 * n + 1, Len(buf)) \o <<0, 0>>
    IN  EncodeGroups(buf, n)
        \o IF i = 0 THEN << >>
           ELSE SubSeq(EncodeGroup(rest[1], rest[2], rest[3]), 1, i + 1)
                \o SubSeq(<<Pad, Pad>>, 1, 3 - i)

(* base64_chars.find of the zeros that fill up the last group is npos, all *)
(* ones in a byte; the sums are cut to a byte, too.                        *)
Npos == 255

DecodeGroup(w, x, y, z) ==
    << (w * 4 + (x % 64) \div 16) % 256,
       ((x % 16) * 16 + (y % 64) \div 4) % 256,
       ((y % 4) * 64 + z) % 256 >>

DecodeGroups(s, n) ==
    FlattenSeq([g \in 1 .. n |->
        DecodeGroup(s[4 * g - 3], s[4 * g - 2], s[4 * g - 1], s[4 * g])])

(* Reading stops at the first '=' or foreign character.                    *)
BadReadable(s) == SelectSeq(s, LAMBDA ch : ch \in Digits)

Readable(s) ==
    LET stops == {j \in DOMAIN s : s[j] \notin Digits}
    IN  IF stops = {} THEN s ELSE SubSeq(s, 1, Min(stops) - 1)

BadDecodeKeepsGroup(s) ==
    LET w == Readable(s)
    IN  DecodeGroups(w \o <<Npos, Npos, Npos>>, (Len(w) + 3) \div 4)

base64_decode(s) ==
    LET w == Readable(s)
        n == Len(w) \div 4
        i == Len(w) % 4
        rest == SubSeq(w, 4 * n + 1, Len(w)) \o <<Npos, Npos, Npos>>
    IN  DecodeGroups(w, n)
        \o IF i = 0 THEN << >>
           ELSE SubSeq(DecodeGroup(rest[1], rest[2], rest[3], rest[4]), 1, i - 1)

-----------------------------------------------------------------------------
(* All inputs within the bounds, byte by byte and character by character.  *)
Init == data = << >> /\ text = << >>

Next ==
    \/ /\ Len(data) < MaxBytes
       /\ text = << >>
       /\ \E b \in Samples : data' = Append(data, b)
       /\ UNCHANGED text
    \/ /\ Len(text) < MaxChars
       /\ data = << >>
       /\ \E ch \in Texts : text' = Append(text, ch)
       /\ UNCHANGED data

Spec == Init /\ [][Next]_vars

(* Bit j, the first being the most significant, of numbers of this width.  *)
Bit(s, width, j) == (s[j \div width + 1] \div 2 ^ (width - 1 - (j % width))) % 2

(* What one client or the server encodes, the other decodes, whatever its  *)
(* length (base64.hpp:57-72 against 104-116).                              *)
RoundTrip == base64_decode(base64_encode(data)) = data

(* The encoding is that of RFC 4648, which the server's own library reads: *)
(* the digits write the bits of the bytes, filled up with zeros, and '='   *)
(* completes a group of four (base64.hpp:43-72, server.py:68).             *)
IsStandard ==
    LET code == base64_encode(data)
        n == (8 * Len(data) + 5) \div 6
        digits == SubSeq(code, 1, n)
    IN  /\ Len(code) = 4 * ((Len(data) + 2) \div 3)
        /\ digits \in Seq(Digits)
        /\ \A j \in n + 1 .. Len(code) : code[j] = Pad
        /\ \A j \in 0 .. 6 * n - 1 :
              Bit(digits, 6, j) = IF j < 8 * Len(data) THEN Bit(data, 8, j) ELSE 0

(* Whatever a text holds, decoding reads it up to the first character that *)
(* is no digit and returns the whole bytes that these digits write, never  *)
(* a bit of what fills the last group up (base64.hpp:88, 104-115).         *)
DecodesPrefix ==
    LET bytes == base64_decode(text)
        k == CHOOSE j \in 0 .. Len(text) :
               /\ \A m \in 1 .. j : text[m] \in Digits
               /\ j < Len(text) => text[j + 1] \notin Digits
    IN  /\ Len(bytes) = (6 * k) \div 8
        /\ \A j \in 0 .. 8 * Len(bytes) - 1 : Bit(bytes, 8, j) = Bit(text, 6, j)
=============================================================================
