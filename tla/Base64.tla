------------------------------- MODULE Base64 --------------------------------
(***************************************************************************)
(* base64.h.  A base64 character is the number it stands for, 0 to 63, Pad *)
(* for '=', and anything else is no base64; a decoded character is its     *)
(* byte.                                                                   *)
(***************************************************************************)
EXTENDS Naturals, Sequences

Pad == 64
isBase64Char(c) == c \in 0 .. Pad
base64decode_byte(c) == IF c = Pad THEN 0 ELSE c

Unprintable(byte) == byte < 32 \/ byte > 126
BASE_64_INVALID_CHAR == 63
Printed(byte) == IF Unprintable(byte) THEN BASE_64_INVALID_CHAR ELSE byte

(* The three bytes of a group of four.                                     *)
Data(source, group) ==
    LET c(j) == base64decode_byte(source[4 * group + j])
    IN  ((c(1) * 64 + c(2)) * 64 + c(3)) * 64 + c(4)
DecodedByte(data, k) ==
    CASE k = 0 -> data \div (256 * 256)
      [] k = 1 -> (data \div 256) % 256
      [] k = 2 -> data % 256

Undecoded == [ok |-> FALSE, text |-> << >>]
base64decode(source) ==
    LET groups == Len(source) \div 4
    IN  IF \E i \in 1 .. 4 * groups : ~isBase64Char(source[i]) THEN Undecoded
        ELSE [ok |-> TRUE,
              text |-> [i \in 1 .. 3 * groups |->
                           Printed(DecodedByte(Data(source, (i - 1) \div 3), (i - 1) % 3))]]
==============================================================================
