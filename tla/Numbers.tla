------------------------------- MODULE Numbers -------------------------------
(***************************************************************************)
(* Numbers and their texts: what parse_tx.c and utils.c read from digits,  *)
(* work out with the fixed widths of C and write as digits again.  A text  *)
(* is a sequence of characters and a character stands for the digit it     *)
(* writes; the characters that are no digits are Dot and larger numbers.   *)
(***************************************************************************)
EXTENDS Integers, Sequences, SequencesExt

CONSTANTS
    W32, W64, W128,     \* how many values the integers of each width have
    MIN_GAS_LIMIT, GAS_PER_DATA_BYTE, GAS_PRICE_DIVIDER,
    FeeDigits,          \* the digits tostring128 may write in fee
    PRETTY_SIZE         \* room for the zero and the dot, and for the ticker

ASSUME NumbersAssumption ==
    /\ {W32, W64, W128, GAS_PRICE_DIVIDER, PRETTY_SIZE} \subseteq Nat \ {0}
    /\ {MIN_GAS_LIMIT, GAS_PER_DATA_BYTE, FeeDigits} \subseteq Nat

is_digit(c) == c \in 0 .. 9
is_hex_digit(c) == c \in 0 .. 15
Dot == 16

DigitsOf(n) ==
    LET digits[k \in 0 .. n] ==
            IF k < 10 THEN <<k>> ELSE Append(digits[k \div 10], k % 10)
    IN  digits[n]

(***************************************************************************)
(* parse_int.  Each digit is refused if the number it makes is lower than  *)
(* the number before.                                                      *)
(***************************************************************************)
Refused == [ok |-> FALSE, n |-> 0]
Read(n) == [ok |-> TRUE, n |-> n]

ReadDigit_Increasing(r, c) ==
    LET n == (r.n * 10 + c) % W64
    IN  IF r.ok /\ is_digit(c) /\ n > r.n THEN Read(n) ELSE Refused
ReadDigit(r, c) ==
    LET n == (r.n * 10 + c) % W64
    IN  IF r.ok /\ is_digit(c) /\ n >= r.n THEN Read(n) ELSE Refused
IntReadAfter(str) ==
    LET r[n \in 0 .. Len(str)] == IF n = 0 THEN Read(0) ELSE ReadDigit(r[n - 1], str[n])
    IN  r
parse_int(str) == IntReadAfter(str)[Len(str)]

(* parse_hex, which does not look for an overflow.                         *)
ReadHexDigit(r, c) ==
    IF r.ok /\ is_hex_digit(c) THEN Read((r.n * 16 + c) % W128) ELSE Refused
HexReadAfter(str) ==
    LET r[n \in 0 .. Len(str)] == IF n = 0 THEN Read(0) ELSE ReadHexDigit(r[n - 1], str[n])
    IN  r
parse_hex(str) == HexReadAfter(str)[Len(str)]

(***************************************************************************)
(* gas_to_fee, in 128 bits.                                                *)
(***************************************************************************)
gas_unit_for_move_balance(data_size) ==
    (MIN_GAS_LIMIT + GAS_PER_DATA_BYTE * data_size) % W128
minus128_64(x, y) == (x - y) % W64
minus128(x, y) == (x - y) % W128
gas_units(gas_limit, data_size) ==
    LET move == gas_unit_for_move_balance(data_size)
    IN  (move + minus128(gas_limit, move) \div GAS_PRICE_DIVIDER) % W128
FeeValue(gas_limit, gas_price, data_size) ==
    (gas_units(gas_limit, data_size) * gas_price) % W128
gas_to_fee(gas_limit, gas_price, data_size) ==
    LET fee == FeeValue(gas_limit, gas_price, data_size)
    IN  IF Len(DigitsOf(fee)) <= FeeDigits THEN Read(fee) ELSE Refused

(***************************************************************************)
(* make_amount_pretty: the digits with the zeros, the dot and the ticker   *)
(* it adds.  `size' is how many bytes of the buffer are ever written: up   *)
(* to the final zero of the digits before their end is trimmed, or of the  *)
(* text with the ticker.  The ticker comes by way of suffix, an array of   *)
(* MAX_TICKER_LEN + 2 bytes, which is PRETTY_SIZE; esdt_info takes tickers *)
(* longer than MAX_TICKER_LEN, with which its end is `overrun'.  What such *)
(* a ticker leaves of the amount and of the stack is not modelled.         *)
(***************************************************************************)
OverrunsSuffix(ticker_len) == 1 + ticker_len + 1 > PRETTY_SIZE
Longer(a, b) == IF a > b THEN a ELSE b
Zeros(n) == [i \in 1 .. n |-> 0]
LastNot(c, text) == SelectLastInSeq(text, LAMBDA d : d # c)
TrimZeros(text) == SubSeq(text, 1, LastNot(0, text))
TrimDot(text) == IF Last(text) = Dot THEN Front(text) ELSE text
WithDot(digits, decimals) ==
    LET dotPos == Len(digits) - decimals
    IN  SubSeq(digits, 1, dotPos) \o <<Dot>> \o SubSeq(digits, dotPos + 1, Len(digits))

TooBig_ByOne(len, max_size) == len + PRETTY_SIZE > max_size
TooBig(len, max_size) == len + PRETTY_SIZE >= max_size
Missing_NoLeadingZero(len, decimals) == IF decimals > len THEN decimals - len ELSE 0
Missing(len, decimals) == IF decimals + 1 > len THEN decimals + 1 - len ELSE 0

make_amount_pretty(amount, max_size, ticker_len, decimals) ==
    LET missing == Missing(Len(amount), decimals)
        padded == Zeros(missing) \o amount
        untrimmed == WithDot(padded, decimals)
        text == TrimDot(TrimZeros(untrimmed))
    IN  IF \/ TooBig(Len(amount), max_size)
           \/ missing > 0 /\ missing + Len(amount) + 1 > max_size
        THEN [ok |-> FALSE, text |-> << >>, size |-> 0, overrun |-> FALSE]
        ELSE [ok |-> TRUE, text |-> text,
              size |-> Longer(Len(untrimmed) + 1, Len(text) + 1 + ticker_len + 1),
              overrun |-> OverrunsSuffix(ticker_len)]

(***************************************************************************)
(* uint32_t_to_char_array: the largest power of ten that is not above the  *)
(* input, found by multiplying in 32 bits, then the digits.                *)
(***************************************************************************)
Times10(index) == (index * 10) % W32
MayGrow_Below(index, input) == Times10(index) < input /\ Times10(index) \div 10 = index
MayGrow(index, input) == Times10(index) <= input /\ Times10(index) \div 10 = index
HighestIndex(input) ==
    LET highest[index \in 1 .. W32 - 1] ==
            IF MayGrow(index, input) THEN highest[Times10(index)] ELSE index
    IN  highest[1]
Written(input, highest) ==
    LET written[index \in 0 .. highest] ==
            IF index = 0 THEN << >>
            ELSE <<(input \div index) % 10>> \o written[index \div 10]
    IN  written[highest]
uint32_t_to_char_array(input) == Written(input, HighestIndex(input))
==============================================================================
