------------------------------- MODULE EsdtData ------------------------------
(***************************************************************************)
(* The amount of a token transfer (extract_esdt_value, parse_esdt_data):   *)
(*      ESDTTransfer@identifier@amount@...                                 *)
(* is base64 in the transaction.  The field is modelled by its decoded     *)
(* characters, three for every four of its base64 text and NotPrinted for  *)
(* those base64decode prints as '?', the padding among them.               *)
(***************************************************************************)
EXTENDS Numbers

CONSTANTS
    W8,                         \* how many values a uint8_t has
    KeptLength,                 \* MAX_VALUE_LEN: the characters current_value keeps
    ESDT_TRANSFER_PREFIX_LENGTH,
    MAX_ESDT_VALUE_HEX_COUNT

ASSUME EsdtDataAssumption ==
    /\ {W8, MAX_ESDT_VALUE_HEX_COUNT} \subseteq Nat \ {0}
    /\ {KeptLength, ESDT_TRANSFER_PREFIX_LENGTH} \subseteq Nat

SC_ARGS_SEPARATOR == 17
NotPrinted == 18

EncodedLength(data) == 4 * (Len(data) \div 3)

(* base64decode of the first encoded_data_length characters of             *)
(* current_value; it fails on the zero that ends what is kept.             *)
encoded_data_length(data) == EncodedLength(data) % W8
Decodable(data) == encoded_data_length(data) \in 1 .. KeptLength
data_field(data) == SubSeq(data, 1, 3 * (encoded_data_length(data) \div 4))

(* The first position from start on where one of the characters stands.    *)
FirstOf(text, chars, start) ==
    LET found == {i \in start .. Len(text) : text[i] \in chars}
    IN  IF found = {} THEN 0 ELSE CHOOSE i \in found : \A j \in found : i <= j

NoAmount == [kind |-> "none", digits |-> << >>]
AmountTooHigh == [kind |-> "too_high", digits |-> << >>]
AmountDigits(digits) == [kind |-> "ok", digits |-> digits]

(* How many characters the amount has: the end of the data counts for one  *)
(* more than a separator does, and the zero there is copied too.           *)
AmountCount_Inclusive(start, stop, length) ==
    IF stop = 0 THEN length - start + 2 ELSE stop - start + 1
AmountCount(start, stop, length) ==
    IF stop = 0 THEN length - start + 2 ELSE stop - start

extract_esdt_value(data) ==
    LET field == data_field(data)
        start == FirstOf(field, {SC_ARGS_SEPARATOR}, ESDT_TRANSFER_PREFIX_LENGTH + 1) + 1
        stop == FirstOf(field, {SC_ARGS_SEPARATOR, NotPrinted}, start)
        count == AmountCount(start, stop, Len(field))
    IN  CASE ~Decodable(data) \/ start = 1 -> NoAmount
          [] Decodable(data) /\ start # 1 /\ count > MAX_ESDT_VALUE_HEX_COUNT -> AmountTooHigh
          [] OTHER -> AmountDigits(SubSeq(field, start, IF stop = 0 THEN Len(field)
                                                        ELSE start + count - 1))

(* What parse_esdt_data makes of it: the amount, or "N/A", "<value too big *)
(* to display>" or "<value cannot be parsed to hex>" in its place.         *)
parse_esdt_data(data) ==
    LET amount == extract_esdt_value(data)
        value == parse_hex(amount.digits)
    IN  CASE amount.kind = "none"     -> [shown |-> "N/A", n |-> 0]
          [] amount.kind = "too_high" -> [shown |-> "too_big", n |-> 0]
          [] amount.kind = "ok" /\ ~value.ok -> [shown |-> "not_hex", n |-> 0]
          [] amount.kind = "ok" /\ value.ok -> [shown |-> "amount", n |-> value.n]
==============================================================================
