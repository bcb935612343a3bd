--------------------------- MODULE TextProperties ---------------------------
(***************************************************************************)
(* What is required of the reader of transactions, and of the functions    *)
(* that read numbers, amounts and origins and write them for the reviews.  *)
(* The functions keep no state: an instance checks them on every member of *)
(* Input, one of which is `input' from the start.                          *)
(***************************************************************************)
EXTENDS JsonText, TokenText, EsdtData

CONSTANTS
    Document,     \* what hosts write: a text, its members, the sizes of those
                  \* written under the name of the data, and whether it holds
    Input,
    NoInput,      \* no input: the reader is at work
    AmountSize    \* sizeof(tx_context.amount)

ASSUME DocumentAssumption == Text = {d.text : d \in Document}

VARIABLES
    document,     \* the one whose text is being read
    input

tvars == <<jvars, document, input>>

Blank == [text |-> << >>, members |-> << >>, size |-> << >>, holds |-> "no"]
TextInit == JsonInit /\ document = Blank /\ input \in Input \cup {NoInput}
StartText(d) == FirstChunk(d.text) /\ document' = d
ReadOn == (Character \/ NextChunk) /\ UNCHANGED document
Computed == input # NoInput /\ UNCHANGED tvars
TextNext ==
    \/ /\ input = NoInput
       /\ ReadOn \/ \E d \in Document : StartText(d)
       /\ UNCHANGED input
    \/ Computed
TextSpec == TextInit /\ [][TextNext]_tvars

Is(kind) == input.kind = kind

(***************************************************************************)
(* The reader.                                                             *)
(***************************************************************************)
ReadingValue == {"JSON_PROCESSING_STRING_VALUE", "JSON_PROCESSING_NUMERIC_VALUE"}

(* Whatever is left in the buffers by earlier members, texts and chunks,   *)
(* nothing is written outside them, and what is counted of a value is what *)
(* the buffer holds of it, except for data (parse_data, process_field).    *)
BuffersHold ==
    /\ current_field \in [1 .. MAX_FIELD_LEN -> Char]
    /\ current_field_len \in 0 .. MAX_FIELD_LEN
    /\ current_value \in Seq(Char) /\ current_value_len \in Nat
    /\ Len(current_value) =
          IF current_value_len < MAX_VALUE_LEN THEN current_value_len ELSE MAX_VALUE_LEN
    /\ status \in ReadingValue /\ current_value_len > MAX_VALUE_LEN => name_read = DATA_FIELD

FieldsAndValue(m) == [fields |-> m.fields, value |-> m.value]

(* The reader of characters implements the reader of members: however the  *)
(* text is cut, and whatever was read or left off before, a text that      *)
(* holds is accepted at its last brace with its members as written, each   *)
(* taken for the fields whose names its name begins with, or is, if it is  *)
(* the receiver.  Of names that only begin one of a field this depends on  *)
(* what the buffer held; no other text is accepted, though any members may *)
(* be taken of it before it is refused.  What stands in the chunk behind   *)
(* the brace is not looked at (parse_data; this is what ParseTx takes for  *)
(* granted).                                                               *)
Reader == INSTANCE MemberReader WITH
    written <- document,
    read <- IF document.holds # "no" THEN [i \in DOMAIN stored |-> FieldsAndValue(stored[i])]
            ELSE << >>,
    outcome <- CASE ret # "MSG_OK"       -> "refused"
                 [] ret = "MSG_OK" /\ Ended -> "accepted"
                 [] OTHER                -> "reading"
ReadsAsWritten == Reader!Spec

(* The size of the data is that of what its base64 text encodes, if the    *)
(* last two characters of the text are in the chunk of the closing quote   *)
(* and the member has the name of the data itself: under a longer name,    *)
(* which is taken for it too, nothing is counted (parse_data).             *)
DataSizeCounted ==
    [][Len(stored') > Len(stored) /\ start <= pos - 2 /\ Len(stored') \in DOMAIN document.size
       => Last(stored').size = document.size[Len(stored')]]_tvars

(* The last two characters of the data are in the buffer when its size is  *)
(* counted: the size is right however the text is cut (parse_data).        *)
DataSizeIsDecodedLength ==
    \A i \in DOMAIN stored \cap DOMAIN document.size : stored[i].size = document.size[i]

(***************************************************************************)
(* Numbers.                                                                *)
(***************************************************************************)
(* The numbers that the beginnings of a sequence of digits write, and the  *)
(* one that all of it writes.                                              *)
NumbersOf(digits, base) ==
    LET f[n \in 0 .. Len(digits)] == IF n = 0 THEN 0 ELSE f[n - 1] * base + digits[n]
    IN  f
NumberOf(digits, base) == NumbersOf(digits, base)[Len(digits)]
AllDigits(str) == \A i \in DOMAIN str : is_digit(str[i])

(* A number that fits 64 bits is read as what it is, leading zeros and     *)
(* all, and nothing but digits is read as a number (parse_int, whose test  *)
(* for an overflow a larger number can pass).                              *)
FittingIntIsRead ==
    Is("int") =>
        /\ ~AllDigits(input.str) => ~parse_int(input.str).ok
        /\ AllDigits(input.str) /\ NumberOf(input.str, 10) < W64 =>
              parse_int(input.str) = Read(NumberOf(input.str, 10))

(* The fee shown is that of the formula, cut by less than one gas price,   *)
(* whenever the limit covers the move; and also when it does not and the   *)
(* subtraction wraps around, for prices that are a multiple of the divider *)
(* (gas_to_fee).                                                           *)
FeeNearFormula ==
    Is("fee") =>
        LET move == gas_unit_for_move_balance(input.data_size)
            price == input.gas_price
            fee == gas_to_fee(input.gas_limit, price, input.data_size)
            formula == GAS_PRICE_DIVIDER * move * price + (input.gas_limit - move) * price
        IN  fee.ok /\ (input.gas_limit >= move \/ price % GAS_PRICE_DIVIDER = 0) =>
                /\ GAS_PRICE_DIVIDER * fee.n <= formula
                /\ formula < GAS_PRICE_DIVIDER * (fee.n + price) \/ price = 0

PrettyInput == make_amount_pretty(input.amount, AmountSize, input.ticker_len, input.decimals)

(* The digits on the screen are worth the amount, with something before    *)
(* the dot and no zeros at the end of the decimals, for tickers that fit   *)
(* suffix (make_amount_pretty).                                            *)
PrettyKeepsValue ==
    Is("pretty") /\ PrettyInput.ok /\ ~PrettyInput.overrun =>
        LET shown == PrettyInput.text
            dot == SelectInSeq(shown, LAMBDA c : c = Dot)
            whole == IF dot = 0 THEN shown ELSE SubSeq(shown, 1, dot - 1)
            decimal == IF dot = 0 THEN << >> ELSE SubSeq(shown, dot + 1, Len(shown))
            places == decimal \o Zeros(input.decimals - Len(decimal))
        IN  /\ whole # << >> /\ Len(places) = input.decimals
            /\ dot # 0 => Last(decimal) # 0
            /\ NumberOf(whole \o places, 10) = NumberOf(input.amount, 10)

(* With a ticker of at most MAX_TICKER_LEN characters, as those of the     *)
(* networks are, and decimals that leave the room it stands for, no byte   *)
(* of an amount is written behind its buffer, before or after its zeros    *)
(* are trimmed.  The guards count the digits alone and take the dot and    *)
(* the ticker for granted, and nothing in the code requires either         *)
(* condition of the description of a token (make_amount_pretty).           *)
PrettyFits ==
    /\ Is("pretty") /\ PrettyInput.ok
    /\ ~PrettyInput.overrun /\ input.decimals <= AmountSize - PRETTY_SIZE - 2
    => PrettyInput.size <= AmountSize

(* The length hashed in front of a message or a token is its decimal text, *)
(* also where the next power of ten does not fit                           *)
(* (uint32_t_to_char_array).                                               *)
LengthTextIsDecimal == Is("u32") => uint32_t_to_char_array(input.n) = DigitsOf(input.n)

(* Data whose second argument is an amount: it stands between the first    *)
(* separator behind the prefix and the next, or the end, or the padding.   *)
IsTransfer(data, amount) ==
    /\ data \in Seq(Nat) /\ amount \in Seq(0 .. 15) /\ Len(data) % 3 = 0
    /\ \E sep \in ESDT_TRANSFER_PREFIX_LENGTH + 1 .. Len(data) :
          LET last == sep + Len(amount)
          IN  /\ data[sep] = SC_ARGS_SEPARATOR
              /\ \A k \in ESDT_TRANSFER_PREFIX_LENGTH + 1 .. sep - 1 : data[k] # SC_ARGS_SEPARATOR
              /\ last <= Len(data) /\ SubSeq(data, sep + 1, last) = amount
              /\ last = Len(data) \/ data[last + 1] \in {SC_ARGS_SEPARATOR, NotPrinted}

(* The amount shown for a transfer is its second argument, for data short  *)
(* enough that its length fits a uint8_t; the texts in its place say what  *)
(* is the case (extract_esdt_value, parse_esdt_data).                      *)
EsdtAmountIsExact ==
    Is("esdt") /\ EncodedLength(input.data) < W8 =>
        LET amount == parse_esdt_data(input.data)
        IN  CASE amount.shown = "amount" -> amount.n = NumberOf(input.amount, 16)
              [] amount.shown = "N/A" -> EncodedLength(input.data) > KeptLength
              [] amount.shown = "too_big" -> Len(input.amount) >= MAX_ESDT_VALUE_HEX_COUNT
              [] OTHER -> FALSE

(***************************************************************************)
(* Login tokens.                                                           *)
(***************************************************************************)
NonZero(value, word) == IF value = 0 THEN << >> ELSE <<Number(value), word>>
WholeTime(n) ==
    NonZero(n \div 3600, TextHours) \o NonZero((n \div 60) % 60, TextMinutes)
        \o NonZero(n % 60, TextSeconds)
Validity == NumberOf(input.str, 10)
ShownValidity == seconds_to_time(input.str)
HasNoNumber(time) ==
    \A i \in DOMAIN time :
        time[i] \in {TextHours, TextMinutes, TextSeconds} \/ time[i].number < 0

(* What the review says of a validity it says of the int that atoi makes   *)
(* of it, which is the validity below 2^31 and has wrapped around above:   *)
(* nothing of 0 and of a text that is no number, more than a day of 25     *)
(* hours and more, the hours, minutes and seconds of less, whose largest   *)
(* unit is shown and whose end may be left out.  A negative int has no     *)
(* number in its text (seconds_to_time).                                   *)
TtlTextIsOfTheInt ==
    Is("ttl") =>
        LET n == AsInt(Validity)
        IN  IF ~AllDigits(input.str) \/ n = 0 THEN ShownValidity = NoTime
            ELSE /\ n >= 25 * 3600 => ShownValidity = MoreThanADay
                 /\ 0 < n /\ n < 25 * 3600 =>
                       Len(ShownValidity) >= 2 /\ IsPrefix(ShownValidity, WholeTime(n))
                 /\ n < 0 => HasNoNumber(ShownValidity)

(* A validity that fits an int is shown as the comment of seconds_to_time  *)
(* says: in hours, minutes and seconds, and as more than a day if it is    *)
(* more than 24 hours.                                                     *)
TtlTextIsDocumented ==
    Is("ttl") /\ AllDigits(input.str) /\ Validity > 0 /\ 2 * Validity < IntValues =>
        ShownValidity = IF Validity > 24 * 3600 THEN MoreThanADay ELSE WholeTime(Validity)

(* The base64 text of an origin, which comes without padding: four         *)
(* characters for the 24 bits of three bytes, zeros behind the last byte.  *)
ByteOf(bytes, i) == IF i <= Len(bytes) THEN bytes[i] ELSE 0
GroupOf(bytes, g) ==
    (ByteOf(bytes, 3 * g + 1) * 256 + ByteOf(bytes, 3 * g + 2)) * 256 + ByteOf(bytes, 3 * g + 3)
Weight == <<64 * 64 * 64, 64 * 64, 64, 1>>
CharacterOf(bytes, i) ==
    (GroupOf(bytes, (i - 1) \div 4) \div Weight[1 + ((i - 1) % 4)]) % 64
EncodedBytes(bytes) == [i \in 1 .. (4 * Len(bytes) + 2) \div 3 |-> CharacterOf(bytes, i)]

(* The origin shown is the one in the token, but for question marks at its *)
(* end, or the beginning and the end of it; one with the reserved prefix   *)
(* is refused, and no other (compute_token_display).                       *)
OriginShownIsOrigin ==
    Is("origin") =>
        LET display == compute_token_display(EncodedBytes(input.bytes), << >>)
            printed == [i \in DOMAIN input.bytes |-> Printed(input.bytes[i])]
            shown == display.origin
            half == (MAX_AUTH_TOKEN_ORIGIN_SIZE - 3) \div 2
        IN  IF IsPrefix(AUTH_TOKEN_INVALID_ORIGIN_PREFIX, printed)
            THEN display.ret = "BAD_REQUEST"
            ELSE /\ display.ret = "OK"
                 /\ \E n \in 1 .. Len(printed) :
                       LET origin == SubSeq(printed, 1, n)
                       IN  /\ \A i \in n + 1 .. Len(printed) : printed[i] = BASE_64_INVALID_CHAR
                           /\ IF n <= MAX_AUTH_TOKEN_ORIGIN_SIZE THEN shown = origin
                              ELSE /\ IsPrefix(SubSeq(origin, 1, half), shown)
                                   /\ IsSuffix(SubSeq(origin, n - half + 1, n), shown)
                                   /\ Len(shown) = MAX_AUTH_TOKEN_ORIGIN_SIZE
==============================================================================
