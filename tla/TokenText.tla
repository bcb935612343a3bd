------------------------------ MODULE TokenText ------------------------------
(***************************************************************************)
(* What the review of a login token says (compute_token_display of         *)
(* utils.c): "Authorizing <origin> for <ttl>".  The origin is a sequence   *)
(* of characters as in Base64; the ttl text a sequence of pieces, each a   *)
(* number or a word.                                                       *)
(***************************************************************************)
EXTENDS Integers, Sequences, SequencesExt, Base64

CONSTANTS
    IntValues,                           \* how many values an int has
    AUTH_TOKEN_ENCODED_ORIGIN_MAX_SIZE,
    MAX_AUTH_TOKEN_ORIGIN_SIZE,
    MAX_INT_NUM_DIGITS,
    AUTH_TOKEN_INVALID_ORIGIN_PREFIX     \* as decoded characters

ASSUME TokenTextAssumption ==
    /\ IntValues \in Nat \ {0}
    /\ AUTH_TOKEN_ENCODED_ORIGIN_MAX_SIZE \in Nat \ {0, 1}
    /\ MAX_AUTH_TOKEN_ORIGIN_SIZE \in Nat \ {0, 1, 2}
    /\ MAX_INT_NUM_DIGITS \in Nat

(***************************************************************************)
(* seconds_to_time.  An int that overflows wraps around.                   *)
(***************************************************************************)
AsInt(n) == LET r == n % IntValues IN IF 2 * r < IntValues THEN r ELSE r - IntValues
AtoiAfter(str) ==
    LET res[n \in 0 .. Len(str)] == IF n = 0 THEN 0 ELSE AsInt(res[n - 1] * 10 + str[n])
    IN  res
atoi(str) ==
    IF \E i \in DOMAIN str : str[i] \notin 0 .. 9 THEN 0
    ELSE AtoiAfter(str)[Len(str)]

(* Division rounds towards zero.                                           *)
Quotient(a, b) == IF a >= 0 THEN a \div b ELSE -((-a) \div b)

Number(n) == [number |-> n]
Word(w, len) == [word |-> w, len |-> len]
TextHours == Word("h", 2)
TextMinutes == Word("min", 4)
TextSeconds == Word("sec.", 4)
DigitCount(n) ==
    LET count[k \in 0 .. n] == IF k < 10 THEN 1 ELSE 1 + count[k \div 10]
    IN  count[n]
PieceLength(piece) ==
    IF "word" \in DOMAIN piece THEN piece.len
    ELSE IF piece.number < 0 THEN 0 ELSE DigitCount(piece.number)
LengthsOf(text) ==
    LET len[k \in 0 .. Len(text)] == IF k = 0 THEN 0 ELSE len[k - 1] + PieceLength(text[k])
    IN  len
TextLength(text) == LengthsOf(text)[Len(text)]

(* The limit is the room of append_time's own buffer, applied to the whole *)
(* text so far; what does not fit is left out.                             *)
append_to_str(piece, text) ==
    IF PieceLength(piece) + TextLength(text) >= MAX_INT_NUM_DIGITS + 1 THEN text
    ELSE Append(text, piece)
append_time(value, word, text) ==
    IF value = 0 THEN text ELSE append_to_str(word, append_to_str(Number(value), text))

Hours(n) == Quotient(n, 3600)
Minutes_OfAll(n) == Quotient(n, 60)
Minutes(n) == Quotient(n - 3600 * Hours(n), 60)
Seconds(n) == n - 3600 * Hours(n) - 60 * Minutes(n)

NoTime == <<Word("N/A_time", 8)>>
MoreThanADay == <<Word("more_than_one_day", 17)>>
seconds_to_time(str) ==
    LET n == atoi(str)
    IN  CASE n = 0 -> NoTime
          [] n # 0 /\ Hours(n) > 24 -> MoreThanADay
          [] OTHER -> append_time(Seconds(n), TextSeconds,
                        append_time(Minutes(n), TextMinutes,
                          append_time(Hours(n), TextHours, << >>)))

(***************************************************************************)
(* The origin.                                                             *)
(***************************************************************************)
PaddingCount_None(len) == 0
PaddingCount(len) == IF len % 4 = 0 THEN 0 ELSE 4 - (len % 4)
Padded(encoded) == encoded \o [i \in 1 .. PaddingCount(Len(encoded)) |-> Pad]

(* All but the first of the '?' at the end.                                *)
WithoutInvalidEnd(text) ==
    LET last == SelectLastInSeq(text, LAMBDA c : c # BASE_64_INVALID_CHAR)
    IN  SubSeq(text, 1, IF last = 0 THEN 1 ELSE last)

Ellipsis == <<46, 46, 46>>
replacement_index(allowed_len) == (allowed_len - Len(Ellipsis)) \div 2
truncate_if_needed(text, max_dest_len) ==
    LET index == replacement_index(max_dest_len)
        remaining == max_dest_len - index - Len(Ellipsis)
    IN  IF Len(text) <= max_dest_len THEN text
        ELSE SubSeq(text, 1, index) \o Ellipsis
                 \o SubSeq(text, Len(text) - remaining + 1, Len(text))

Display(ret, origin, ttl) == [ret |-> ret, origin |-> origin, ttl |-> ttl]
compute_token_display(origin, ttl) ==
    LET kept == IF Len(origin) < AUTH_TOKEN_ENCODED_ORIGIN_MAX_SIZE THEN origin
                ELSE SubSeq(origin, 1, AUTH_TOKEN_ENCODED_ORIGIN_MAX_SIZE - 1)
        decoded == base64decode(Padded(kept))
        reserved == IsPrefix(AUTH_TOKEN_INVALID_ORIGIN_PREFIX, decoded.text)
    IN  CASE origin = << >> \/ ~decoded.ok -> Display("INVALID", << >>, << >>)
          [] origin # << >> /\ decoded.ok /\ reserved -> Display("BAD_REQUEST", << >>, << >>)
          [] OTHER -> Display("OK",
                 truncate_if_needed(WithoutInvalidEnd(decoded.text), MAX_AUTH_TOKEN_ORIGIN_SIZE),
                 IF ttl = << >> THEN NoTime ELSE seconds_to_time(ttl))
==============================================================================
