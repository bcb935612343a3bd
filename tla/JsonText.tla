------------------------------ MODULE JsonText -------------------------------
(***************************************************************************)
(* parse_data (parse_tx.c) at its own grain: one character of the text of  *)
(* a transaction at a time, in chunks the host cuts anywhere.  process_    *)
(* field is taken as far as it tells the fields apart; what it requires of *)
(* their values is in ParseTx.                                             *)
(***************************************************************************)
EXTENDS Naturals, Sequences, SequencesExt

CONSTANTS
    Char,               \* the characters
    Text,               \* the texts a host may send
    Digit,              \* the characters that are digits
    Field,              \* the names of the fields
    HiddenField,        \* those whose values are not kept for the review
    DATA_FIELD,         \* that of the data
    RECEIVER_FIELD,     \* and that of the receiver, among them
    MAX_FIELD_LEN, MAX_VALUE_LEN

Zero == "NUL"
Quote == "\""

ASSUME JsonTextAssumption ==
    /\ Zero \in Char
    /\ {DATA_FIELD, RECEIVER_FIELD} \cup HiddenField \subseteq Field
    /\ \A f \in Field : f \in Seq(Char) /\ Len(f) \in 1 .. MAX_FIELD_LEN
    /\ \A t \in Text : t \in Seq(Char)
    /\ {MAX_FIELD_LEN, MAX_VALUE_LEN} \subseteq Nat \ {0}

VARIABLES
    text, pos,     \* the text and how much of it was handled
    start,         \* where in it the chunk in data_buffer begins
    ret,           \* what parse_data returns
    stored,        \* the members process_field has accepted
    status, current_field, current_field_len,           \* tx_hash_context
    current_value, current_value_len, data_field_size

jvars == <<text, pos, start, ret, stored, status, current_field, current_field_len,
           current_value, current_value_len, data_field_size>>

JsonInit ==
    /\ text = << >> /\ pos = 0 /\ start = 0 /\ ret = "MSG_OK" /\ stored = << >>
    /\ status = "JSON_IDLE"
    /\ current_field = [i \in 1 .. MAX_FIELD_LEN |-> Zero] /\ current_field_len = 0
    /\ current_value = << >> /\ current_value_len = 0
    /\ data_field_size = 0

(* The end of the text, or an error: parse_data has returned.              *)
Ended == ret # "MSG_OK" \/ (status = "JSON_IDLE" /\ pos > 0)

(***************************************************************************)
(* Names.  The buffer of the name keeps the end of a longer name it held   *)
(* before, and the fields are looked for in the whole buffer.              *)
(***************************************************************************)
StartsWith(name) == \A i \in DOMAIN name : current_field[i] = name[i]
name_read == SubSeq(current_field, 1, current_field_len)
is_data_field == IsPrefix(name_read, DATA_FIELD)

Recognised_ByPrefix(f) == StartsWith(f)
Recognised(f) ==
    StartsWith(f) /\ (f = RECEIVER_FIELD => current_field_len = Len(RECEIVER_FIELD))

(***************************************************************************)
(* The size of the data, from the length of its base64 text without the    *)
(* padding.  The last two characters are looked up in data_buffer, which   *)
(* holds other bytes than the text before its beginning.                   *)
(***************************************************************************)
IsPadding(i) == IF i > start THEN {text[i] = "="} ELSE BOOLEAN
DecodedLength_OnePad(last, before) ==
    (current_value_len \div 4) * 3 - (IF last \/ before THEN 1 ELSE 0)
DecodedLength(last, before) ==
    (current_value_len \div 4) * 3 - (IF last THEN 1 ELSE 0) - (IF before THEN 1 ELSE 0)
count_data ==
    \E last \in IsPadding(pos), before \in IsPadding(pos - 1) :
        data_field_size' = IF current_value_len > 2 THEN DecodedLength(last, before)
                           ELSE (current_value_len \div 4) * 3

(***************************************************************************)
(* The characters.  `c' is the one at hand.                                *)
(***************************************************************************)
Go(next) == status' = next /\ UNCHANGED ret
Refuse == ret' = "ERR_INVALID_MESSAGE" /\ UNCHANGED <<status, stored>>

KeepName == UNCHANGED <<current_field, current_field_len>>
KeepValue == UNCHANGED <<current_value, current_value_len>>
TerminateValue ==
    IF current_value_len < MAX_VALUE_LEN
    THEN /\ current_value' = Append(current_value, Zero)
         /\ current_value_len' = current_value_len + 1
    ELSE KeepValue

process_field(next, next_if_refused) ==
    LET fields == {f \in Field : Recognised(f)}
        empty == current_field_len = 0 \/ current_value_len = 0
    IN  /\ IF empty THEN KeepValue ELSE TerminateValue
        /\ IF empty \/ fields = {}
           THEN ret' = "ERR_INVALID_MESSAGE" /\ status' = next_if_refused /\ UNCHANGED stored
           ELSE /\ stored' = Append(stored, [fields |-> fields \ HiddenField,
                                             value |-> current_value, size |-> data_field_size'])
                /\ Go(next)

KeepSize == UNCHANGED data_field_size
Keep == KeepName /\ KeepValue /\ KeepSize

Punctuation(from, sign, to) ==
    /\ status = from
    /\ \/ text[pos + 1] = sign /\ Go(to) /\ UNCHANGED stored
       \/ text[pos + 1] # sign /\ Refuse
    /\ KeepSize

Idle == Punctuation("JSON_IDLE", "{", "JSON_EXPECTING_FIELD") /\ KeepName /\ KeepValue
ExpectingField ==
    /\ Punctuation("JSON_EXPECTING_FIELD", Quote, "JSON_PROCESSING_FIELD")
    /\ current_field_len' = IF text[pos + 1] = Quote THEN 0 ELSE current_field_len
    /\ UNCHANGED current_field /\ KeepValue
ExpectingColon ==
    /\ Punctuation("JSON_EXPECTING_COLON", ":", "JSON_EXPECTING_VALUE")
    /\ IF text[pos + 1] = ":" THEN current_value' = << >> /\ current_value_len' = 0
       ELSE KeepValue
    /\ KeepName

ProcessingField ==
    LET c == text[pos + 1]
    IN  /\ status = "JSON_PROCESSING_FIELD"
        /\ \/ /\ c = Quote
              /\ Go("JSON_EXPECTING_COLON") /\ KeepName /\ UNCHANGED stored
           \/ /\ c # Quote /\ current_field_len >= MAX_FIELD_LEN
              /\ Refuse /\ KeepName
           \/ /\ c # Quote /\ current_field_len < MAX_FIELD_LEN
              /\ current_field' = [current_field EXCEPT ![current_field_len + 1] = c]
              /\ current_field_len' = current_field_len + 1
              /\ UNCHANGED <<ret, status, stored>>
        /\ KeepValue /\ KeepSize

AppendToValue(c) ==
    /\ current_value' = Append(current_value, c)
    /\ current_value_len' = current_value_len + 1
    /\ UNCHANGED <<ret, stored>>

ExpectingValue ==
    LET c == text[pos + 1]
    IN  /\ status = "JSON_EXPECTING_VALUE"
        /\ \/ /\ c = Quote
              /\ Go("JSON_PROCESSING_STRING_VALUE") /\ KeepValue /\ UNCHANGED stored
           \/ /\ c \in Digit
              /\ status' = "JSON_PROCESSING_NUMERIC_VALUE" /\ AppendToValue(c)
           \/ /\ c # Quote /\ c \notin Digit
              /\ Refuse /\ KeepValue
        /\ KeepName /\ KeepSize

(* Of data too long to keep the characters are counted.                    *)
MayOnlyCount_ByPrefix == is_data_field
MayOnlyCount == is_data_field /\ current_field_len = Len(DATA_FIELD)
ProcessingStringValue ==
    LET c == text[pos + 1]
    IN  /\ status = "JSON_PROCESSING_STRING_VALUE"
        /\ \/ /\ c = Quote
              /\ IF is_data_field THEN count_data ELSE KeepSize
              /\ process_field("JSON_EXPECTING_COMMA", status)
           \/ /\ c # Quote /\ current_value_len < MAX_VALUE_LEN
              /\ AppendToValue(c) /\ UNCHANGED status /\ KeepSize
           \/ /\ c # Quote /\ current_value_len >= MAX_VALUE_LEN /\ MayOnlyCount
              /\ current_value_len' = current_value_len + 1
              /\ UNCHANGED <<ret, status, stored, current_value>> /\ KeepSize
           \/ /\ c # Quote /\ current_value_len >= MAX_VALUE_LEN /\ ~MayOnlyCount
              /\ Refuse /\ KeepValue /\ KeepSize
        /\ KeepName

ProcessingNumericValue ==
    LET c == text[pos + 1]
    IN  /\ status = "JSON_PROCESSING_NUMERIC_VALUE"
        /\ KeepName /\ KeepSize
        /\ \/ c = "}" /\ process_field("JSON_IDLE", "JSON_IDLE")
           \/ c = "," /\ process_field("JSON_EXPECTING_FIELD", status)
           \/ /\ c \in Digit /\ current_value_len < MAX_VALUE_LEN
              /\ AppendToValue(c) /\ UNCHANGED status
           \/ /\ c \notin {"}", ","}
              /\ c \notin Digit \/ current_value_len >= MAX_VALUE_LEN
              /\ Refuse /\ KeepValue

ExpectingComma ==
    LET c == text[pos + 1]
    IN  /\ status = "JSON_EXPECTING_COMMA"
        /\ \/ c = "}" /\ Go("JSON_IDLE") /\ UNCHANGED stored
           \/ c = "," /\ Go("JSON_EXPECTING_FIELD") /\ UNCHANGED stored
           \/ c \notin {"}", ","} /\ Refuse
        /\ Keep

(* One turn of the loop of parse_data.                                     *)
Character ==
    /\ pos < Len(text) /\ ~Ended
    /\ \/ Idle \/ ExpectingField \/ ProcessingField \/ ExpectingColon \/ ExpectingValue
       \/ ProcessingStringValue \/ ProcessingNumericValue \/ ExpectingComma
    /\ pos' = pos + 1
    /\ UNCHANGED <<text, start>>

(* The chunk ends and the next one is received.                            *)
NextChunk ==
    /\ start < pos /\ ~Ended
    /\ start' = pos
    /\ UNCHANGED <<text, pos, ret, stored, status, data_field_size>>
    /\ KeepName /\ KeepValue

(* A first chunk, after the end of a text or instead of its next chunk:    *)
(* init_tx_context cleans no more of tx_hash_context than its status.  The *)
(* lengths are set before they are read again, so that only the buffer of  *)
(* the name and the size of the data outlive a text.                       *)
FirstChunk(t) ==
    /\ Ended \/ start = pos
    /\ text' = t /\ pos' = 0 /\ start' = 0 /\ ret' = "MSG_OK" /\ stored' = << >>
    /\ status' = "JSON_IDLE"
    /\ current_field_len' = 0 /\ current_value' = << >> /\ current_value_len' = 0
    /\ UNCHANGED current_field /\ KeepSize

JsonNext == Character \/ NextChunk \/ \E t \in Text : FirstChunk(t)
JsonSpec == JsonInit /\ [][JsonNext]_jvars
==============================================================================
