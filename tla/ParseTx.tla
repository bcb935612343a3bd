------------------------------- MODULE ParseTx -------------------------------
(***************************************************************************)
(* The streaming parser of transactions (parse_tx.c), as operators on the  *)
(* parser's status and on the fields kept for the review.  A transaction   *)
(* is JSON text; here it is a sequence of punctuation and of members, a    *)
(* member being a quoted name, its colon and its value.  Chunks end        *)
(* between two of these.  A member stands for the field its name is taken  *)
(* for: names are compared by their beginnings, all but `receiver', so     *)
(* that `dataX' is `data' (JsonText has the names themselves).  The one    *)
(* difference is in the size, which is counted only under the name `data'. *)
(***************************************************************************)
EXTENDS EsdtInfo, SequencesExt

CONSTANTS
    Value,           \* the values of members
    Malformed,       \* those the check of their field refuses
    Lengthy,         \* of those, amounts refused for their length
    NotInteger,      \* and versions and options that are no numbers
    Unprintable,     \* numbers too long to show: amounts of 32 digits or more, and
                     \* gas figures whose fee has 31 or more
    NotHex,          \* ESDT amounts that parse_hex refuses
    Network,         \* Network[chain id]: the network named by its first letter
    DataSize,        \* DataSize[v]: the decoded size of data v
    EsdtIdentifier,  \* EsdtIdentifier[v]: the token data v transfers, or << >>
    EsdtValue,       \* EsdtValue[v]: the amount read from data v, or NoEsdtValue
    EsdtValueOverrun, \* EsdtValueOverrun[v]: what chain id v leaves in esdt_value
    GuardianOverrun   \* GuardianOverrun[v]: what it leaves in guardian

FieldName ==
    {"nonce", "value", "receiver", "sender", "gasPrice", "gasLimit", "data", "chainID",
     "version", "options", "senderUsername", "receiverUsername", "guardian", "relayer",
     "unknown"}
TxMember == [field : FieldName, value : Value]
Punctuation == [punct : {"{", ",", "}"}]
TxToken == TxMember \cup Punctuation

Open == [punct |-> "{"]
Comma == [punct |-> ","]
Close == [punct |-> "}"]
IsMember(token) == "field" \in DOMAIN token

(***************************************************************************)
(* tx_context, apart from the signature.  An amount is its digits and the  *)
(* units make_amount_pretty has put on them.                               *)
(***************************************************************************)
NoValue == ""
NoEsdtValue == ""
(* A member without a value is refused like one with an unknown field, and *)
(* counted among those.                                                    *)
ASSUME ValueAssumption == NoValue \notin Value /\ Lengthy \subseteq Malformed

EsdtValueTooHigh == "ESDT_CODE_VALUE_TOO_HIGH"

Amount(digits) == [digits |-> digits, units |-> << >>]
Unit(ticker, decimals) == [ticker |-> ticker, decimals |-> decimals]
Pretty(amount, unit) == [amount EXCEPT !.units = Append(@, unit)]
(* sizeof(amount) - 2: more decimals than this do not fit the buffer.      *)
MaxDecimals == 42
Printable(digits, decimals) == digits \notin Unprintable /\ decimals <= MaxDecimals

NoFee == [gasLimit |-> NoValue, gasPrice |-> NoValue, data_size |-> 0, unit |-> NoValue]
Fee(gasLimit, gasPrice, data_size, unit) ==
    [gasLimit |-> gasLimit, gasPrice |-> gasPrice, data_size |-> data_size, unit |-> unit]

NoTx ==
    [amount |-> Amount(NoValue), receiver |-> NoValue, guardian |-> NoValue,
     relayer |-> NoValue, gasPrice |-> NoValue, gasLimit |-> NoValue, fee |-> NoFee,
     data |-> NoValue, data_size |-> 0, esdt_value |-> NoEsdtValue,
     chain_id |-> NoValue, network |-> NoValue]

CleanTx_NotGuardian(ctx) == [NoTx EXCEPT !.guardian = ctx.guardian]
CleanTx(ctx) == NoTx

TickerOf(chain) == IF Network[chain] = "Mainnet" THEN "EGLD" ELSE "xEGLD"
DECIMAL_PLACES == 18

(* extract_esdt_value leaves the field alone when there is nothing to read *)
verify_data(ctx, v) ==
    [ctx EXCEPT !.data = v,
                !.data_size = DataSize[v],
                !.esdt_value = IF EsdtIdentifier[v] # << >> /\ EsdtValue[v] # NoEsdtValue
                               THEN EsdtValue[v] ELSE @]

(***************************************************************************)
(* The chain id is copied whole, up to 128 characters, into a buffer of    *)
(* four.  The rest runs over the fields behind it: from 4 characters on    *)
(* the signature (written again before any review), from 68 on esdt_value, *)
(* from 112 on the network (named right after the copy) and from 120 on    *)
(* the guardian, up to its eighth character.  A chain id that just reaches *)
(* esdt_value or the guardian empties it with its ending zero, a longer    *)
(* one leaves its tail there.  128 characters end without a zero, and what *)
(* they leave may go on with the rest of an earlier guardian; one value    *)
(* stands for all of these.                                                *)
(***************************************************************************)
NotReached == "not reached"
Overrun(kept, left) == IF left = NotReached THEN kept ELSE left

(* The fee and the pretty amount are worked out here, from what the fields *)
(* read so far have left.                                                  *)
verify_chainid_NoData(ctx, v) ==
    [ctx EXCEPT !.chain_id = v,
                !.esdt_value = Overrun(@, EsdtValueOverrun[v]),
                !.network = Network[v],
                !.guardian = Overrun(@, GuardianOverrun[v]),
                !.fee = Fee(ctx.gasLimit, ctx.gasPrice, 0, TickerOf(v)),
                !.amount = Pretty(@, Unit(TickerOf(v), DECIMAL_PLACES))]
verify_chainid(ctx, v) ==
    [ctx EXCEPT !.chain_id = v,
                !.esdt_value = Overrun(@, EsdtValueOverrun[v]),
                !.network = Network[v],
                !.guardian = Overrun(@, GuardianOverrun[v]),
                !.fee = Fee(ctx.gasLimit, ctx.gasPrice, ctx.data_size, TickerOf(v)),
                !.amount = Pretty(@, Unit(TickerOf(v), DECIMAL_PLACES))]

StoredField(ctx, field, v) ==
    CASE field = "value"   -> [ctx EXCEPT !.amount = Amount(v)]
      [] field = "data"    -> verify_data(ctx, v)
      [] field = "chainID" -> verify_chainid(ctx, v)
      [] field \in {"receiver", "guardian", "relayer", "gasPrice", "gasLimit"} ->
                              [ctx EXCEPT ![field] = v]
      [] OTHER             -> ctx

CheckedField ==
    {"value", "receiver", "gasPrice", "gasLimit", "data", "version", "options", "guardian",
     "relayer"}
(* How the check of a field refuses a malformed value.                     *)
FieldError(field, v) ==
    CASE field = "value" /\ v \in Lengthy         -> "ERR_AMOUNT_TOO_LONG"
      [] field = "value" /\ v \notin Lengthy      -> "ERR_INVALID_AMOUNT"
      [] field = "receiver"                       -> "ERR_RECEIVER_TOO_LONG"
      [] field \in {"gasPrice", "gasLimit"}       -> "ERR_INVALID_FEE"
      [] field = "version" /\ v \notin NotInteger -> "ERR_WRONG_TX_VERSION"
      [] field = "options" /\ v \notin NotInteger -> "ERR_WRONG_TX_OPTIONS"
      [] OTHER                                    -> "ERR_INVALID_MESSAGE"

(* Every status but MSG_OK that parse_data returns.                        *)
ParseError ==
    {"ERR_AMOUNT_TOO_LONG", "ERR_INVALID_AMOUNT", "ERR_RECEIVER_TOO_LONG", "ERR_INVALID_FEE",
     "ERR_WRONG_TX_VERSION", "ERR_WRONG_TX_OPTIONS", "ERR_INVALID_MESSAGE",
     "ERR_CONTRACT_DATA_DISABLED", "ERR_PRETTY_FAILED"}

HugeFee(ctx) == {ctx.gasPrice, ctx.gasLimit} \cap Unprintable # {}

DataDisabled_Unchecked(setting, field) == FALSE
DataDisabled(setting, field) == field = "data" /\ ~setting

process_field(ctx, setting, field, v) ==
    CASE field = "unknown" -> "ERR_INVALID_MESSAGE"
      [] DataDisabled(setting, field) -> "ERR_CONTRACT_DATA_DISABLED"
      [] ~DataDisabled(setting, field) /\ field \in CheckedField /\ v \in Malformed ->
             FieldError(field, v)
      [] field = "chainID" /\ HugeFee(ctx) -> "ERR_INVALID_FEE"
      [] field = "chainID" /\ ~HugeFee(ctx) /\ ~Printable(ctx.amount.digits, DECIMAL_PLACES) ->
             "ERR_PRETTY_FAILED"
      [] OTHER -> "MSG_OK"

(***************************************************************************)
(* parse_data.  `done' is set once the function returns; the end of the    *)
(* text leaves the rest of the chunk unread.                               *)
(***************************************************************************)
Failed(p, err) == [p EXCEPT !.ret = err, !.done = TRUE]

ParseMember(p, setting, member) ==
    LET err == process_field(p.ctx, setting, member.field, member.value)
    IN  IF err # "MSG_OK" THEN Failed(p, err)
        ELSE [p EXCEPT !.status = "JSON_EXPECTING_COMMA",
                       !.ctx = StoredField(@, member.field, member.value)]

ParseToken(p, setting, token) ==
    CASE p.done -> p
      [] ~p.done /\ p.status = "JSON_IDLE" /\ token = Open ->
             [p EXCEPT !.status = "JSON_EXPECTING_FIELD"]
      [] ~p.done /\ p.status = "JSON_EXPECTING_FIELD" /\ IsMember(token) ->
             ParseMember(p, setting, token)
      [] ~p.done /\ p.status = "JSON_EXPECTING_COMMA" /\ token = Comma ->
             [p EXCEPT !.status = "JSON_EXPECTING_FIELD"]
      [] ~p.done /\ p.status = "JSON_EXPECTING_COMMA" /\ token = Close ->
             [p EXCEPT !.status = "JSON_IDLE", !.done = TRUE]
      [] OTHER -> Failed(p, "ERR_INVALID_MESSAGE")

(* The parser after each number of tokens.                                 *)
ParserAfter(start, setting, tokens) ==
    LET p[n \in 0 .. Len(tokens)] ==
            IF n = 0 THEN start ELSE ParseToken(p[n - 1], setting, tokens[n])
    IN  p

StartOfChunk(status, ctx) == [status |-> status, ctx |-> ctx, ret |-> "MSG_OK", done |-> FALSE]
parse_data(status, ctx, setting, tokens) ==
    LET start == StartOfChunk(status, ctx)
    IN  IF tokens = << >> /\ status = "JSON_IDLE" THEN Failed(start, "ERR_INVALID_MESSAGE")
        ELSE ParserAfter(start, setting, tokens)[Len(tokens)]

(***************************************************************************)
(* parse_esdt_data: the amount of the token, in place of the amount of the *)
(* transaction.                                                            *)
(***************************************************************************)
parse_esdt_data(ctx) ==
    LET digits == ctx.esdt_value
        raw == [ctx EXCEPT !.amount = Amount(digits)]
        message(m) == [ret |-> "MSG_OK", ctx |-> [ctx EXCEPT !.amount = Amount(m)]]
    IN  CASE digits = NoEsdtValue      -> message("N/A")
          [] digits = EsdtValueTooHigh -> message("<value too big to display>")
          [] digits \in NotHex \ {NoEsdtValue, EsdtValueTooHigh} ->
                message("<value cannot be parsed to hex>")
          [] digits \notin NotHex \cup {NoEsdtValue, EsdtValueTooHigh} ->
                IF Printable(digits, esdt_info.decimals)
                THEN [ret |-> "MSG_OK",
                      ctx |-> [raw EXCEPT !.amount =
                                  Pretty(@, Unit(esdt_info.ticker, esdt_info.decimals))]]
                ELSE [ret |-> "ERR_PRETTY_FAILED", ctx |-> raw]
==============================================================================
