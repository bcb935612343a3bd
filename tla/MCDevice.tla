------------------------------ MODULE MCDevice -------------------------------
(***************************************************************************)
(* Small instances of Device.  Each set of commands below is the host of   *)
(* one or more runs.                                                       *)
(***************************************************************************)
EXTENDS DeviceProperties

AddressOne == "0/0"
AddressTwo == "0/1"

(* Bytes and the chunks made of them: . is the dot of a token, m begins a  *)
(* reserved origin, ! is not base64, 0 is the zero byte.                   *)
MCBytes == {"a", "b", ".", "m", "!", "0"}
MCNotBase64 == {"!"}
Item(b) == [byte |-> b]
Chunks(bytes, n) == BoundedSeq({Item(b) : b \in bytes}, n)

FirstMsg(lens, bytes, n) ==
    [ins : {"SIGN_MSG"}, p1 : {"P1_FIRST"}, short : {FALSE}, len : lens, bytes : Chunks(bytes, n)]
MoreMsg(bytes, n) ==
    [ins : {"SIGN_MSG"}, p1 : {"P1_MORE"}, short : {FALSE}, len : {0}, bytes : Chunks(bytes, n)]
OddMsg ==
    {[ins |-> "SIGN_MSG", p1 |-> "P1_FIRST", short |-> TRUE, len |-> 0, bytes |-> << >>],
     [ins |-> "SIGN_MSG", p1 |-> "P1_OTHER", short |-> FALSE, len |-> 0, bytes |-> << >>]}

FirstToken(addresses, lens, bytes, n) ==
    [ins : {"AUTH_TOKEN"}, p1 : {"P1_FIRST"}, short : {FALSE}, address : addresses,
     len : lens, bytes : Chunks(bytes, n)]
MoreToken(bytes, n) ==
    [ins : {"AUTH_TOKEN"}, p1 : {"P1_MORE"}, short : {FALSE}, address : {AddressOne},
     len : {0}, bytes : Chunks(bytes, n)]
ShortToken ==
    [ins |-> "AUTH_TOKEN", p1 |-> "P1_FIRST", short |-> TRUE, address |-> AddressOne,
     len |-> 0, bytes |-> << >>]
OddToken ==
    [ins |-> "AUTH_TOKEN", p1 |-> "P1_OTHER", short |-> FALSE, address |-> AddressOne,
     len |-> 0, bytes |-> << >>]

SetAddr(addresses, sized) == [ins : {"SET_ADDR"}, address : addresses, sized : sized]
GetAddr(addresses) ==
    [ins : {"GET_ADDR"}, address : addresses, sized : {TRUE},
     p1 : {"P1_CONFIRM", "P1_NON_CONFIRM"}, p2 : {"BECH32"}]
OddGetAddr ==
    {[ins |-> "GET_ADDR", address |-> AddressOne, sized |-> TRUE, p1 |-> "P1_CONFIRM",
      p2 |-> "P2_OTHER"]}

(***************************************************************************)
(* Transactions.  A full text is a brace, members and commas; hosts cut it *)
(* anywhere.                                                               *)
(***************************************************************************)
MCValue ==
    {"1", "T", "long", "longest", "bad", "lengthy", "r1", "g1", "5", "huge", "text", "pay", "far",
     "vague"}
(* Two chain ids are longer than their buffer: one that begins with a T    *)
(* and empties esdt_value, one that begins with a 1, leaves a text in      *)
(* esdt_value and empties the guardian.                                    *)
MCNetwork ==
    [v \in MCValue |-> CASE v \in {"1", "longest"} -> "Mainnet"
                         [] v \in {"T", "long"} -> "Testnet"
                         [] OTHER -> "Unknown"]
MCEsdtValueOverrun ==
    [v \in MCValue |-> CASE v = "long" -> NoEsdtValue
                         [] v = "longest" -> "zz"
                         [] OTHER -> NotReached]
MCGuardianOverrun == [v \in MCValue |-> IF v = "longest" THEN NoValue ELSE NotReached]
MCDataSize == [v \in MCValue |-> IF v \in {"text", "pay", "far", "vague"} THEN 3 ELSE 0]
MCEsdtIdentifier ==
    [v \in MCValue |-> CASE v \in {"pay", "vague"} -> <<"t", "k">>
                         [] v = "far" -> <<"t">>
                         [] OTHER -> << >>]
MCEsdtValue == [v \in MCValue |-> IF v \in {"pay", "far"} THEN "5" ELSE NoEsdtValue]

Member(f, v) == [field |-> f, value |-> v]
TxChunks(first, more) ==
    [ins : {"SIGN_TX_HASH"}, p1 : {"P1_FIRST"}, tokens : first]
        \cup [ins : {"SIGN_TX_HASH"}, p1 : {"P1_MORE"}, tokens : more]
OddTx == {[ins |-> "SIGN_TX_HASH", p1 |-> "P1_OTHER", tokens |-> << >>]}

Token(ticker, identifier, decimals, chain) ==
    [ticker |-> ticker, identifier |-> identifier, decimals |-> decimals, chain_id |-> chain]
TokenA == Token("TKA", <<"t", "k">>, 6, "1")
TokenB == Token("TKB", <<"t">>, 43, "T")
MCTicker == {"TKA", "TKB"}
MCIdentifierChar == {"t", "k"}
MCChainId == {"1", "T"}
TokenC == Token("TKB", <<"t">>, 2, "1")
MCSignedTokens == {TokenA, TokenB, TokenC}
Provide(tokens, complete) ==
    {c \in [ins : {"PROVIDE_ESDT_INFO"}, token : tokens, complete : complete, signed : BOOLEAN] :
        c.signed => c.token \in MCSignedTokens}
Other(instructions) == [ins : instructions]

(* Small stand-ins for the sizes of the token buffers: one character of an *)
(* origin is kept and two are too many, a ttl of one character fits, and   *)
(* tokens of four or more are shown cut.                                   *)
MCOriginSize == 4
MCTtlSize == 2
MCDisplaySize == 4
MCAddressLen == 62

(***************************************************************************)
(* What the hash context may have absorbed.  It only grows without limit   *)
(* when a finished hash is continued, in a session that outlived it.       *)
(***************************************************************************)
MaxHashed == 10
HashedWithinBound == Len(sha3_context) <= MaxHashed

(* Once a transaction was begun only the tokens of up to two bytes go on.  *)
MaxHashedBeside == 6
TokensWithinBound ==
    Len(sha3_context) <= IF tx_hash_context.status = "JSON_IDLE" THEN MaxHashed ELSE MaxHashedBeside

(* With every failure of every call a run stops once a hash was finished   *)
(* and the screen is the menu, one component has left something, and what  *)
(* leaves nothing is answered before that.                                 *)
Unfinished ==
    ux = "menu" => {msg_context.hash, auth_context.hash, tx_hash_context.hash} = {<< >>}
UsedContexts ==
    {i \in 1 .. 4 :
        \/ i = 1 /\ msg_context # ZeroMsgContext
        \/ i = 2 /\ auth_context # ZeroAuthContext
        \/ i = 3 /\ <<esdt_info, tx_context>> # <<ZeroEsdtInfo, NoTx>>
        \/ i = 4 /\ <<bip32, address>> # <<ZeroAddress, ZeroAddressBuffer>>}
IsPlain(reply) ==
    \/ reply.data.kind \in {"version", "configuration"}
    \/ reply.sw \in {"ERR_SIGN_TX_DEPRECATED", "ERR_UNKNOWN_INSTRUCTION", "ERR_WRONG_CLA", "0x6982"}
FirstSession ==
    /\ Len(sha3_context) <= 4 /\ Unfinished /\ Cardinality(UsedContexts) <= 1
    /\ IsPlain(tx) \/ IsPlain(answer) => UsedContexts = {}

(***************************************************************************)
(* The hosts.                                                              *)
(***************************************************************************)
(* Messages, and a transaction that cuts into their sessions.              *)
MessageCommands ==
    FirstMsg({0, 1, 2}, {"a"}, 2) \cup MoreMsg({"a"}, 2) \cup OddMsg
        \cup SetAddr({AddressOne, AddressTwo}, {TRUE})
        \cup TxChunks({<<Open, Member("nonce", "1")>>}, {<<Close>>})

(* A text in up to five chunks, in any order and with repetitions.         *)
Further(f, v) == <<Comma, Member(f, v)>>
TransactionCommands ==
    TxChunks({<<Open, Member("value", "5"), Comma, Member("gasPrice", "5")>>,
              <<Open, Member("receiver", "r1"), Comma, Member("guardian", "g1")>>},
             {Further("gasLimit", "5"), Further("data", "text"), Further("chainID", "1"),
              Further("chainID", "longest"), Further("value", "bad"), <<Close>>, <<Close, Comma>>})

(* Login tokens, from a host that sends no more than it has announced, and *)
(* a transaction that is begun between their chunks and could only end in  *)
(* a session that is not its own.                                          *)
Bytes(s) == [i \in DOMAIN s |-> Item(s[i])]
FirstTexts == {<< >>, <<"a">>, <<"a", ".">>, <<"!", ".">>, <<"m", ".">>, <<"a", "b", "a", ".">>,
               <<"a", ".", "b", ".", "a", ".">>, <<"0", "a", "0", "b", ".">>, <<"a", "0">>}
MoreTexts == {<< >>, <<"b">>, <<".", "a">>, <<"b", "a", ".", "a">>}
FirstTokens(texts, lens) ==
    [ins : {"AUTH_TOKEN"}, p1 : {"P1_FIRST"}, short : {FALSE}, address : {AddressOne},
     len : lens, bytes : {Bytes(t) : t \in texts}]
FirstMessages(texts, lens) ==
    [ins : {"SIGN_MSG"}, p1 : {"P1_FIRST"}, short : {FALSE}, len : lens,
     bytes : {Bytes(t) : t \in texts}]
MoreTokens(texts) ==
    [ins : {"AUTH_TOKEN"}, p1 : {"P1_MORE"}, short : {FALSE}, address : {AddressOne},
     len : {0}, bytes : {Bytes(t) : t \in texts}]
TokenCommands ==
    {c \in FirstTokens(FirstTexts, {2, 6}) : Len(c.bytes) <= c.len}
        \cup MoreTokens(MoreTexts) \cup {OddToken}
        \cup TxChunks({<<Open>>}, {<<Open, Member("nonce", "1"), Close>>})

(* Token transfers, before and after the description of a token, and texts *)
(* whose first chain id is too long.                                       *)
FullText(members) == <<Open, Member("value", "1")>> \o members \o <<Close>>
TransferTexts ==
    {FullText(Further("data", d) \o Further("chainID", c)) :
        d \in {"pay", "far", "vague", "text"}, c \in {"1", "T"}}
        \cup {FullText(Further("data", "pay") \o Further("chainID", c) \o Further("chainID", "1")) :
                c \in {"long", "longest"}}
        \cup {FullText(Further("chainID", c) \o Further("data", "pay") \o Further("chainID", "1")) :
                c \in {"long", "longest"}}
        \cup {FullText(Further("chainID", "longest") \o Further("guardian", "g1")),
              FullText(Further("guardian", "g1") \o Further("chainID", "longest"))}

TransferCommands ==
    Provide(MCSignedTokens, {2, 3, EsdtFieldCount})
        \cup TxChunks(TransferTexts, {<<Open, Member("data", "pay"), Close>>, <<Close>>})

(* Both, one after the other only when the memory is lost in between: a    *)
(* device that has taken a transfer takes no other transaction.            *)
ReviewCommands == TransactionCommands \cup TransferCommands
TxHashes == {sha3_context, tx_hash_context.hash, tx_signature.hash} \ {<< >>}
OfTransfer(hash) == Member("value", "1") \in Range(hash)
TransfersTaken == esdt_info # ZeroEsdtInfo \/ \E hash \in TxHashes : OfTransfer(hash)
TransactionsTaken == \E hash \in TxHashes : ~OfTransfer(hash)
OneKindWithinBound == HashedWithinBound /\ ~(TransfersTaken /\ TransactionsTaken)

(* Every instruction, with the ways each can end: answered or refused at   *)
(* once, answered after a review, or ended by a failing call.              *)
ProtocolCommands ==
    FirstMessages({<< >>, <<"a", "a">>}, {1}) \cup MoreMsg({"a"}, 1)
        \cup FirstTokens({<<"m", ".">>, <<"a">>, <<"a", "b", ".">>}, {2}) \cup MoreTokens({<<".">>})
        \cup {ShortToken}
        \cup TxChunks({<<Open, Member("data", "far"), Comma, Member("chainID", "T")>>,
                       <<Open, Member("gasPrice", "bad")>>},
                      {<<Close>>}) \cup OddTx
        \cup SetAddr({AddressTwo}, BOOLEAN) \cup GetAddr({AddressOne}) \cup OddGetAddr
        \cup Provide({TokenB}, {4, 5})
        \cup Other({"GET_APP_VERSION", "GET_APP_CONFIGURATION", "SIGN_TX", "UNKNOWN",
                    "WRONG_CLA", "EMPTY"})

(***************************************************************************)
(* The hosts of the runs that find a disagreement with what the repository *)
(* says: each does one thing the others do not.                            *)
(***************************************************************************)
MixedSessionCommands ==
    FirstMsg({1}, {"a"}, 1) \cup MoreMsg({"a"}, 1)
        \cup FirstToken({AddressOne}, {1}, {"a"}, 1) \cup MoreToken({"a"}, 1)
DescriptionCommands == Provide({TokenA, TokenB}, {2, EsdtFieldCount})
SplitTokenCommands == FirstTokens({<< >>}, {2}) \cup MoreTokens({<<"m", ".">>})
LateDataCommands ==
    TxChunks({<<Open, Member("gasLimit", "5"), Comma, Member("chainID", "1"), Comma,
                Member("data", "text"), Close>>}, {})
==============================================================================
