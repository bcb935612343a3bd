-------------------------- MODULE DeviceProperties ---------------------------
(***************************************************************************)
(* What is required of the device.                                         *)
(***************************************************************************)
EXTENDS Device

(* What a hash absorbs, and what is signed.                                *)
Absorbed ==
    {Prepend, CxLast} \cup [length : Nat] \cup [address : Address \cup {NoAddress}]
        \cup MessageByte \cup TxToken
Digest == Seq(Absorbed)
Signature == [key : Address, hash : Digest]
MsgContext == [len : Nat, hash : Digest, strhash : Digest, signature : Signature]
AuthContext ==
    [len : Nat, hash : Digest, address : Address \cup {NoAddress}, signature : Signature]
TxHashContext == [status : ParserStatus, hash : Digest]

SigningTypeOK ==
    /\ sha3_context \in Digest
    /\ msg_context \in MsgContext
    /\ auth_context \in AuthContext
    /\ tx_hash_context \in TxHashContext
    /\ tx_signature \in Signature

(* Everything has its type; in particular the remaining length of a        *)
(* message or a token, unsigned in the code, never goes below zero         *)
(* (handle_sign_msg, handle_auth_token), whatever call fails.              *)
TypeOK ==
    /\ GlobalsTypeOK /\ SigningTypeOK /\ EsdtTypeOK /\ AddressTypeOK
    /\ pc \in {"exchange", "waiting", "exited"}
    /\ link \in {"down", "listening", "unanswered"}

(***************************************************************************)
(* The protocol with the host.                                             *)
(***************************************************************************)
(* Every command gets one answer and no answer comes unasked: the main     *)
(* loop, the reviews and IO_ASYNCH_REPLY together implement Exchange.      *)
E == INSTANCE Exchange
ExchangeSpec == E!Spec

(* Inside io_exchange a command is unanswered exactly when a review is on  *)
(* the screen: nobody waits for an answer that no button can give, and no  *)
(* button answers a command that was answered (handle_apdu, send_response).*)
ReviewHoldsTheLink ==
    pc = "waiting" => ((ux # "menu") <=> (link = "unanswered"))

(* Every command is answered in the end, or the link is lost (elrond_main, *)
(* provided that the user decides on what is shown).                       *)
EveryCommandAnswered == (link = "unanswered") ~> (link # "unanswered")

(***************************************************************************)
(* Signatures.                                                             *)
(***************************************************************************)
SigningReview == Review \ {"address"}
ReviewedSignature ==
    CASE ux = "sign_msg"   -> msg_context.signature
      [] ux = "auth_token" -> auth_context.signature
      [] OTHER             -> tx_signature
ReviewedDigest ==
    CASE ux = "sign_msg"   -> msg_context.strhash
      [] ux = "auth_token" -> auth_context.hash
      [] OTHER             -> tx_hash_context.hash

HasSignature(reply) == reply.data.kind \in {"signature", "token"}

(* The buffers a review shows stay what was signed, with the key of the    *)
(* selected address, until the user decides: no handler runs in between    *)
(* (the contexts are static and shared by all commands).                   *)
ReviewedIsSigned ==
    ux \in SigningReview => ReviewedSignature = Sign(ReviewedDigest)

(* A signature leaves the device only when the user approves the review of *)
(* that signature (set_result_signature, set_result_auth_token).           *)
SignatureOnlyByApproval ==
    [][HasSignature(answer') /\ answer' # answer =>
          /\ pc = "waiting" /\ ux \in SigningReview /\ answer'.sw = "MSG_OK"
          /\ answer'.data.signature = ReviewedSignature]_vars

NoPrepend(hash) == \A i \in DOMAIN hash : hash[i] # Prepend

(* There is no confusion between message and transaction signatures: the   *)
(* three signing commands share app_state and sha3_context, yet what is    *)
(* signed as a message starts with the message prefix and what is signed   *)
(* as a transaction does not contain it.                                   *)
DomainSeparated ==
    /\ app_state = "SIGNING_MESSAGE" => IsMessageHash(sha3_context)
    /\ app_state = "SIGNING_TX" => NoPrepend(sha3_context)
    /\ ux \in {"sign_msg", "auth_token"} => IsMessageHash(ReviewedSignature.hash)
    /\ ux \in {"sign_tx", "esdt"} => NoPrepend(ReviewedSignature.hash)

(* A chunk refused as too long, or for its P1, can be sent again: it has   *)
(* not touched the session it was sent for (AbsorbMessage, AbsorbToken).   *)
RefusedChunkKeepsSession ==
    [][/\ app_state = "SIGNING_MESSAGE"
       /\ \E c \in Commands, fault \in CxFaults : c.ins \in {"SIGN_MSG", "AUTH_TOKEN"}
             /\ c.p1 # "P1_FIRST" /\ Receive(c, fault)
       /\ tx'.sw \in {"ERR_MESSAGE_TOO_LONG", "ERR_INVALID_P1"}
       => UNCHANGED <<app_state, sha3_context, msg_context, auth_context>>]_vars

(***************************************************************************)
(* Sessions.  Messages and tokens are read off their hashes, which hold    *)
(* the announced length and then, from `first' on, the text.               *)
(***************************************************************************)
NothingReleased == [announced |-> 0, text |-> NoData]
SessionPhase(review) ==
    CASE ux = review -> "review"
      [] ux # review /\ app_state = "SIGNING_MESSAGE" -> "open"
      [] OTHER -> "idle"
Announced(hash, offset) == hash[2].length - offset
ReleasedText(first, offset) ==
    IF HasSignature(answer) /\ IsMessageHash(answer.data.signature.hash)
    THEN LET hash == answer.data.signature.hash
         IN  [announced |-> Announced(hash, offset), text |-> SubSeq(hash, first, Len(hash))]
    ELSE NothingReleased

MessagePhase == SessionPhase("sign_msg")
MessageHash == IF ux = "sign_msg" THEN msg_context.hash ELSE sha3_context
MessageAnnounced == IF MessagePhase = "idle" THEN 0 ELSE Announced(MessageHash, 0)
MessageReceived ==
    IF MessagePhase = "idle" THEN << >> ELSE SubSeq(MessageHash, 3, Len(MessageHash))
MessageReleased == ReleasedText(3, 0)
MessageSession == INSTANCE SigningSession WITH
    Byte <- MessageByte, Nothing <- NothingReleased,
    phase <- MessagePhase, announced <- MessageAnnounced,
    received <- MessageReceived, released <- MessageReleased

(* For a host that asks for no tokens: whatever chunks are refused,        *)
(* whatever fails once the hash is started and whatever transactions come  *)
(* in between, the message signature released is that of the text that was *)
(* announced, reviewed and approved (handle_sign_msg, send_response).      *)
MessageSessionSpec == MessageSession!Spec

(* What follows the prefix, the length and the address in the hash.        *)
TokenText(hash) == SubSeq(hash, 4, Len(hash))
TokenPhase == SessionPhase("auth_token")
TokenHash == IF ux = "auth_token" THEN auth_context.hash ELSE sha3_context
TokenAnnounced == IF TokenPhase = "idle" THEN 0 ELSE Announced(TokenHash, BECH32_ADDRESS_LEN)
(* A refused origin leaves ends of hashes behind the text.                 *)
LastItem(hash) == SelectLastInSeq(hash, LAMBDA item : item # CxLast)
TokenReceived ==
    IF TokenPhase = "idle" THEN << >> ELSE SubSeq(TokenHash, 4, LastItem(TokenHash))
TokenReleased == ReleasedText(4, BECH32_ADDRESS_LEN)
TokenSession == INSTANCE SigningSession WITH
    Byte <- MessageByte, Nothing <- NothingReleased,
    phase <- TokenPhase, announced <- TokenAnnounced,
    received <- TokenReceived, released <- TokenReleased

(* The same for a host that asks for tokens only, with first chunks that   *)
(* have their header: a refused origin leaves the session open, with its   *)
(* hash finished, and what the host does with it releases nothing          *)
(* (handle_auth_token).                                                    *)
TokenSessionSpec == TokenSession!Spec

(***************************************************************************)
(* Transactions.                                                           *)
(***************************************************************************)
(* The text of the transaction ends at the first closing brace.            *)
TextEnd(hash) == SelectInSeq(hash, LAMBDA item : item = Close)
Occurrences(hash, field) ==
    {i \in 1 .. TextEnd(hash) : IsMember(hash[i]) /\ hash[i].field = field}
LastValue(hash, field) ==
    LET where == Occurrences(hash, field)
    IN  IF where = {} THEN NoValue ELSE hash[Max(where)].value

(* The hash is over one text.  It is over two when a transfer whose amount *)
(* cannot be shown is refused and the host goes on with another text: what *)
(* is signed then is no transaction.                                       *)
OneText(hash) == Cardinality({i \in DOMAIN hash : hash[i] = Open}) = 1

(* No chain id of the text that is long enough to run over a field of the  *)
(* context comes after the last member that fills this field.              *)
NotOverrun(hash, overrun, field) ==
    \A i \in Occurrences(hash, "chainID") :
        overrun[hash[i].value] # NotReached => \E j \in Occurrences(hash, field) : i < j

(* The review shows the fields of the very text whose hash is signed, none *)
(* left from an earlier transaction or a rejected one (init_tx_context,    *)
(* process_field); the hash is over everything received for it.  The       *)
(* guardian is shown unless a chain id of 120 characters or more, which    *)
(* the copy in verify_chainid does not cut, comes after it.                *)
TxReviewShowsDocument ==
    ux \in {"sign_tx", "esdt"} /\ OneText(tx_signature.hash) =>
        LET hash == tx_signature.hash
            data == LastValue(hash, "data")
        IN  /\ TextEnd(hash) > 0
            /\ \A field \in {"receiver", "relayer"} : tx_context[field] = LastValue(hash, field)
            /\ NotOverrun(hash, GuardianOverrun, "guardian") =>
                  tx_context.guardian = LastValue(hash, "guardian")
            /\ tx_context.chain_id = LastValue(hash, "chainID")
            /\ tx_context.data = data
            /\ tx_context.data_size = IF data = NoValue THEN 0 ELSE DataSize[data]

(* Hosts send the chain after everything the fee depends on.               *)
ChainComesLast(hash) ==
    \E i \in 1 .. TextEnd(hash) :
        /\ Occurrences(hash, "chainID") = {i}
        /\ \A field \in {"value", "gasPrice", "gasLimit", "data"} :
              \A j \in Occurrences(hash, field) : j < i

(* The amount and the fee shown are those of the text, in the currency of  *)
(* its chain, although they are worked out half-way (verify_chainid).      *)
TxReviewShowsCosts ==
    LET hash == tx_signature.hash
        unit == TickerOf(tx_context.chain_id)
    IN  ux = "sign_tx" /\ OneText(hash) /\ ChainComesLast(hash) =>
        /\ tx_context.amount =
              Pretty(Amount(LastValue(hash, "value")), Unit(unit, DECIMAL_PLACES))
        /\ tx_context.fee = Fee(LastValue(hash, "gasLimit"), LastValue(hash, "gasPrice"),
                                tx_context.data_size, unit)

(* The fee counts the data of the transaction, whatever the order of the   *)
(* fields: the formula in gas_to_fee is over len(data).                    *)
FeeCountsData ==
    ux = "sign_tx" => tx_context.fee.data_size = tx_context.data_size

(* Data is taken into a transaction only while contract data is enabled    *)
(* (verify_data), even if the user changes the setting between chunks.     *)
DataNeedsSetting ==
    [][tx_context'.data \notin {NoValue, tx_context.data} =>
          N_storage.setting_contract_data]_vars

(* The token shown for a transfer is the one the signed data transfers, on *)
(* the chain of the transaction, with the amount in the data               *)
(* (is_esdt_transfer, parse_esdt_data).  The amount is that of the data    *)
(* unless the text has several, or a chain id of 68 characters or more     *)
(* after it (verify_chainid).                                              *)
EsdtReviewShowsTransfer ==
    ux = "esdt" /\ OneText(tx_signature.hash) =>
        LET hash == tx_signature.hash
            data == LastValue(hash, "data")
        IN  /\ esdt_info.valid
            /\ EsdtIdentifier[data] # << >>
            /\ EsdtIdentifier[data] =
                  SubSeq(esdt_info.identifier, 1, esdt_info.identifier_len)
            /\ LastValue(hash, "chainID") = esdt_info.chain_id
            /\ (/\ Cardinality(Occurrences(hash, "data")) = 1 /\ EsdtValue[data] # NoEsdtValue
                /\ NotOverrun(hash, EsdtValueOverrun, "data")) =>
                  tx_context.amount.digits
                      \in {EsdtValue[data], "<value too big to display>",
                           "<value cannot be parsed to hex>"}
            /\ tx_context.amount.units # << >> =>
                  tx_context.amount.units = <<Unit(esdt_info.ticker, esdt_info.decimals)>>

(***************************************************************************)
(* Login tokens.                                                           *)
(***************************************************************************)
FirstDot(text) == SelectInSeq(text, LAMBDA item : item = [byte |-> Dot])
OriginOf(text) == SubSeq(text, 1, FirstDot(text) - 1)

(* The bytes of a text without the zero bytes, after each of its items.    *)
LettersAfter(text) ==
    LET letters[n \in 0 .. Len(text)] ==
            IF n = 0 THEN << >>
            ELSE IF text[n].byte = Nul THEN letters[n - 1]
                 ELSE Append(letters[n - 1], text[n].byte)
    IN  letters
WithoutNul(text) == LettersAfter(text)[Len(text)]

(* What the review says is authorised is the origin in the token that is   *)
(* signed, but for zero bytes, which the strings of handle_auth_token_data *)
(* cannot hold, and a token shown as text is the beginning of that token   *)
(* (handle_auth_token_data sees only the first chunk).                     *)
TokenReviewShowsToken ==
    ux = "auth_token" =>
        LET text == TokenText(auth_context.hash)
            token == auth_display.token
        IN  /\ Len(auth_context.hash) >= 3
            /\ token.kind = "authorizing" =>
                  token.origin = WithoutNul(OriginOf(text))
            /\ token.kind = "text" =>
                  \A i \in DOMAIN token.bytes :
                      token.bytes[i] = Ellipsis \/ (i \in DOMAIN text /\ token.bytes[i] = text[i])

(* The token under review is complete: the hash holds the announced number *)
(* of bytes after the address.                                             *)
TokenHasAnnouncedLength ==
    ux = "auth_token" =>
        LET hash == auth_context.hash
        IN  /\ Len(hash) >= 3
            /\ hash[1] = Prepend
            /\ hash[2] = Length(Len(hash) - 3 + BECH32_ADDRESS_LEN)
            /\ hash[3] = Bech32(auth_context.address)

(* Tokens whose origin starts with the reserved prefix are not signed.     *)
ReservedOriginRefused ==
    ux = "auth_token" =>
        LET text == TokenText(auth_context.hash)
        IN  ~(FirstDot(text) > 1 /\ text[1].byte = InvalidPrefix)

(***************************************************************************)
(* Settings.                                                               *)
(***************************************************************************)
(* Once stored, the setting changes only from the menu: not by a command,  *)
(* a reset, a power loss or a relaunch (nv_app_state_init).                *)
SettingChangedOnlyInMenu ==
    [][N_storage.initialized /\ N_storage' # N_storage =>
          /\ N_storage'.initialized
          /\ pc = "waiting" /\ ux = "menu"
          /\ UNCHANGED <<app_state, sha3_context, output, contexts, transport>>]_vars
==============================================================================
