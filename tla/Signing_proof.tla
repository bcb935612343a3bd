---------------------------- MODULE Signing_proof ----------------------------
(***************************************************************************)
(* Proofs about what is signed: types, the lengths that count down, and    *)
(* the signatures under review.                                            *)
(***************************************************************************)
EXTENDS Device_proof, SequenceTheorems, WellFoundedInduction

(***************************************************************************)
(* Induction, for what a handler computes item by item.                    *)
(***************************************************************************)
(* A set that holds zero and the successor of each of its numbers holds    *)
(* all natural numbers.                                                    *)
LEMMA SetInduction ==
    ASSUME NEW S, 0 \in S, \A n \in Nat : n \in S => n + 1 \in S
    PROVE  \A n \in Nat : n \in S
<1> DEFINE T == {n \in Nat : n \notin S}
           R == OpToRel(<, Nat)
<1>1. CASE T # {}
  <2>1. PICK x \in T : \A y \in T : <<y, x>> \notin R
    <3> HIDE DEF R
    <3>1. IsWellFoundedOn(R, Nat)
      BY NatLessThanWellFounded DEF R
    <3>2. T \subseteq Nat
      OBVIOUS
    <3> HIDE DEF T
    <3>3. QED
      BY <1>1, <3>1, <3>2, WFMin
  <2>2. x \in Nat /\ x # 0 /\ x \notin S
    OBVIOUS
  <2>3. x - 1 \in Nat /\ x - 1 < x /\ (x - 1) + 1 = x
    BY <2>2
  <2>4. x - 1 \notin T
    BY <2>1, <2>2, <2>3 DEF OpToRel
  <2>5. QED
    BY <2>2, <2>3, <2>4
<1>2. QED
  BY <1>1

(***************************************************************************)
(* The types of the commands and of what is hashed.                        *)
(***************************************************************************)
(* The parts of a command have the types its instruction gives them.       *)
LEMMA CommandTypes ==
    ASSUME NEW c \in Commands
    PROVE  /\ c.ins = "SIGN_MSG" => c.len \in Nat /\ c.bytes \in Seq(MessageByte)
           /\ c.ins = "AUTH_TOKEN" =>
                 c.address \in Address /\ c.len \in Nat /\ c.bytes \in Seq(MessageByte)
           /\ c.ins = "SIGN_TX_HASH" => c.tokens \in Seq(TxToken)
           /\ c.ins = "PROVIDE_ESDT_INFO" => c.token \in EsdtToken /\ c.complete \in 0 .. EsdtFieldCount
           /\ c.ins = "SET_ADDR" => c.address \in Address
           /\ c.ins = "GET_ADDR" =>
                 c.address \in Address /\ c.p2 \in {"BECH32", "HEX", "P2_OTHER"}
<1> USE DEF SignMsgApdu, AuthTokenApdu, SignTxHashApdu, ProvideEsdtApdu, SetAddrApdu,
            GetAddrApdu, OtherApdu
<1>1. c \in Apdu
  BY DeviceAssumption
<1>2. CASE c \in SignMsgApdu
  BY <1>2
<1>3. CASE c \in AuthTokenApdu
  BY <1>3
<1>4. CASE c \in SignTxHashApdu
  BY <1>4
<1>5. CASE c \in ProvideEsdtApdu
  BY <1>5
<1>6. CASE c \in SetAddrApdu
  BY <1>6
<1>7. CASE c \in GetAddrApdu
  BY <1>7
<1>8. CASE c \in OtherApdu
  BY <1>8
<1>9. QED
  BY <1>1, <1>2, <1>3, <1>4, <1>5, <1>6, <1>7, <1>8 DEF Apdu

(* What a hash has absorbed stays of its type when a chunk of a message, a *)
(* token or a transaction is absorbed, and when it is finalised.           *)
LEMMA Absorb ==
    ASSUME NEW hash \in Digest
    PROVE  /\ \A bytes \in Seq(MessageByte) : hash \o bytes \in Digest
           /\ \A tokens \in Seq(TxToken) : hash \o tokens \in Digest
           /\ Append(hash, CxLast) \in Digest
<1>1. MessageByte \subseteq Absorbed /\ TxToken \subseteq Absorbed /\ CxLast \in Absorbed
  BY DEF Absorbed
<1>2. ASSUME NEW bytes \in Seq(MessageByte)
      PROVE  hash \o bytes \in Digest
  <2>1. bytes \in Seq(Absorbed)
    BY <1>1, SeqMonotonic
  <2>2. QED
    BY <2>1, ConcatProperties DEF Digest
<1>3. ASSUME NEW tokens \in Seq(TxToken)
      PROVE  hash \o tokens \in Digest
  <2>1. tokens \in Seq(Absorbed)
    BY <1>1, SeqMonotonic
  <2>2. QED
    BY <2>1, ConcatProperties DEF Digest
<1>4. Append(hash, CxLast) \in Digest
  BY <1>1 DEF Digest
<1>5. QED
  BY <1>2, <1>3, <1>4

(* A hash that has just been started is of its type (cx_keccak_init).      *)
LEMMA Started ==
    ASSUME sha3_context \in Digest, NEW len \in Nat, NEW a \in Address, NEW fault
    PROVE  /\ << >> \in Digest
           /\ StartedMsgHash(len, fault) \in Digest
           /\ StartedAuthHash(len, a, fault) \in Digest
<1>1. Prepend \in Absorbed /\ Bech32(a) \in Absorbed
  BY DEF Absorbed, Bech32
<1>2. \A n \in Nat : Length(n) \in Absorbed
  BY DEF Absorbed, Length
<1>3. len + BECH32_ADDRESS_LEN \in Nat
  BY AuthTokenAssumption
<1>4. << >> \in Digest /\ <<Prepend>> \in Digest /\ <<Prepend, Length(len)>> \in Digest
  BY <1>1, <1>2 DEF Digest
<1>5. /\ <<Prepend, Length(len + BECH32_ADDRESS_LEN)>> \in Digest
      /\ <<Prepend, Length(len + BECH32_ADDRESS_LEN), Bech32(a)>> \in Digest
  BY <1>1, <1>2, <1>3 DEF Digest
<1>6. QED
  BY <1>4, <1>5 DEF StartedMsgHash, StartedAuthHash, AnnouncedLength

(***************************************************************************)
(* The types, handler by handler.                                          *)
(***************************************************************************)
SharedTypeOK == app_state \in AppState /\ bip32 \in Address /\ sha3_context \in Digest

(* A signature is made with the selected address.                          *)
LEMMA SignType ==
    ASSUME bip32 \in Address, NEW hash \in Digest
    PROVE  Sign(hash) \in Signature /\ NoSignature \in Signature
BY AddressAssumption, EmptySeq DEF Sign, NoSignature, Signature, Digest

(* handle_sign_msg keeps the types: the remaining length stays a natural   *)
(* number.                                                                 *)
LEMMA SignMsgTypes ==
    ASSUME SharedTypeOK, msg_context \in MsgContext, NEW c \in Commands, NEW fault,
           c.ins = "SIGN_MSG", handle_sign_msg(c, fault)
    PROVE  SharedTypeOK' /\ msg_context' \in MsgContext
<1>1. c.len \in Nat /\ c.bytes \in Seq(MessageByte)
  BY CommandTypes
<1>2. ASSUME NEW hash \in Digest, NEW len \in Nat, KeepMsgSession(hash, len)
      PROVE  SharedTypeOK' /\ msg_context' \in MsgContext
  BY <1>2 DEF KeepMsgSession, SharedTypeOK, AppState, MsgContext
<1>3. ASSUME NEW hash \in Digest, SignMessage(hash, fault)
      PROVE  SharedTypeOK' /\ msg_context' \in MsgContext
  <2> DEFINE finalised == [msg_context EXCEPT !.len = 0, !.hash = hash, !.strhash = hash]
  <2>1. finalised \in MsgContext
    BY DEF MsgContext
  <2>2. [finalised EXCEPT !.signature = Sign(hash)] \in MsgContext
    BY <2>1, SignType DEF SharedTypeOK, MsgContext
  <2>3. Append(hash, CxLast) \in Digest
    BY Absorb
  <2> HIDE DEF finalised
  <2>4. CASE fault \in {"derive", "sign"}
    BY <1>3, <2>1, <2>3, <2>4, AddressAssumption
       DEF SignMessage, finalised, init_msg_context, SharedTypeOK, AppState
  <2>5. CASE fault \notin {"derive", "sign"}
    BY <1>3, <2>2, <2>3, <2>5 DEF SignMessage, finalised, SharedTypeOK, AppState
  <2>6. QED
    BY <2>4, <2>5
<1>4. ASSUME NEW hash \in Digest, NEW len \in Nat, AbsorbMessage(hash, len, c.bytes, fault)
      PROVE  SharedTypeOK' /\ msg_context' \in MsgContext
  <2>1. hash \o c.bytes \in Digest
    BY <1>1, Absorb
  <2>2. Len(c.bytes) \in Nat
    BY <1>1, LenProperties
  <2>3. ~TooLong(c.bytes, len) => len - Len(c.bytes) \in Nat
    BY <2>2 DEF TooLong
  <2>4. QED
    BY <1>2, <1>3, <1>4, <2>1, <2>3 DEF AbsorbMessage, RefuseLongMessage
<1>5. ASSUME NEW sw, RefusedMsg(sw)
      PROVE  SharedTypeOK' /\ msg_context' \in MsgContext
  BY <1>5 DEF RefusedMsg, SharedTypeOK
<1>6. CASE FirstMsgChunk(c, fault)
  <2>1. StartedMsgHash(c.len, fault) \in Digest
    BY <1>1, AddressAssumption, Started DEF SharedTypeOK
  <2>2. QED
    BY <1>1, <1>2, <1>4, <1>5, <1>6, <2>1 DEF FirstMsgChunk
<1>7. CASE NextMsgChunk(c, fault)
  BY <1>4, <1>5, <1>7 DEF NextMsgChunk, SharedTypeOK, MsgContext
<1>8. QED
  BY <1>6, <1>7 DEF handle_sign_msg

(* handle_auth_token keeps the types.                                      *)
LEMMA AuthTokenTypes ==
    ASSUME SharedTypeOK, auth_context \in AuthContext, NEW c \in Commands, NEW fault,
           c.ins = "AUTH_TOKEN", handle_auth_token(c, fault)
    PROVE  SharedTypeOK' /\ auth_context' \in AuthContext
<1>1. c.address \in Address /\ c.len \in Nat /\ c.bytes \in Seq(MessageByte)
  BY CommandTypes
<1>2. \A context \in AuthContext : CleanContext(context) \in AuthContext
  BY EmptySeq DEF CleanContext, AuthContext, Digest
<1>3. ASSUME NEW hash \in Digest, NEW context \in AuthContext, NEW display,
             KeepAuthSession(hash, context, display)
      PROVE  SharedTypeOK' /\ auth_context' \in AuthContext
  BY <1>3 DEF KeepAuthSession, SharedTypeOK, AppState
<1>4. ASSUME NEW hash \in Digest, NEW context \in AuthContext, NEW display,
             SignAuthToken(hash, context, display, fault)
      PROVE  SharedTypeOK' /\ auth_context' \in AuthContext
  <2>1. [context EXCEPT !.len = 0, !.hash = hash, !.signature = Sign(hash)] \in AuthContext
    BY SignType DEF SharedTypeOK, AuthContext
  <2>2. Append(hash, CxLast) \in Digest
    BY Absorb
  <2>3. CASE init_auth_token_context(context) /\ sha3_context' = Append(hash, CxLast)
    BY <1>2, <2>2, <2>3, AddressAssumption DEF init_auth_token_context, SharedTypeOK, AppState
  <2>4. QED
    BY <1>3, <1>4, <2>1, <2>2, <2>3 DEF SignAuthToken, SharedTypeOK, AppState
<1>5. ASSUME NEW hash \in Digest, NEW context \in AuthContext, NEW display,
             AbsorbToken(hash, context, display, c.bytes, fault)
      PROVE  SharedTypeOK' /\ auth_context' \in AuthContext
  <2>1. hash \o c.bytes \in Digest
    BY <1>1, Absorb
  <2>2. Len(c.bytes) \in Nat
    BY <1>1, LenProperties
  <2>3. Len(c.bytes) <= context.len =>
            [context EXCEPT !.len = @ - Len(c.bytes)] \in AuthContext
    BY <2>2 DEF AuthContext
  <2>4. context.len \in Nat
    BY DEF AuthContext
  <2>5. QED
    BY <1>3, <1>4, <1>5, <2>1, <2>2, <2>3, <2>4 DEF AbsorbToken
<1>6. CASE FirstTokenChunk(c, fault)
  <2>1. StartedAuthHash(c.len, c.address, fault) \in Digest
    BY <1>1, Started DEF SharedTypeOK
  <2>2. [CleanContext(auth_context) EXCEPT !.len = c.len, !.address = c.address] \in AuthContext
    BY <1>1, <1>2 DEF AuthContext
  <2>3. ASSUME NEW sw, RefusedFirstToken(sw)
        PROVE  SharedTypeOK' /\ auth_context' \in AuthContext
    BY <1>2, <2>3 DEF RefusedFirstToken, SharedTypeOK
  <2>4. QED
    BY <1>3, <1>5, <1>6, <2>1, <2>2, <2>3 DEF FirstTokenChunk
<1>7. CASE NextTokenChunk(c, fault)
  BY <1>5, <1>7 DEF NextTokenChunk, RefusedToken, SharedTypeOK
<1>8. QED
  BY <1>6, <1>7 DEF handle_auth_token

(* handle_sign_tx_hash keeps the types.                                    *)
LEMMA SignTxHashTypes ==
    ASSUME SharedTypeOK, tx_hash_context \in TxHashContext, tx_signature \in Signature,
           NEW c \in Commands, NEW fault,
           c.ins = "SIGN_TX_HASH", handle_sign_tx_hash(c, fault)
    PROVE  SharedTypeOK' /\ tx_hash_context' \in TxHashContext /\ tx_signature' \in Signature
<1> DEFINE Typed == SharedTypeOK' /\ tx_hash_context' \in TxHashContext /\ tx_signature' \in Signature
<1>1. c.tokens \in Seq(TxToken) /\ << >> \in Digest /\ bip32' = bip32
  BY CommandTypes, EmptySeq DEF Digest, handle_sign_tx_hash
<1>2. \A status \in ParserStatus : [tx_hash_context EXCEPT !.status = status] \in TxHashContext
  BY DEF TxHashContext
<1>3. "JSON_IDLE" \in ParserStatus
  BY DEF ParserStatus
<1>4. ASSUME NEW hash \in Digest, NEW state \in AppState, NEW sw, GiveUp(hash, state, fault, sw)
      PROVE  SharedTypeOK'
  BY <1>1, <1>4 DEF GiveUp, SharedTypeOK, AppState
<1>5. ASSUME NEW hash \in Digest, NEW ctx, SignTx(hash, ctx, fault)
      PROVE  Typed
  <2> DEFINE digest == IF fault = "cx_last" THEN tx_hash_context.hash ELSE hash
             final == IF fault = "cx_last" THEN hash ELSE Append(hash, CxLast)
  <2>1. digest \in Digest /\ final \in Digest
    BY Absorb DEF TxHashContext
  <2>2. [status |-> "JSON_IDLE", hash |-> digest] \in TxHashContext
    BY <1>3, <2>1 DEF TxHashContext
  <2>3. Sign(digest) \in Signature
    BY <2>1, SignType DEF SharedTypeOK
  <2> HIDE DEF digest, final
  <2>4. ASSUME ReviewTx(ctx), sha3_context' = final
        PROVE  SharedTypeOK'
    BY <1>1, <2>1, <2>4 DEF ReviewTx, SharedTypeOK, AppState
  <2>5. "SIGNING_TX" \in AppState
    BY DEF AppState
  <2>6. CASE fault = "derive"
    BY <1>2, <1>3, <1>4, <1>5, <2>5, <2>6 DEF SignTx
  <2>7. CASE fault \in {"cx_last", "sign"}
    BY <1>4, <1>5, <2>1, <2>2, <2>3, <2>5, <2>7 DEF SignTx, digest, final
  <2>8. CASE fault \notin {"derive", "cx_last", "sign"}
    BY <1>5, <2>2, <2>3, <2>4, <2>8 DEF SignTx, digest, final
  <2>9. QED
    BY <2>6, <2>7, <2>8
<1>6. ASSUME NEW hash \in Digest, NEW status, NEW ctx, AbsorbTx(hash, status, ctx, c.tokens, fault)
      PROVE  Typed
  <2>1. hash \o c.tokens \in Digest
    BY <1>1, Absorb
  <2>2. "SIGNING_TX" \in AppState
    BY DEF AppState
  <2>3. ASSUME NEW absorbed \in Digest, NEW new \in ParserStatus, NEW context, NEW sw,
               KeepTxSession(absorbed, context, new, sw)
        PROVE  Typed
    BY <1>1, <1>2, <2>2, <2>3 DEF KeepTxSession, SharedTypeOK
  <2>4. QED
    BY <1>2, <1>3, <1>4, <1>5, <1>6, <2>1, <2>2, <2>3 DEF AbsorbTx
<1>7. CASE FirstTxChunk(c, fault)
  BY <1>1, <1>2, <1>3, <1>4, <1>6, <1>7 DEF FirstTxChunk, SharedTypeOK
<1>8. CASE NextTxChunk(c, fault)
  BY <1>1, <1>6, <1>8 DEF NextTxChunk, RefusedTx, SharedTypeOK
<1>9. QED
  BY <1>7, <1>8 DEF handle_sign_tx_hash

(* Storing the fields of a description keeps their types.                  *)
LEMMA ProvideEsdtTypes ==
    ASSUME EsdtTypeOK, NEW c \in Commands, NEW fault, c.ins = "PROVIDE_ESDT_INFO",
           handle_provide_ESDT_info(c, fault)
    PROVE  EsdtTypeOK'
<1> DEFINE stored == StoredEsdtInfo(esdt_info, c.token, c.complete)
           Info == [valid : BOOLEAN, ticker : Ticker \cup {""}, identifier_len : Nat,
                    identifier : Seq(IdentifierChar), decimals : Nat,
                    chain_id : ChainId \cup {""}]
<1>1. c.token \in EsdtToken
  BY CommandTypes
<1>2. Len(c.token.identifier) \in Nat
  BY <1>1, LenProperties DEF EsdtToken
<1>3. stored \in Info
  <2> DEFINE token == c.token
  <2>1. /\ token.ticker \in Ticker /\ token.identifier \in Seq(IdentifierChar)
        /\ token.decimals \in Nat /\ token.chain_id \in ChainId
    BY <1>1 DEF EsdtToken
  <2>2. esdt_info \in Info
    BY DEF EsdtTypeOK
  <2>3. Len(token.identifier) \in Nat
    BY <1>2
  <2> HIDE DEF token
  <2>4. StoredEsdtInfo(esdt_info, token, c.complete) \in Info
    <3> DEFINE n == c.complete
               ticker == IF n >= 1 THEN token.ticker ELSE esdt_info.ticker
               len == IF n >= 2 THEN Len(token.identifier) ELSE esdt_info.identifier_len
               identifier == IF n >= 3 THEN token.identifier ELSE esdt_info.identifier
               decimals == IF n >= 4 THEN token.decimals ELSE esdt_info.decimals
               chain == IF n >= 5 THEN token.chain_id ELSE esdt_info.chain_id
    <3>1. /\ ticker \in Ticker \cup {""} /\ len \in Nat
          /\ identifier \in Seq(IdentifierChar) /\ decimals \in Nat
          /\ chain \in ChainId \cup {""}
      BY <2>1, <2>2, <2>3
    <3>2. StoredEsdtInfo(esdt_info, token, n) =
            [esdt_info EXCEPT !.ticker = ticker, !.identifier_len = len,
                              !.identifier = identifier, !.decimals = decimals,
                              !.chain_id = chain]
      BY DEF StoredEsdtInfo
    <3> HIDE DEF ticker, len, identifier, decimals, chain
    <3>3. QED
      BY <2>2, <3>1, <3>2
  <2>5. QED
    BY <2>4 DEF token
<1> HIDE DEF stored
<1>4. [stored EXCEPT !.valid = TRUE] \in Info
  BY <1>3
<1>5. esdt_info' \in Info
  BY <1>3, <1>4 DEF handle_provide_ESDT_info, stored
<1>6. QED
  BY <1>5 DEF EsdtTypeOK

(* Selecting and showing addresses keeps their types.                      *)
LEMMA AddressTypes ==
    ASSUME bip32 \in Address, AddressTypeOK, NEW c \in Commands, NEW fault,
           AddressCommand(c, fault)
    PROVE  bip32' \in Address /\ AddressTypeOK'
<1>1. CASE c.ins = "SET_ADDR" /\ handle_set_address(c)
  BY <1>1, CommandTypes DEF handle_set_address, AddressTypeOK
<1>2. CASE c.ins = "GET_ADDR" /\ handle_get_address(c, fault)
  <2>1. c.address \in Address /\ c.p2 \in {"BECH32", "HEX", "P2_OTHER"}
    BY <1>2, CommandTypes
  <2>2. \/ address' = address
        \/ c.p2 # "P2_OTHER" /\ address' = Shown(c.address, c.p2)
    BY <1>2 DEF handle_get_address
  <2>3. QED
    BY <1>2, <2>1, <2>2 DEF handle_get_address, AddressTypeOK, Shown
<1>3. QED
  BY <1>1, <1>2 DEF AddressCommand

(* A command keeps all types, and the settings as they are (Receive).      *)
LEMMA ReceiveTypes ==
    ASSUME TypeOK, NEW c \in Commands, NEW fault \in CxFaults, Receive(c, fault)
    PROVE  TypeOK' /\ N_storage' = N_storage
<1> USE DEF TypeOK, GlobalsTypeOK, SigningTypeOK, SharedTypeOK
<1>1. flags' \in BOOLEAN /\ ux' \in Review \cup {"menu"}
  BY HandlerOutcome DEF Receive, Outcome, LeavesReply, LeavesReview
<1>2. pc' = "exchange" /\ link' = "unanswered"
  BY DEF Receive
<1> DEFINE Typed == /\ SharedTypeOK' /\ N_storage' = N_storage
                    /\ SigningTypeOK' /\ EsdtTypeOK' /\ AddressTypeOK'
<1>3. SUFFICES Typed
  BY <1>1, <1>2
<1>4. CASE SignMsgCommand(c, fault)
  <2>1. SharedTypeOK' /\ msg_context' \in MsgContext /\ N_storage' = N_storage
    BY <1>4, SignMsgTypes DEF SignMsgCommand, handle_sign_msg
  <2>2. QED
    BY <1>4, <2>1 DEF SignMsgCommand, EsdtTypeOK, AddressTypeOK
<1>5. CASE AuthTokenCommand(c, fault)
  <2>1. SharedTypeOK' /\ auth_context' \in AuthContext /\ N_storage' = N_storage
    BY <1>5, AuthTokenTypes DEF AuthTokenCommand, handle_auth_token
  <2>2. QED
    BY <1>5, <2>1 DEF AuthTokenCommand, EsdtTypeOK, AddressTypeOK
<1>6. CASE SignTxHashCommand(c, fault)
  <2>1. /\ SharedTypeOK' /\ tx_hash_context' \in TxHashContext /\ tx_signature' \in Signature
        /\ N_storage' = N_storage /\ esdt_info' = esdt_info
    BY <1>6, SignTxHashTypes DEF SignTxHashCommand, handle_sign_tx_hash
  <2>2. QED
    BY <1>6, <2>1 DEF SignTxHashCommand, EsdtTypeOK, AddressTypeOK
<1>7. CASE ProvideEsdtCommand(c, fault)
  <2>1. EsdtTypeOK'
    BY <1>7, ProvideEsdtTypes DEF ProvideEsdtCommand
  <2>2. QED
    BY <1>7, <2>1 DEF ProvideEsdtCommand, handle_provide_ESDT_info, AddressTypeOK
<1>8. CASE AddressCommand(c, fault)
  <2>1. bip32' \in Address /\ AddressTypeOK'
    BY <1>8, AddressTypes
  <2>2. UNCHANGED <<app_state, sha3_context, N_storage>>
    BY <1>8 DEF AddressCommand, handle_set_address, handle_get_address
  <2>3. QED
    BY <1>8, <2>1, <2>2 DEF AddressCommand, EsdtTypeOK
<1>9. CASE handle_other(c)
  BY <1>9 DEF handle_other, globals, contexts, EsdtTypeOK, AddressTypeOK
<1>10. QED
  BY <1>4, <1>5, <1>6, <1>7, <1>8, <1>9 DEF Receive, handle_apdu

(* What does not touch the state of the signing commands keeps the types.  *)
LEMMA TypesStay ==
    ASSUME TypeOK, UNCHANGED <<app_state, sha3_context, bip32, contexts>>,
           N_storage' \in [initialized : BOOLEAN, setting_contract_data : BOOLEAN],
           flags' \in BOOLEAN, ux' \in Review \cup {"menu"},
           pc' \in {"exchange", "waiting", "exited"},
           link' \in {"down", "listening", "unanswered"}
    PROVE  TypeOK'
<1>1. GlobalsTypeOK'
  BY DEF TypeOK, GlobalsTypeOK
<1>2. SigningTypeOK'
  BY DEF TypeOK, SigningTypeOK, contexts
<1>3. EsdtTypeOK' /\ AddressTypeOK'
  BY DEF TypeOK, EsdtTypeOK, AddressTypeOK, contexts
<1>4. QED
  BY <1>1, <1>2, <1>3 DEF TypeOK

(* Everything else keeps the types too.                                    *)
LEMMA TypeStep ==
    ASSUME TypeOK, [Next]_vars
    PROVE  TypeOK'
<1> USE DEF TypeOK, GlobalsTypeOK
<1>1. "IDLE" \in AppState /\ "JSON_IDLE" \in ParserStatus /\ "menu" \in Review \cup {"menu"}
  BY DEF AppState, ParserStatus
<1>2. << >> \in Digest /\ NoSignature \in Signature /\ << >> \in Seq(IdentifierChar)
  BY EmptySeq, AddressAssumption DEF Digest, NoSignature, Signature
<1>3. CASE Launch \/ Unplug
  <2>1. Initialise
    BY <1>3 DEF Launch, Unplug
  <2>2. N_storage' \in [initialized : BOOLEAN, setting_contract_data : BOOLEAN]
    BY <2>1 DEF Initialise, nv_app_state_init
  <2>3. [tx_hash_context EXCEPT !.status = "JSON_IDLE"] \in TxHashContext
    BY <1>1 DEF SigningTypeOK, TxHashContext
  <2>4. SigningTypeOK'
    BY <1>2, <2>1, <2>3 DEF Initialise, SigningTypeOK
  <2>5. EsdtTypeOK' /\ AddressTypeOK'
    BY <2>1 DEF Initialise, EsdtTypeOK, AddressTypeOK
  <2>6. QED
    BY <1>1, <2>1, <2>2, <2>4, <2>5, AddressAssumption DEF Initialise, init_msg_context
<1>4. CASE Quit \/ PowerOff
  <2>1. Stop /\ N_storage' = N_storage
    BY <1>4 DEF Quit, PowerOff
  <2>2. ZeroMsgContext \in MsgContext /\ ZeroAuthContext \in AuthContext
        /\ ZeroTxHash \in TxHashContext
    BY <1>1, <1>2 DEF ZeroMsgContext, MsgContext, ZeroAuthContext, AuthContext, ZeroTxHash,
                      TxHashContext
  <2>3. SigningTypeOK'
    BY <1>2, <2>1, <2>2 DEF Stop, SigningTypeOK
  <2>4. EsdtTypeOK' /\ AddressTypeOK'
    BY <1>2, <2>1
       DEF Stop, EsdtTypeOK, ZeroEsdtInfo, AddressTypeOK, ZeroAddressBuffer, Shown
  <2>5. QED
    BY <1>1, <2>1, <2>3, <2>4, AddressAssumption DEF Stop
<1>5. ASSUME NEW c \in Commands, NEW fault \in CxFaults, Receive(c, fault)
      PROVE  TypeOK'
  BY <1>5, ReceiveTypes
<1>6. CASE IoExchange
  BY <1>6, TypesStay DEF IoExchange, globals
<1>7. CASE Approve \/ Reject
  BY <1>7, TypesStay DEF Approve, Reject, send_response, globals
<1>8. ASSUME NEW enabled \in BOOLEAN, setting_contract_data_change(enabled)
      PROVE  TypeOK'
  BY <1>8, TypesStay DEF setting_contract_data_change, output, transport
<1>9. CASE UNCHANGED vars
  BY <1>9, TypesStay DEF vars, globals, output, transport
<1>10. QED
  BY <1>3, <1>4, <1>5, <1>6, <1>7, <1>8, <1>9 DEF Next

(* Everything has its type, and no remaining length goes below zero,       *)
(* whatever the host sends and whatever call fails.                        *)
THEOREM TypeCorrect == Spec => []TypeOK
<1>1. ASSUME Init
      PROVE  TypeOK
  <2>1. << >> \in Digest /\ NoSignature \in Signature /\ << >> \in Seq(IdentifierChar)
    BY EmptySeq, AddressAssumption DEF Digest, NoSignature, Signature
  <2>2. "JSON_IDLE" \in ParserStatus
    BY DEF ParserStatus
  <2>3. GlobalsTypeOK
    <3>1. /\ app_state = "IDLE" /\ bip32 = ZeroAddress /\ flags = FALSE /\ ux = "menu"
          /\ N_storage = [initialized |-> FALSE, setting_contract_data |-> FALSE]
      BY <1>1 DEF Init
    <3>2. QED
      BY <3>1, AddressAssumption DEF GlobalsTypeOK, AppState
  <2>4. SigningTypeOK
    BY <1>1, <2>1, <2>2 DEF Init, SigningTypeOK, ZeroMsgContext, MsgContext, ZeroAuthContext,
                            AuthContext, ZeroTxHash, TxHashContext
  <2>5. EsdtTypeOK
    <3>1. esdt_info = ZeroEsdtInfo
      BY <1>1 DEF Init
    <3>2. QED
      BY <2>1, <3>1 DEF EsdtTypeOK, ZeroEsdtInfo
  <2>6. AddressTypeOK
    BY <1>1 DEF Init, AddressTypeOK, ZeroAddressBuffer, Shown
  <2>7. QED
    BY <1>1, <2>3, <2>4, <2>5, <2>6 DEF Init, TypeOK
<1>2. TypeOK /\ [Next]_vars => TypeOK'
  BY TypeStep
<1>3. QED
  BY <1>1, <1>2, PTL DEF Spec
==============================================================================
