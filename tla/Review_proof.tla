----------------------------- MODULE Review_proof ----------------------------
(***************************************************************************)
(* Proofs that what the user approves is what was signed: the signature    *)
(* under review is over the digest under review, with the selected key,    *)
(* and messages and transactions are told apart.                           *)
(***************************************************************************)
EXTENDS Signing_proof

(***************************************************************************)
(* The settings.                                                           *)
(***************************************************************************)
(* Once stored, the setting changes only from the menu (nv_app_state_init, *)
(* setting_contract_data_change).                                          *)
THEOREM SettingsStay == Spec => SettingChangedOnlyInMenu
<1>1. ASSUME TypeOK, [Next]_vars, N_storage.initialized, N_storage' # N_storage
      PROVE  /\ N_storage'.initialized
             /\ pc = "waiting" /\ ux = "menu"
             /\ UNCHANGED <<app_state, sha3_context, output, contexts, transport>>
  <2>1. CASE Launch \/ Unplug
    BY <1>1, <2>1 DEF Launch, Unplug, Initialise, nv_app_state_init
  <2>2. CASE Quit \/ PowerOff
    BY <1>1, <2>2 DEF Quit, PowerOff
  <2>3. ASSUME NEW c \in Commands, NEW fault \in CxFaults, Receive(c, fault)
        PROVE  FALSE
    BY <1>1, <2>3, ReceiveTypes
  <2>4. CASE IoExchange \/ Approve \/ Reject
    BY <1>1, <2>4 DEF IoExchange, Approve, Reject, send_response, globals
  <2>5. ASSUME NEW enabled \in BOOLEAN, setting_contract_data_change(enabled)
        PROVE  /\ N_storage'.initialized
               /\ pc = "waiting" /\ ux = "menu"
               /\ UNCHANGED <<app_state, sha3_context, output, contexts, transport>>
    BY <1>1, <2>5 DEF setting_contract_data_change, TypeOK, GlobalsTypeOK
  <2>6. CASE UNCHANGED vars
    BY <1>1, <2>6 DEF vars, globals
  <2>7. QED
    BY <1>1, <2>1, <2>2, <2>3, <2>4, <2>5, <2>6 DEF Next
<1>2. QED
  BY <1>1, TypeCorrect, PTL DEF Spec, SettingChangedOnlyInMenu

(***************************************************************************)
(* What each handler puts under review.                                    *)
(***************************************************************************)
(* A message under review has just been signed (handle_sign_msg).          *)
LEMMA MessageReview ==
    ASSUME msg_context \in MsgContext, NEW c, NEW fault, handle_sign_msg(c, fault)
    PROVE  \/ ux' = ux
           \/ /\ ux' = "sign_msg" /\ bip32' = bip32
              /\ msg_context'.signature = Sign(msg_context'.strhash)
<1> DEFINE Reviewed == \/ ux' = ux
                       \/ /\ ux' = "sign_msg" /\ bip32' = bip32
                          /\ msg_context'.signature = Sign(msg_context'.strhash)
<1>1. ASSUME NEW hash, SignMessage(hash, fault)
      PROVE  Reviewed
  <2> DEFINE signed ==
        [[msg_context EXCEPT !.len = 0, !.hash = hash, !.strhash = hash]
            EXCEPT !.signature = Sign(hash)]
  <2>1. signed.signature = Sign(hash) /\ signed.strhash = hash
    BY DEF MsgContext
  <2>2. \/ ux' = ux
        \/ ux' = "sign_msg" /\ bip32' = bip32 /\ msg_context' = signed
    BY <1>1 DEF SignMessage, Throw, ReplyWith, ShowReview
  <2> HIDE DEF signed
  <2>3. QED
    BY <2>1, <2>2
<1>2. ASSUME NEW hash, NEW len, NEW bytes, AbsorbMessage(hash, len, bytes, fault)
      PROVE  Reviewed
  BY <1>1, <1>2 DEF AbsorbMessage, RefuseLongMessage, Throw, ReplyWith
<1>3. QED
  BY <1>2 DEF handle_sign_msg, FirstMsgChunk, NextMsgChunk, RefusedMsg, Throw, ReplyWith

(* A token under review has just been signed (handle_auth_token).          *)
LEMMA TokenReview ==
    ASSUME auth_context \in AuthContext, NEW c \in Commands, NEW fault,
           c.ins = "AUTH_TOKEN", handle_auth_token(c, fault)
    PROVE  \/ ux' = ux
           \/ /\ ux' = "auth_token" /\ bip32' = bip32
              /\ auth_context'.signature = Sign(auth_context'.hash)
<1> DEFINE Reviewed == \/ ux' = ux
                       \/ /\ ux' = "auth_token" /\ bip32' = bip32
                          /\ auth_context'.signature = Sign(auth_context'.hash)
           Fields == {"len", "hash", "address", "signature"}
<1>1. ASSUME NEW hash, NEW context, DOMAIN context = Fields, NEW display,
             SignAuthToken(hash, context, display, fault)
      PROVE  Reviewed
  <2> DEFINE signed ==
        [context EXCEPT !.len = 0, !.hash = hash, !.signature = Sign(hash)]
  <2>1. signed.signature = Sign(hash) /\ signed.hash = hash
    BY <1>1
  <2>2. \/ ux' = ux
        \/ ux' = "auth_token" /\ bip32' = bip32 /\ auth_context' = signed
    BY <1>1 DEF SignAuthToken, Throw, ReplyWith, ShowReview
  <2> HIDE DEF signed
  <2>3. QED
    BY <2>1, <2>2
<1>2. ASSUME NEW hash, NEW context, DOMAIN context = Fields, NEW display, NEW bytes,
             AbsorbToken(hash, context, display, bytes, fault)
      PROVE  Reviewed
  <2>1. DOMAIN [context EXCEPT !.len = @ - Len(bytes)] = Fields
    BY <1>2
  <2>2. QED
    BY <1>1, <1>2, <2>1 DEF AbsorbToken, Throw, ReplyWith
<1>3. DOMAIN auth_context = Fields
  BY DEF AuthContext
<1>4. DOMAIN [CleanContext(auth_context) EXCEPT !.len = c.len, !.address = c.address] = Fields
  BY <1>3 DEF CleanContext
<1>5. CASE FirstTokenChunk(c, fault)
  BY <1>2, <1>4, <1>5 DEF FirstTokenChunk, RefusedFirstToken, Throw, ReplyWith
<1>6. CASE NextTokenChunk(c, fault)
  BY <1>2, <1>3, <1>6 DEF NextTokenChunk, RefusedToken, Throw, ReplyWith
<1>7. QED
  BY <1>5, <1>6 DEF handle_auth_token

(* A transaction under review has just been signed (handle_sign_tx_hash).  *)
LEMMA TransactionReview ==
    ASSUME NEW c, NEW fault, handle_sign_tx_hash(c, fault)
    PROVE  /\ bip32' = bip32
           /\ \/ ux' = ux
              \/ /\ ux' \in {"sign_tx", "esdt"}
                 /\ tx_signature' = Sign(tx_hash_context'.hash)
<1> DEFINE Reviewed == \/ ux' = ux
                       \/ /\ ux' \in {"sign_tx", "esdt"}
                          /\ tx_signature' = Sign(tx_hash_context'.hash)
<1>1. ASSUME NEW hash, NEW state, NEW sw, GiveUp(hash, state, fault, sw)
      PROVE  ux' = ux
  BY <1>1 DEF GiveUp, Throw, ReplyWith
<1>2. ASSUME NEW ctx, ReviewTx(ctx)
      PROVE  ux' = ux \/ ux' \in {"sign_tx", "esdt"}
  BY <1>2 DEF ReviewTx, Throw, ReplyWith, ShowReview
<1>3. ASSUME NEW hash, NEW ctx, SignTx(hash, ctx, fault)
      PROVE  Reviewed
  <2>1. CASE fault \in {"derive", "cx_last", "sign"}
    BY <1>1, <1>3, <2>1 DEF SignTx
  <2>2. CASE fault \notin {"derive", "cx_last", "sign"}
    <3>1. tx_signature' = Sign(hash) /\ tx_hash_context'.hash = hash /\ ReviewTx(ctx)
      BY <1>3, <2>2 DEF SignTx
    <3>2. QED
      BY <1>2, <3>1
  <2>3. QED
    BY <2>1, <2>2
<1>4. ASSUME NEW hash, NEW status, NEW ctx, NEW tokens, AbsorbTx(hash, status, ctx, tokens, fault)
      PROVE  Reviewed
  BY <1>1, <1>3, <1>4 DEF AbsorbTx, KeepTxSession, Throw, ReplyWith
<1>5. QED
  BY <1>1, <1>4 DEF handle_sign_tx_hash, FirstTxChunk, NextTxChunk, RefusedTx, Throw, ReplyWith

(***************************************************************************)
(* The signature under review.  A command only comes while the menu is     *)
(* shown (LinkInv), so it finds no review to spoil.                        *)
(***************************************************************************)
(* A command leaves the menu, or a review of what it has just signed.      *)
LEMMA ReceiveReviews ==
    ASSUME TypeOK, LinkInv, NEW c \in Commands, NEW fault \in CxFaults, Receive(c, fault)
    PROVE  ReviewedIsSigned'
<1> USE DEF ReviewedIsSigned, SigningReview, ReviewedSignature, ReviewedDigest, Sign
<1>1. ux = "menu" /\ "menu" \notin Review
  BY Screens DEF Receive, LinkInv, InsideExchange
<1>2. msg_context \in MsgContext /\ auth_context \in AuthContext
  BY DEF TypeOK, SigningTypeOK
<1>3. CASE SignMsgCommand(c, fault)
  BY <1>1, <1>2, <1>3, MessageReview DEF SignMsgCommand
<1>4. CASE AuthTokenCommand(c, fault)
  BY <1>1, <1>2, <1>4, TokenReview DEF AuthTokenCommand
<1>5. CASE SignTxHashCommand(c, fault)
  BY <1>1, <1>5, TransactionReview DEF SignTxHashCommand
<1>6. CASE ProvideEsdtCommand(c, fault) \/ AddressCommand(c, fault)
  <2>1. ux' \in {"menu", "address"}
    BY <1>1, <1>6 DEF ProvideEsdtCommand, handle_provide_ESDT_info, AddressCommand,
           handle_set_address, handle_get_address, Throw, ReplyWith, ShowReview
  <2>2. QED
    BY <1>1, <2>1
<1>7. CASE handle_other(c)
  BY <1>1, <1>7 DEF handle_other, Throw, ReplyWith
<1>8. QED
  BY <1>3, <1>4, <1>5, <1>6, <1>7 DEF Receive, handle_apdu

(* The signature under review is over the digest under review, made with   *)
(* the key of the selected address, until the user decides.                *)
THEOREM ReviewsAreSigned == Spec => []ReviewedIsSigned
<1>1. Init => ReviewedIsSigned
  BY Screens DEF Init, ReviewedIsSigned, SigningReview
<1>2. ASSUME TypeOK, LinkInv, ReviewedIsSigned, [Next]_vars
      PROVE  ReviewedIsSigned'
  <2>1. CASE Launch \/ Unplug \/ Quit \/ PowerOff \/ Approve \/ Reject
    <3>1. ux' = "menu"
      BY <2>1 DEF Launch, Unplug, Initialise, Quit, PowerOff, Stop, Approve, Reject, send_response
    <3>2. QED
      BY <3>1, Screens DEF ReviewedIsSigned, SigningReview
  <2>2. ASSUME NEW c \in Commands, NEW fault \in CxFaults, Receive(c, fault)
        PROVE  ReviewedIsSigned'
    BY <1>2, <2>2, ReceiveReviews
  <2>3. ASSUME UNCHANGED <<ux, bip32, contexts>>
        PROVE  ReviewedIsSigned'
    BY <1>2, <2>3
       DEF ReviewedIsSigned, ReviewedSignature, ReviewedDigest, Sign, contexts
  <2>4. CASE IoExchange
    BY <2>3, <2>4 DEF IoExchange, globals
  <2>5. ASSUME NEW enabled \in BOOLEAN, setting_contract_data_change(enabled)
        PROVE  ReviewedIsSigned'
    BY <2>3, <2>5 DEF setting_contract_data_change, output
  <2>6. CASE UNCHANGED vars
    BY <2>3, <2>6 DEF vars, globals, output
  <2>7. QED
    BY <1>2, <2>1, <2>2, <2>4, <2>5, <2>6 DEF Next
<1>3. QED
  BY <1>1, <1>2, TypeCorrect, LinkInvariant, PTL DEF Spec

(***************************************************************************)
(* Messages and transactions.  The hash of a message session begins with   *)
(* the prefix, that of a transaction session is made of pieces of text     *)
(* only, provided that no failing call has left out the start of a hash.   *)
(***************************************************************************)
HashesAreStarted == CxFaults \cap {"keccak_init", "cx_prepend"} = {}

(* Hashing a chunk or finalising keeps the prefix.                         *)
LEMMA PrefixStays ==
    ASSUME NEW hash \in Digest, IsMessageHash(hash)
    PROVE  /\ \A bytes \in Seq(MessageByte) : IsMessageHash(hash \o bytes)
           /\ IsMessageHash(Append(hash, CxLast))
<1>1. ASSUME NEW bytes \in Seq(MessageByte)
      PROVE  IsMessageHash(hash \o bytes)
  <2>1. bytes \in Seq(Absorbed)
    BY SeqMonotonic DEF Absorbed
  <2>2. Len(hash) \in Nat /\ Len(bytes) \in Nat
    BY <2>1, LenProperties DEF Digest
  <2>3. Len(hash \o bytes) = Len(hash) + Len(bytes) /\ (hash \o bytes)[1] = hash[1]
    BY <2>1, <2>2, ConcatProperties DEF Digest, IsMessageHash
  <2>4. QED
    BY <2>2, <2>3 DEF IsMessageHash
<1>2. IsMessageHash(Append(hash, CxLast))
  BY DEF IsMessageHash, Digest
<1>3. QED
  BY <1>1, <1>2

(* No piece of a transaction is the prefix.                                *)
LEMMA NoPrependStays ==
    ASSUME NEW hash \in Digest, NoPrepend(hash)
    PROVE  \A tokens \in Seq(TxToken) : NoPrepend(hash \o tokens)
<1>1. ASSUME NEW tokens \in Seq(TxToken)
      PROVE  NoPrepend(hash \o tokens)
  <2>1. \A token \in TxToken : token # Prepend
    <3>1. DOMAIN Prepend = {"mark"}
      BY DEF Prepend
    <3>2. \A token \in TxMember : "field" \in DOMAIN token
      BY DEF TxMember
    <3>3. \A token \in Punctuation : "punct" \in DOMAIN token
      BY DEF Punctuation
    <3>4. QED
      BY <3>1, <3>2, <3>3 DEF TxToken
  <2>2. tokens \in Seq(Absorbed)
    BY SeqMonotonic DEF Absorbed
  <2>3. hash \o tokens \in Seq(Absorbed) /\ Len(hash) \in Nat /\ Len(tokens) \in Nat
    BY <2>2, ConcatProperties, LenProperties DEF Digest
  <2>4. ASSUME NEW i \in 1 .. Len(hash) + Len(tokens)
        PROVE  (hash \o tokens)[i] # Prepend
    <3>1. CASE i <= Len(hash)
      BY <2>2, <2>3, <3>1, ConcatProperties DEF Digest, NoPrepend
    <3>2. CASE i > Len(hash)
      <4>1. i - Len(hash) \in 1 .. Len(tokens)
        BY <2>3, <3>2
      <4>2. (hash \o tokens)[i] = tokens[i - Len(hash)]
        BY <2>2, <2>3, <3>2, ConcatProperties DEF Digest
      <4>3. QED
        BY <2>1, <4>1, <4>2, ElementOfSeq
    <3>3. QED
      BY <2>3, <3>1, <3>2
  <2>5. DOMAIN (hash \o tokens) = 1 .. Len(hash) + Len(tokens)
    BY <2>2, <2>3, ConcatProperties, LenProperties DEF Digest
  <2>6. QED
    BY <2>4, <2>5 DEF NoPrepend
<1>2. QED
  BY <1>1

SessionsSeparated ==
    /\ app_state = "SIGNING_MESSAGE" => IsMessageHash(sha3_context)
    /\ app_state = "SIGNING_TX" => NoPrepend(sha3_context)

(* handle_sign_msg hashes and signs only with the prefix.                  *)
LEMMA MessageSeparated ==
    ASSUME TypeOK, SessionsSeparated, HashesAreStarted, NEW c \in Commands,
           NEW fault \in CxFaults, c.ins = "SIGN_MSG", handle_sign_msg(c, fault)
    PROVE  /\ SessionsSeparated'
           /\ ux' = ux \/ (ux' = "sign_msg" /\ IsMessageHash(msg_context'.signature.hash))
<1> DEFINE Separated ==
        /\ SessionsSeparated'
        /\ ux' = ux \/ (ux' = "sign_msg" /\ IsMessageHash(msg_context'.signature.hash))
<1>1. c.len \in Nat /\ c.bytes \in Seq(MessageByte) /\ sha3_context \in Digest
      /\ msg_context \in MsgContext
  BY CommandTypes DEF TypeOK, SigningTypeOK
<1>2. ASSUME NEW hash, NEW len, IsMessageHash(hash), KeepMsgSession(hash, len)
      PROVE  SessionsSeparated'
  BY <1>2 DEF KeepMsgSession, SessionsSeparated, IsMessageHash
<1>3. ASSUME NEW hash, IsMessageHash(hash), SignMessage(hash, fault)
      PROVE  Separated
  <2> DEFINE signed ==
        [[msg_context EXCEPT !.len = 0, !.hash = hash, !.strhash = hash]
            EXCEPT !.signature = Sign(hash)]
  <2>1. signed.signature.hash = hash
    BY <1>1 DEF MsgContext, Sign
  <2>2. /\ app_state' = "IDLE"
        /\ ux' = ux \/ (ux' = "sign_msg" /\ msg_context' = signed)
    BY <1>3 DEF SignMessage, init_msg_context, Throw, ReplyWith, ShowReview
  <2> HIDE DEF signed
  <2>3. QED
    BY <1>3, <2>1, <2>2 DEF SessionsSeparated
<1>4. ASSUME NEW hash \in Digest, NEW len, IsMessageHash(hash),
             AbsorbMessage(hash, len, c.bytes, fault)
      PROVE  Separated
  <2>1. IsMessageHash(hash \o c.bytes)
    BY <1>1, <1>4, PrefixStays
  <2>2. QED
    BY <1>2, <1>3, <1>4, <2>1 DEF AbsorbMessage, RefuseLongMessage, Throw, ReplyWith
<1>5. ASSUME NEW sw, RefusedMsg(sw)
      PROVE  Separated
  BY <1>5 DEF RefusedMsg, Throw, ReplyWith, SessionsSeparated
<1>6. CASE FirstMsgChunk(c, fault)
  <2>1. fault # "keccak_init" /\ fault # "cx_prepend"
    BY DEF HashesAreStarted
  <2>2. IsMessageHash(StartedMsgHash(c.len, fault))
    BY <2>1 DEF StartedMsgHash, IsMessageHash
  <2>3. StartedMsgHash(c.len, fault) \in Digest
    BY <1>1, AddressAssumption, Started
  <2>4. QED
    BY <1>2, <1>4, <1>5, <1>6, <2>2, <2>3 DEF FirstMsgChunk, Throw, ReplyWith
<1>7. CASE NextMsgChunk(c, fault)
  BY <1>1, <1>4, <1>5, <1>7 DEF NextMsgChunk, Continuing, SessionsSeparated
<1>8. QED
  BY <1>6, <1>7 DEF handle_sign_msg

(* handle_auth_token hashes and signs only with the prefix.                *)
LEMMA TokenSeparated ==
    ASSUME TypeOK, SessionsSeparated, HashesAreStarted, NEW c \in Commands,
           NEW fault \in CxFaults, c.ins = "AUTH_TOKEN", handle_auth_token(c, fault)
    PROVE  /\ SessionsSeparated'
           /\ ux' = ux \/ (ux' = "auth_token" /\ IsMessageHash(auth_context'.signature.hash))
<1> DEFINE Separated ==
        /\ SessionsSeparated'
        /\ ux' = ux \/ (ux' = "auth_token" /\ IsMessageHash(auth_context'.signature.hash))
           Fields == {"len", "hash", "address", "signature"}
<1>1. c.address \in Address /\ c.len \in Nat /\ c.bytes \in Seq(MessageByte)
  BY CommandTypes
<1>2. sha3_context \in Digest /\ DOMAIN auth_context = Fields
  BY DEF TypeOK, SigningTypeOK, AuthContext
<1>3. ASSUME NEW hash, NEW context, NEW display, IsMessageHash(hash),
             KeepAuthSession(hash, context, display)
      PROVE  SessionsSeparated'
  BY <1>3 DEF KeepAuthSession, SessionsSeparated, IsMessageHash
<1>4. ASSUME NEW hash \in Digest, NEW context, NEW display, IsMessageHash(hash),
             DOMAIN context = Fields, SignAuthToken(hash, context, display, fault)
      PROVE  Separated
  <2> DEFINE signed == [context EXCEPT !.len = 0, !.hash = hash, !.signature = Sign(hash)]
  <2>1. signed.signature.hash = hash
    BY <1>4 DEF Sign
  <2>2. IsMessageHash(Append(hash, CxLast))
    BY <1>4, PrefixStays
  <2>3. \/ app_state' = "IDLE" /\ (ux' = ux \/ (ux' = "auth_token" /\ auth_context' = signed))
        \/ ux' = ux /\ KeepAuthSession(Append(hash, CxLast), signed, display)
    BY <1>4 DEF SignAuthToken, init_auth_token_context, Throw, ReplyWith, ShowReview
  <2> HIDE DEF signed
  <2>4. QED
    BY <1>3, <1>4, <2>1, <2>2, <2>3 DEF SessionsSeparated
<1>5. ASSUME NEW hash \in Digest, NEW context, NEW display, IsMessageHash(hash),
             DOMAIN context = Fields, AbsorbToken(hash, context, display, c.bytes, fault)
      PROVE  Separated
  <2>1. hash \o c.bytes \in Digest /\ IsMessageHash(hash \o c.bytes)
    BY <1>1, <1>5, Absorb, PrefixStays
  <2>2. DOMAIN [context EXCEPT !.len = @ - Len(c.bytes)] = Fields
    BY <1>5
  <2>3. QED
    BY <1>3, <1>4, <1>5, <2>1, <2>2 DEF AbsorbToken, Throw, ReplyWith
<1>6. CASE FirstTokenChunk(c, fault)
  <2>1. fault # "keccak_init" /\ fault # "cx_prepend"
    BY DEF HashesAreStarted
  <2>2. IsMessageHash(StartedAuthHash(c.len, c.address, fault))
    BY <2>1 DEF StartedAuthHash, IsMessageHash
  <2>3. StartedAuthHash(c.len, c.address, fault) \in Digest
    BY <1>1, <1>2, Started
  <2>4. DOMAIN [CleanContext(auth_context) EXCEPT !.len = c.len, !.address = c.address] = Fields
    BY <1>2 DEF CleanContext
  <2>5. ASSUME NEW sw, RefusedFirstToken(sw)
        PROVE  Separated
    BY <2>5 DEF RefusedFirstToken, Throw, ReplyWith, SessionsSeparated
  <2>6. QED
    BY <1>3, <1>5, <1>6, <2>2, <2>3, <2>4, <2>5 DEF FirstTokenChunk, Throw, ReplyWith
<1>7. CASE NextTokenChunk(c, fault)
  BY <1>2, <1>5, <1>7
     DEF NextTokenChunk, RefusedToken, Continuing, Throw, ReplyWith, SessionsSeparated
<1>8. QED
  BY <1>6, <1>7 DEF handle_auth_token

(* handle_sign_tx_hash hashes and signs only without the prefix.           *)
LEMMA TransactionSeparated ==
    ASSUME TypeOK, SessionsSeparated, HashesAreStarted, NEW c \in Commands,
           NEW fault \in CxFaults, c.ins = "SIGN_TX_HASH", handle_sign_tx_hash(c, fault)
    PROVE  /\ SessionsSeparated'
           /\ \/ ux' = ux
              \/ ux' \in {"sign_tx", "esdt"} /\ NoPrepend(tx_signature'.hash)
<1> DEFINE Separated ==
        /\ SessionsSeparated'
        /\ \/ ux' = ux
           \/ ux' \in {"sign_tx", "esdt"} /\ NoPrepend(tx_signature'.hash)
<1>1. c.tokens \in Seq(TxToken) /\ sha3_context \in Digest
  BY CommandTypes DEF TypeOK, SigningTypeOK
<1>2. fault # "keccak_init" /\ << >> \in Digest /\ NoPrepend(<< >>)
  BY EmptySeq DEF HashesAreStarted, Digest, NoPrepend
<1>3. ASSUME NEW hash, NEW state, NEW sw, GiveUp(hash, state, fault, sw)
      PROVE  Separated
  BY <1>2, <1>3 DEF GiveUp, Throw, ReplyWith, SessionsSeparated
<1>4. ASSUME NEW hash \in Digest, NEW ctx, NoPrepend(hash), SignTx(hash, ctx, fault)
      PROVE  Separated
  <2>1. CASE fault \in {"derive", "cx_last", "sign"}
    BY <1>3, <1>4, <2>1 DEF SignTx
  <2>2. CASE fault \notin {"derive", "cx_last", "sign"}
    <3>1. /\ tx_signature' = Sign(hash) /\ sha3_context' = Append(hash, CxLast)
          /\ ReviewTx(ctx)
      BY <1>4, <2>2 DEF SignTx
    <3>2. tx_signature'.hash = hash
      BY <3>1 DEF Sign
    <3>3. NoPrepend(Append(hash, CxLast))
      <4>1. CxLast # Prepend
        BY DEF CxLast, Prepend
      <4>2. QED
        BY <1>4, <4>1 DEF NoPrepend, Digest
    <3>4. /\ app_state' # "SIGNING_MESSAGE"
          /\ ux' = ux \/ ux' \in {"sign_tx", "esdt"}
      BY <3>1 DEF ReviewTx, Throw, ReplyWith, ShowReview
    <3>5. QED
      BY <1>4, <3>1, <3>2, <3>3, <3>4 DEF SessionsSeparated
  <2>3. QED
    BY <2>1, <2>2
<1>5. ASSUME NEW hash \in Digest, NEW status, NEW ctx, NoPrepend(hash),
             AbsorbTx(hash, status, ctx, c.tokens, fault)
      PROVE  Separated
  <2>1. hash \o c.tokens \in Digest /\ NoPrepend(hash \o c.tokens)
    BY <1>1, <1>5, Absorb, NoPrependStays
  <2>2. ASSUME NEW context, NEW new, KeepTxSession(hash \o c.tokens, context, new, "MSG_OK")
        PROVE  Separated
    BY <2>1, <2>2 DEF KeepTxSession, Throw, ReplyWith, SessionsSeparated
  <2>3. QED
    BY <1>3, <1>4, <1>5, <2>1, <2>2 DEF AbsorbTx
<1>6. CASE FirstTxChunk(c, fault)
  BY <1>2, <1>3, <1>5, <1>6 DEF FirstTxChunk
<1>7. ASSUME NEW sw, RefusedTx(sw)
      PROVE  Separated
  BY <1>7 DEF RefusedTx, Throw, ReplyWith, SessionsSeparated
<1>8. CASE NextTxChunk(c, fault)
  BY <1>1, <1>5, <1>7, <1>8 DEF NextTxChunk, Continuing, SessionsSeparated
<1>9. QED
  BY <1>6, <1>8 DEF handle_sign_tx_hash

(* A command keeps messages and transactions apart.                        *)
LEMMA ReceiveSeparated ==
    ASSUME TypeOK, LinkInv, DomainSeparated, HashesAreStarted,
           NEW c \in Commands, NEW fault \in CxFaults, Receive(c, fault)
    PROVE  DomainSeparated'
<1>1. ux = "menu"
  BY Screens DEF Receive, LinkInv, InsideExchange
<1>2. SessionsSeparated
  BY DEF DomainSeparated, SessionsSeparated
<1> USE DEF DomainSeparated, SessionsSeparated, ReviewedSignature
<1>3. CASE SignMsgCommand(c, fault)
  BY <1>1, <1>2, <1>3, MessageSeparated DEF SignMsgCommand
<1>4. CASE AuthTokenCommand(c, fault)
  BY <1>1, <1>2, <1>4, TokenSeparated DEF AuthTokenCommand
<1>5. CASE SignTxHashCommand(c, fault)
  BY <1>1, <1>2, <1>5, TransactionSeparated DEF SignTxHashCommand
<1>6. CASE ProvideEsdtCommand(c, fault) \/ AddressCommand(c, fault)
  <2>1. ux' \in {"menu", "address"} /\ app_state' = app_state /\ sha3_context' = sha3_context
    BY <1>1, <1>6 DEF ProvideEsdtCommand, handle_provide_ESDT_info, AddressCommand,
           handle_set_address, handle_get_address, Throw, ReplyWith, ShowReview
  <2>2. QED
    BY <1>2, <2>1
<1>7. CASE handle_other(c)
  BY <1>1, <1>2, <1>7 DEF handle_other, globals, Throw, ReplyWith
<1>8. QED
  BY <1>3, <1>4, <1>5, <1>6, <1>7 DEF Receive, handle_apdu

(* What is signed as a message starts with the message prefix, what is     *)
(* signed as a transaction does not contain it, however the sessions of    *)
(* the three signing commands cut into each other.                         *)
THEOREM MessagesAreNotTransactions ==
    ASSUME HashesAreStarted
    PROVE  Spec => []DomainSeparated
<1>1. Init => DomainSeparated
  BY DEF Init, DomainSeparated
<1>2. ASSUME TypeOK, LinkInv, DomainSeparated, [Next]_vars
      PROVE  DomainSeparated'
  <2>1. CASE Launch \/ Unplug \/ Quit \/ PowerOff
    <3>1. ux' = "menu" /\ app_state' = "IDLE"
      BY <2>1 DEF Launch, Unplug, Initialise, init_msg_context, Quit, PowerOff, Stop
    <3>2. QED
      BY <3>1 DEF DomainSeparated
  <2>2. ASSUME NEW c \in Commands, NEW fault \in CxFaults, Receive(c, fault)
        PROVE  DomainSeparated'
    BY <1>2, <2>2, ReceiveSeparated
  <2>3. ASSUME UNCHANGED <<app_state, sha3_context, contexts>>, ux' \in {ux, "menu"}
        PROVE  DomainSeparated'
    BY <1>2, <2>3 DEF DomainSeparated, ReviewedSignature, contexts
  <2>4. CASE IoExchange \/ Approve \/ Reject
    BY <2>3, <2>4 DEF IoExchange, Approve, Reject, send_response, globals
  <2>5. ASSUME NEW enabled \in BOOLEAN, setting_contract_data_change(enabled)
        PROVE  DomainSeparated'
    BY <2>3, <2>5 DEF setting_contract_data_change, output
  <2>6. CASE UNCHANGED vars
    BY <2>3, <2>6 DEF vars, globals, output
  <2>7. QED
    BY <1>2, <2>1, <2>2, <2>4, <2>5, <2>6 DEF Next
<1>3. QED
  BY <1>1, <1>2, TypeCorrect, LinkInvariant, PTL DEF Spec
==============================================================================
