---------------------------- MODULE Session_proof ----------------------------
(***************************************************************************)
(* Proofs about sessions: a refused chunk changes nothing, and what comes  *)
(* under review has the announced length.                                  *)
(***************************************************************************)
EXTENDS Review_proof

(***************************************************************************)
(* Refused chunks.                                                         *)
(***************************************************************************)
RefusedSw == {"ERR_MESSAGE_TOO_LONG", "ERR_INVALID_P1"}

(* A later chunk of a message that is refused changes nothing.             *)
LEMMA RefusedMsgKeeps ==
    ASSUME msg_context \in MsgContext, app_state = "SIGNING_MESSAGE", NEW c, NEW fault,
           c.p1 # "P1_FIRST", handle_sign_msg(c, fault), tx'.sw \in RefusedSw
    PROVE  UNCHANGED <<app_state, sha3_context, msg_context>>
<1> USE DEF RefusedSw
<1>1. NextMsgChunk(c, fault)
  BY DEF handle_sign_msg, FirstMsgChunk
<1>2. [msg_context EXCEPT !.len = msg_context.len] = msg_context
  BY DEF MsgContext
<1>3. ASSUME NEW sw, Throw(sw)
      PROVE  tx'.sw = sw
  BY <1>3 DEF Throw, ReplyWith
<1>4. ASSUME NEW review, ShowReview(review)
      PROVE  FALSE
  BY <1>4 DEF ShowReview, NoReply
<1>5. ASSUME NEW hash, SignMessage(hash, fault)
      PROVE  FALSE
  BY <1>3, <1>4, <1>5 DEF SignMessage
<1>6. ASSUME AbsorbMessage(sha3_context, msg_context.len, c.bytes, fault)
      PROVE  RefuseLongMessage(sha3_context, msg_context.len, c.bytes)
  BY <1>3, <1>5, <1>6 DEF AbsorbMessage
<1>7. QED
  BY <1>1, <1>2, <1>6 DEF NextMsgChunk, RefusedMsg, RefuseLongMessage, KeepMsgSession

(* A later chunk of a token that is refused changes nothing.               *)
LEMMA RefusedTokenKeeps ==
    ASSUME NEW c, NEW fault, c.p1 # "P1_FIRST", app_state = "SIGNING_MESSAGE",
           handle_auth_token(c, fault), tx'.sw \in RefusedSw
    PROVE  UNCHANGED <<app_state, sha3_context, auth_context>>
<1> USE DEF RefusedSw
<1>1. NextTokenChunk(c, fault)
  BY DEF handle_auth_token, FirstTokenChunk
<1>2. ASSUME NEW sw, Throw(sw)
      PROVE  tx'.sw = sw
  BY <1>2 DEF Throw, ReplyWith
<1>3. ASSUME NEW review, ShowReview(review)
      PROVE  FALSE
  BY <1>3 DEF ShowReview, NoReply
<1>4. ASSUME NEW hash, NEW context, NEW display, SignAuthToken(hash, context, display, fault)
      PROVE  FALSE
  BY <1>2, <1>3, <1>4 DEF SignAuthToken
<1>5. ASSUME AbsorbToken(sha3_context, auth_context, auth_display, c.bytes, fault)
      PROVE  KeepAuthSession(sha3_context, auth_context, auth_display)
  BY <1>2, <1>4, <1>5 DEF AbsorbToken
<1>6. QED
  BY <1>1, <1>5 DEF NextTokenChunk, RefusedToken, KeepAuthSession

(* A chunk refused as too long, or for its P1, has not touched the session *)
(* it was sent for (handle_sign_msg, handle_auth_token), whatever host it  *)
(* is and whatever calls fail.                                             *)
THEOREM RefusedChunksKeepSessions == Spec => RefusedChunkKeepsSession
<1>1. ASSUME TypeOK, app_state = "SIGNING_MESSAGE", NEW c \in Commands, NEW fault \in CxFaults,
             c.ins \in {"SIGN_MSG", "AUTH_TOKEN"}, c.p1 # "P1_FIRST", Receive(c, fault),
             tx'.sw \in RefusedSw
      PROVE  UNCHANGED <<app_state, sha3_context, msg_context, auth_context>>
  <2>1. msg_context \in MsgContext
    BY <1>1 DEF TypeOK, SigningTypeOK
  <2>2. CASE SignMsgCommand(c, fault)
    BY <1>1, <2>1, <2>2, RefusedMsgKeeps DEF SignMsgCommand
  <2>3. CASE AuthTokenCommand(c, fault)
    BY <1>1, <2>3, RefusedTokenKeeps DEF AuthTokenCommand
  <2>4. QED
    BY <1>1, <2>2, <2>3 DEF Receive, handle_apdu, SignTxHashCommand, ProvideEsdtCommand,
                            AddressCommand, handle_other
<1> DEFINE Refused ==
        /\ app_state = "SIGNING_MESSAGE"
        /\ \E c \in Commands, fault \in CxFaults : c.ins \in {"SIGN_MSG", "AUTH_TOKEN"}
              /\ c.p1 # "P1_FIRST" /\ Receive(c, fault)
        /\ tx'.sw \in {"ERR_MESSAGE_TOO_LONG", "ERR_INVALID_P1"}
<1>2. TypeOK /\ Refused => UNCHANGED <<app_state, sha3_context, msg_context, auth_context>>
  BY <1>1 DEF RefusedSw
<1>3. QED
  BY <1>2, TypeCorrect, PTL DEF Spec, RefusedChunkKeepsSession

(***************************************************************************)
(* Messages.  The hash of a session holds the prefix, the announced length *)
(* and as many bytes as are not remaining.                                 *)
(***************************************************************************)
IsMessage(hash, remaining) ==
    /\ Len(hash) >= 2
    /\ hash[1] = Prepend
    /\ hash[2] = Length(remaining + (Len(hash) - 2))
    /\ \A i \in 3 .. Len(hash) : hash[i] \in MessageByte

OpenMessage == app_state = "SIGNING_MESSAGE" => IsMessage(sha3_context, msg_context.len)
MessageInv ==
    /\ OpenMessage
    /\ ux = "sign_msg" => /\ app_state = "IDLE" /\ IsMessage(msg_context.hash, 0)
                         /\ msg_context.signature.hash = msg_context.hash

NoTokens == \A c \in Commands : c.ins # "AUTH_TOKEN"
MessagesAreStarted == CxFaults \cap StartFaults = {}

(* Hashing a chunk that is not too long keeps the account of the bytes.    *)
LEMMA MessageGrows ==
    ASSUME NEW hash \in Digest, NEW remaining \in Nat, IsMessage(hash, remaining),
           NEW bytes \in Seq(MessageByte), Len(bytes) <= remaining
    PROVE  IsMessage(hash \o bytes, remaining - Len(bytes))
<1>1. bytes \in Seq(Absorbed) /\ hash \in Seq(Absorbed)
  BY SeqMonotonic DEF Absorbed, Digest
<1>2. Len(hash) \in Nat /\ Len(bytes) \in Nat
  BY <1>1, LenProperties
<1>3. /\ Len(hash \o bytes) = Len(hash) + Len(bytes)
      /\ \A i \in 1 .. Len(hash) + Len(bytes) :
            (hash \o bytes)[i] = IF i <= Len(hash) THEN hash[i] ELSE bytes[i - Len(hash)]
  BY <1>1, ConcatProperties
<1>4. ASSUME NEW i \in 3 .. Len(hash \o bytes)
      PROVE  (hash \o bytes)[i] \in MessageByte
  <2>1. CASE i <= Len(hash)
    BY <1>2, <1>3, <2>1 DEF IsMessage
  <2>2. CASE i > Len(hash)
    <3>1. i - Len(hash) \in 1 .. Len(bytes)
      BY <1>2, <1>3, <2>2
    <3>2. bytes[i - Len(hash)] \in MessageByte
      BY <3>1, ElementOfSeq
    <3>3. QED
      BY <1>2, <1>3, <2>2, <3>2
  <2>3. QED
    BY <1>2, <1>3, <2>1, <2>2
<1>5. Len(hash \o bytes) >= 2 /\ (hash \o bytes)[1] = Prepend /\ (hash \o bytes)[2] = hash[2]
  BY <1>2, <1>3 DEF IsMessage
<1>6. remaining - Len(bytes) + (Len(hash \o bytes) - 2) = remaining + (Len(hash) - 2)
  BY <1>2, <1>3
<1>7. QED
  BY <1>4, <1>5, <1>6 DEF IsMessage

(* handle_sign_msg keeps the account, and reviews when nothing remains.    *)
LEMMA MessageAccount ==
    ASSUME TypeOK, OpenMessage, MessagesAreStarted, NEW c \in Commands,
           NEW fault \in CxFaults, c.ins = "SIGN_MSG", handle_sign_msg(c, fault)
    PROVE  /\ OpenMessage'
           /\ \/ ux' = ux
              \/ /\ ux' = "sign_msg" /\ app_state' = "IDLE" /\ IsMessage(msg_context'.hash, 0)
                 /\ msg_context'.signature.hash = msg_context'.hash
<1> DEFINE Accounted ==
        /\ OpenMessage'
        /\ \/ ux' = ux
           \/ /\ ux' = "sign_msg" /\ app_state' = "IDLE" /\ IsMessage(msg_context'.hash, 0)
              /\ msg_context'.signature.hash = msg_context'.hash
<1>1. c.len \in Nat /\ c.bytes \in Seq(MessageByte) /\ sha3_context \in Digest
      /\ msg_context \in MsgContext /\ msg_context.len \in Nat
  BY CommandTypes DEF TypeOK, SigningTypeOK, MsgContext
<1>2. ASSUME NEW hash, NEW len, IsMessage(hash, len), KeepMsgSession(hash, len)
      PROVE  OpenMessage'
  <2>1. sha3_context' = hash /\ msg_context'.len = len
    BY <1>1, <1>2 DEF KeepMsgSession, MsgContext
  <2>2. QED
    BY <1>2, <2>1 DEF OpenMessage
<1>3. ASSUME NEW hash, IsMessage(hash, 0), SignMessage(hash, fault)
      PROVE  Accounted
  <2> DEFINE signed ==
        [[msg_context EXCEPT !.len = 0, !.hash = hash, !.strhash = hash]
            EXCEPT !.signature = Sign(hash)]
  <2>1. signed.hash = hash /\ signed.signature.hash = hash
    BY <1>1 DEF MsgContext, Sign
  <2>2. /\ app_state' = "IDLE"
        /\ ux' = ux \/ (ux' = "sign_msg" /\ msg_context' = signed)
    BY <1>3 DEF SignMessage, init_msg_context, Throw, ReplyWith, ShowReview
  <2> HIDE DEF signed
  <2>3. QED
    BY <1>3, <2>1, <2>2 DEF OpenMessage
<1>4. ASSUME NEW hash \in Digest, NEW len \in Nat, IsMessage(hash, len),
             AbsorbMessage(hash, len, c.bytes, fault)
      PROVE  Accounted
  <2>1. Len(c.bytes) \in Nat
    BY <1>1, LenProperties
  <2>2. ~TooLong(c.bytes, len) => IsMessage(hash \o c.bytes, len - Len(c.bytes))
    BY <1>1, <1>4, <2>1, MessageGrows DEF TooLong
  <2>3. Len(c.bytes) = len => IsMessage(hash \o c.bytes, 0)
    BY <2>1, <2>2 DEF TooLong
  <2>4. QED
    BY <1>2, <1>3, <1>4, <2>2, <2>3 DEF AbsorbMessage, RefuseLongMessage, Throw, ReplyWith
<1>5. ASSUME NEW sw, RefusedMsg(sw)
      PROVE  Accounted
  BY <1>5 DEF RefusedMsg, Throw, ReplyWith, OpenMessage
<1>6. CASE FirstMsgChunk(c, fault)
  <2>1. fault \notin StartFaults
    BY DEF MessagesAreStarted
  <2>2. StartedMsgHash(c.len, fault) = <<Prepend, Length(c.len)>>
    BY <2>1 DEF StartedMsgHash, StartFaults
  <2>3. IsMessage(<<Prepend, Length(c.len)>>, c.len)
    BY <1>1 DEF IsMessage
  <2>4. <<Prepend, Length(c.len)>> \in Digest
    BY <1>1, <2>2, AddressAssumption, Started
  <2>5. QED
    BY <1>1, <1>4, <1>5, <1>6, <2>1, <2>2, <2>3, <2>4 DEF FirstMsgChunk
<1>7. CASE NextMsgChunk(c, fault)
  BY <1>1, <1>4, <1>5, <1>7 DEF NextMsgChunk, Continuing, OpenMessage
<1>8. QED
  BY <1>6, <1>7 DEF handle_sign_msg

(* handle_sign_tx_hash leaves a message session alone or ends it.          *)
LEMMA TransactionEndsMessage ==
    ASSUME MessagesAreStarted, NEW c, NEW fault \in CxFaults, handle_sign_tx_hash(c, fault)
    PROVE  /\ ux' = ux \/ ux' \in {"sign_tx", "esdt"}
           /\ \/ app_state' = app_state /\ sha3_context' = sha3_context
              \/ app_state' # "SIGNING_MESSAGE"
<1> DEFINE Left == /\ ux' = ux \/ ux' \in {"sign_tx", "esdt"}
                   /\ \/ app_state' = app_state /\ sha3_context' = sha3_context
                      \/ app_state' # "SIGNING_MESSAGE"
<1>1. fault # "keccak_init"
  BY DEF MessagesAreStarted, StartFaults
<1>2. ASSUME NEW hash, NEW state, NEW sw, GiveUp(hash, state, fault, sw)
      PROVE  Left
  BY <1>1, <1>2 DEF GiveUp, Throw, ReplyWith
<1>3. ASSUME NEW ctx, ReviewTx(ctx)
      PROVE  Left
  BY <1>3 DEF ReviewTx, Throw, ReplyWith, ShowReview
<1>4. ASSUME NEW hash, NEW status, NEW ctx, NEW tokens, AbsorbTx(hash, status, ctx, tokens, fault)
      PROVE  Left
  BY <1>2, <1>3, <1>4 DEF AbsorbTx, KeepTxSession, SignTx, Throw, ReplyWith
<1>5. QED
  BY <1>1, <1>4 DEF handle_sign_tx_hash, FirstTxChunk, NextTxChunk, RefusedTx, Throw, ReplyWith

(* A command keeps the account of the message.                             *)
LEMMA ReceiveAccount ==
    ASSUME TypeOK, LinkInv, MessageInv, MessagesAreStarted, NoTokens,
           NEW c \in Commands, NEW fault \in CxFaults, Receive(c, fault)
    PROVE  MessageInv' /\ ux' # "auth_token"
<1>1. ux = "menu"
  BY Screens DEF Receive, LinkInv, InsideExchange
<1>2. OpenMessage
  BY DEF MessageInv
<1>3. CASE SignMsgCommand(c, fault)
  BY <1>1, <1>2, <1>3, MessageAccount DEF SignMsgCommand, MessageInv
<1>4. CASE SignTxHashCommand(c, fault)
  <2>1. msg_context' = msg_context
    BY <1>4 DEF SignTxHashCommand
  <2>2. /\ ux' # "sign_msg" /\ ux' # "auth_token"
        /\ \/ app_state' = app_state /\ sha3_context' = sha3_context
           \/ app_state' # "SIGNING_MESSAGE"
    BY <1>1, <1>4, TransactionEndsMessage DEF SignTxHashCommand
  <2>3. QED
    BY <1>2, <2>1, <2>2 DEF MessageInv, OpenMessage
<1>5. CASE ProvideEsdtCommand(c, fault) \/ AddressCommand(c, fault) \/ handle_other(c)
  <2>1. /\ ux' \in {"menu", "address"} /\ app_state' = app_state /\ sha3_context' = sha3_context
        /\ msg_context' = msg_context
    BY <1>1, <1>5 DEF ProvideEsdtCommand, handle_provide_ESDT_info, AddressCommand,
           handle_set_address, handle_get_address, handle_other, globals, contexts,
           Throw, ReplyWith, ShowReview
  <2>2. QED
    BY <1>2, <2>1 DEF MessageInv, OpenMessage
<1>6. QED
  BY <1>3, <1>4, <1>5 DEF Receive, handle_apdu, NoTokens, AuthTokenCommand

OnlyMessages == MessageInv /\ ux # "auth_token"

(* Every step keeps the account of the message.                            *)
LEMMA AccountStep ==
    ASSUME TypeOK, LinkInv, OnlyMessages, MessagesAreStarted, NoTokens, [Next]_vars
    PROVE  OnlyMessages'
<1>1. CASE Launch \/ Unplug \/ Quit \/ PowerOff
  <2>1. ux' = "menu" /\ app_state' = "IDLE"
    BY <1>1 DEF Launch, Unplug, Initialise, init_msg_context, Quit, PowerOff, Stop
  <2>2. QED
    BY <2>1 DEF OnlyMessages, MessageInv, OpenMessage
<1>2. ASSUME NEW c \in Commands, NEW fault \in CxFaults, Receive(c, fault)
      PROVE  OnlyMessages'
  BY <1>2, ReceiveAccount DEF OnlyMessages
<1>3. ASSUME UNCHANGED <<app_state, sha3_context, contexts>>, ux' \in {ux, "menu"}
      PROVE  OnlyMessages'
  BY <1>3 DEF OnlyMessages, MessageInv, OpenMessage, IsMessage, contexts
<1>4. CASE IoExchange \/ Approve \/ Reject
  BY <1>3, <1>4 DEF IoExchange, Approve, Reject, send_response, globals
<1>5. ASSUME NEW enabled \in BOOLEAN, setting_contract_data_change(enabled)
      PROVE  OnlyMessages'
  BY <1>3, <1>5 DEF setting_contract_data_change, output
<1>6. CASE UNCHANGED vars
  BY <1>3, <1>6 DEF vars, globals, output
<1>7. QED
  BY <1>1, <1>2, <1>4, <1>5, <1>6 DEF Next

(* The bytes of an open message and those that remain add up.              *)
LEMMA MessageInvariant ==
    ASSUME MessagesAreStarted, NoTokens
    PROVE  Spec => []OnlyMessages
<1>1. Init => OnlyMessages
  BY DEF Init, OnlyMessages, MessageInv, OpenMessage
<1>2. TypeOK /\ LinkInv /\ OnlyMessages /\ [Next]_vars => OnlyMessages'
  BY AccountStep
<1>3. QED
  BY <1>1, <1>2, TypeCorrect, LinkInvariant, PTL DEF Spec

(* The message under review is complete: its hash is over the prefix, the  *)
(* announced length and exactly that many bytes (handle_sign_msg), for     *)
(* hosts that ask for no tokens, if no call that starts a hash fails.      *)
THEOREM ReviewedMessageIsComplete ==
    ASSUME MessagesAreStarted, NoTokens
    PROVE  Spec => []MessageHasAnnouncedLength
<1>1. TypeOK /\ OnlyMessages => MessageHasAnnouncedLength
  <2>1. ASSUME TypeOK, OnlyMessages, ux = "sign_msg"
        PROVE  0 + (Len(msg_context.hash) - 2) = Len(msg_context.hash) - 2
    <3>1. Len(msg_context.hash) \in Nat
      BY <2>1, LenProperties DEF TypeOK, SigningTypeOK, MsgContext, Digest
    <3>2. QED
      BY <3>1
  <2>2. QED
    BY <2>1 DEF OnlyMessages, MessageInv, IsMessage, MessageHasAnnouncedLength
<1>2. QED
  BY <1>1, MessageInvariant, TypeCorrect, PTL

(***************************************************************************)
(* The device implements the signing session.                              *)
(***************************************************************************)
(* What the abstract session sees of the hash of a message.                *)
LEMMA TextOfMessage ==
    ASSUME NEW hash \in Digest, NEW remaining \in Nat, IsMessage(hash, remaining)
    PROVE  /\ SubSeq(hash, 3, Len(hash)) \in Seq(MessageByte)
           /\ Len(SubSeq(hash, 3, Len(hash))) = Len(hash) - 2
           /\ Announced(hash, 0) = remaining + (Len(hash) - 2)
           /\ Len(hash) \in Nat
<1> DEFINE text == SubSeq(hash, 3, Len(hash))
<1>1. Len(hash) \in Nat
  BY LenProperties DEF Digest
<1>2. \A i \in 3 .. Len(hash) : hash[i] \in MessageByte
  BY DEF IsMessage
<1>3. text \in Seq(MessageByte) /\ Len(text) = IF 3 <= Len(hash) THEN Len(hash) - 3 + 1 ELSE 0
  BY <1>1, <1>2, SubSeqProperties
<1>4. Len(hash) >= 2
  BY DEF IsMessage
<1>5. hash[2].length = remaining + (Len(hash) - 2)
  BY DEF IsMessage, Length
<1>6. hash[2].length - 0 = remaining + (Len(hash) - 2)
  BY <1>1, <1>5
<1> HIDE DEF text
<1>7. Len(text) = Len(hash) - 2
  <2>1. \A n \in Nat : n >= 2 => (IF 3 <= n THEN n - 3 + 1 ELSE 0) = n - 2
    OBVIOUS
  <2>2. (IF 3 <= Len(hash) THEN Len(hash) - 3 + 1 ELSE 0) = Len(hash) - 2
    BY <1>1, <1>4, <2>1
  <2>3. QED
    BY <1>3, <2>2
<1>8. QED
  BY <1>1, <1>3, <1>6, <1>7 DEF Announced, text

(* An open text is no longer than announced, one under review is complete. *)
SessionOK ==
    /\ MessagePhase \in {"idle", "open", "review"}
    /\ MessageAnnounced \in Nat /\ MessageReceived \in Seq(MessageByte)
    /\ Len(MessageReceived) <= MessageAnnounced
    /\ MessagePhase = "review" => Len(MessageReceived) = MessageAnnounced
    /\ MessagePhase = "idle" => MessageAnnounced = 0 /\ MessageReceived = << >>
    /\ MessagePhase = "review" <=> ux = "sign_msg"

LEMMA SessionFacts ==
    ASSUME TypeOK, OnlyMessages
    PROVE  SessionOK
<1> USE DEF MessagePhase, SessionPhase
<1>1. sha3_context \in Digest /\ msg_context.hash \in Digest /\ msg_context.len \in Nat
  BY DEF TypeOK, SigningTypeOK, MsgContext
<1>2. CASE ux = "sign_msg"
  <2>1. IsMessage(msg_context.hash, 0)
    BY <1>2 DEF OnlyMessages, MessageInv
  <2>2. MessageAnnounced = Announced(msg_context.hash, 0)
        /\ MessageReceived = SubSeq(msg_context.hash, 3, Len(msg_context.hash))
    BY <1>2 DEF MessageAnnounced, MessageReceived, MessageHash
  <2>3. Len(msg_context.hash) >= 2
    BY <2>1 DEF IsMessage
  <2>4. QED
    BY <1>1, <1>2, <2>1, <2>2, <2>3, TextOfMessage DEF SessionOK
<1>3. CASE ux # "sign_msg" /\ app_state = "SIGNING_MESSAGE"
  <2>1. IsMessage(sha3_context, msg_context.len)
    BY <1>3 DEF OnlyMessages, MessageInv, OpenMessage
  <2>2. MessageAnnounced = Announced(sha3_context, 0)
        /\ MessageReceived = SubSeq(sha3_context, 3, Len(sha3_context))
    BY <1>3 DEF MessageAnnounced, MessageReceived, MessageHash
  <2>3. Len(sha3_context) >= 2
    BY <2>1 DEF IsMessage
  <2>4. QED
    BY <1>1, <1>3, <2>1, <2>2, <2>3, TextOfMessage DEF SessionOK
<1>4. CASE ux # "sign_msg" /\ app_state # "SIGNING_MESSAGE"
  BY <1>4, EmptySeq DEF SessionOK, MessageAnnounced, MessageReceived
<1>5. QED
  BY <1>2, <1>3, <1>4

(* A step that releases nothing, from a session that is not under review,  *)
(* is a step of the abstract session.                                      *)
LEMMA NothingReleasedStep ==
    ASSUME SessionOK, SessionOK', ux # "sign_msg",
           MessageReleased' \in {MessageReleased, NothingReleased}
    PROVE  MessageSession!Next
<1>1. CASE MessagePhase' = "idle"
  BY <1>1 DEF SessionOK, MessageSession!Next, MessageSession!Abandon, MessageSession!Close,
              MessageSession!NoneReleased
<1>2. CASE MessagePhase' # "idle"
  BY <1>2 DEF SessionOK, MessageSession!Next, MessageSession!Chunk, MessageSession!NoneReleased
<1>3. QED
  BY <1>1, <1>2

(* An answer without a signature over a message releases nothing.          *)
LEMMA NothingReleasedBy ==
    /\ answer' = NoReply => MessageReleased' = NothingReleased
    /\ answer' = answer => MessageReleased' = MessageReleased
    /\ ~HasSignature(answer') => MessageReleased' = NothingReleased
BY Screens DEF MessageReleased, ReleasedText, HasSignature

(* What the user approves of a message is what is under review.            *)
LEMMA ApprovedMessage ==
    ASSUME TypeOK, OnlyMessages, ux = "sign_msg", Approve
    PROVE  MessageReleased' = [announced |-> MessageAnnounced, text |-> MessageReceived]
<1>1. answer' = [sw |-> "MSG_OK", data |-> SignatureData(msg_context.signature)]
  BY DEF Approve, send_response, ReviewResult, MsgResult
<1>2. answer'.data.kind = "signature" /\ answer'.data.signature = msg_context.signature
  BY <1>1 DEF SignatureData
<1>3. msg_context.signature.hash = msg_context.hash /\ IsMessageHash(msg_context.hash)
  BY LenProperties
     DEF OnlyMessages, MessageInv, IsMessage, IsMessageHash, TypeOK, SigningTypeOK, MsgContext, Digest
<1>4. MessageAnnounced = Announced(msg_context.hash, 0)
      /\ MessageReceived = SubSeq(msg_context.hash, 3, Len(msg_context.hash))
  BY DEF MessageAnnounced, MessageReceived, MessageHash, MessagePhase, SessionPhase
<1>5. QED
  BY <1>2, <1>3, <1>4 DEF MessageReleased, ReleasedText, HasSignature

(* The approval of a transaction or an address releases no message.        *)
LEMMA ApprovedOther ==
    ASSUME OnlyMessages, DomainSeparated, LinkInv, ux # "sign_msg", Approve
    PROVE  MessageReleased' = NothingReleased
<1>1. ux \in {"sign_tx", "esdt", "address"} /\ answer' = [sw |-> "MSG_OK", data |-> ReviewResult]
  BY DEF Approve, send_response, LinkInv, InsideExchange, Review, OnlyMessages
<1>2. CASE ux = "address"
  BY <1>1, <1>2 DEF ReviewResult, AddressResult, AddressData, MessageReleased, ReleasedText,
                    HasSignature
<1>3. CASE ux \in {"sign_tx", "esdt"}
  <2>1. answer'.data.signature = tx_signature
    BY <1>1, <1>3 DEF ReviewResult, TxResult, SignatureData
  <2>2. NoPrepend(tx_signature.hash)
    BY <1>3 DEF DomainSeparated, ReviewedSignature
  <2>3. ~IsMessageHash(tx_signature.hash)
    BY <2>2 DEF NoPrepend, IsMessageHash
  <2>4. QED
    BY <2>1, <2>3 DEF MessageReleased, ReleasedText
<1>4. QED
  BY <1>1, <1>2, <1>3

(* Away from its review, a message session is left by steps that keep it,  *)
(* and everything that can follow its review ends it.                      *)
LEMMA SessionStep ==
    ASSUME TypeOK, OnlyMessages, SessionOK, SessionOK', LinkInv, DomainSeparated, [Next]_vars
    PROVE  [MessageSession!Next]_<<MessagePhase, MessageAnnounced, MessageReceived, MessageReleased>>
<1> DEFINE seen == <<MessagePhase, MessageAnnounced, MessageReceived, MessageReleased>>
           Implemented == MessageSession!Next \/ UNCHANGED seen
<1>1. ASSUME ux = "sign_msg", ux' = "menu", app_state' \in {app_state, "IDLE"}
      PROVE  MessagePhase = "review" /\ MessageSession!Close
  <2>1. MessagePhase' = "idle"
    BY <1>1 DEF OnlyMessages, MessageInv, MessagePhase, SessionPhase
  <2>2. QED
    BY <1>1, <2>1 DEF SessionOK, MessageSession!Close
<1>2. ASSUME ux = "sign_msg" => ux' = "menu" /\ app_state' \in {app_state, "IDLE"},
             MessageReleased' \in {MessageReleased, NothingReleased}
      PROVE  Implemented
  <2>1. CASE ux = "sign_msg"
    BY <1>1, <1>2, <2>1
       DEF MessageSession!Next, MessageSession!Abandon, MessageSession!NoneReleased
  <2>2. CASE ux # "sign_msg"
    BY <1>2, <2>2, NothingReleasedStep
  <2>3. QED
    BY <2>1, <2>2
<1>3. CASE Launch \/ Unplug \/ Quit \/ PowerOff
  <2>1. ux' = "menu" /\ app_state' = "IDLE" /\ answer' = NoReply
    BY <1>3 DEF Launch, Unplug, Initialise, init_msg_context, Quit, PowerOff, Stop
  <2>2. QED
    BY <1>2, <2>1, NothingReleasedBy
<1>4. ASSUME NEW c \in Commands, NEW fault \in CxFaults, Receive(c, fault)
      PROVE  Implemented
  <2>1. ux # "sign_msg" /\ answer' = NoReply
    BY <1>4, Screens DEF Receive, LinkInv, InsideExchange, Review
  <2>2. QED
    BY <1>2, <2>1, NothingReleasedBy
<1>5. ASSUME UNCHANGED <<app_state, sha3_context, contexts, ux, answer>>
      PROVE  UNCHANGED seen
  BY <1>5 DEF MessagePhase, SessionPhase, MessageAnnounced, MessageReceived, MessageHash,
              MessageReleased, ReleasedText, HasSignature, contexts
<1>6. CASE IoExchange
  <2>1. UNCHANGED <<app_state, sha3_context, contexts, ux>>
    BY <1>6 DEF IoExchange, globals
  <2>2. CASE flags
    BY <1>5, <1>6, <2>1, <2>2 DEF IoExchange
  <2>3. CASE ~flags
    <3>1. ux # "sign_msg"
      BY <1>6, <2>3, Screens DEF IoExchange, LinkInv, BeforeExchange, Review
    <3>2. ~HasSignature(answer')
      BY <1>6, <2>3 DEF IoExchange, LinkInv
    <3>3. QED
      BY <1>2, <3>1, <3>2, NothingReleasedBy
  <2>4. QED
    BY <2>2, <2>3
<1>7. CASE Approve
  <2>1. ux' = "menu" /\ app_state' = app_state
    BY <1>7 DEF Approve, send_response, globals
  <2>2. CASE ux = "sign_msg"
    BY <1>1, <1>7, <2>1, <2>2, ApprovedMessage DEF MessageSession!Next, MessageSession!Approve
  <2>3. CASE ux # "sign_msg"
    BY <1>2, <1>7, <2>3, ApprovedOther
  <2>4. QED
    BY <2>2, <2>3
<1>8. CASE Reject
  <2>1. ux' = "menu" /\ app_state' = app_state /\ ~HasSignature(answer')
    BY <1>8 DEF Reject, send_response, globals, HasSignature, NoData
  <2>2. QED
    BY <1>2, <2>1, NothingReleasedBy
<1>9. ASSUME NEW enabled \in BOOLEAN, setting_contract_data_change(enabled)
       PROVE  Implemented
  BY <1>5, <1>9 DEF setting_contract_data_change, output, transport
<1>10. CASE UNCHANGED vars
  BY <1>5, <1>10 DEF vars, globals, output, transport
<1>11. QED
  BY <1>3, <1>4, <1>6, <1>7, <1>8, <1>9, <1>10 DEF Next

(* For a host that asks for no tokens, and if no call that starts a hash   *)
(* fails, the device implements the session: the message signature         *)
(* released is over the text that was announced, was completely received   *)
(* and was under review when the user approved it (handle_sign_msg,        *)
(* send_response).                                                         *)
THEOREM ImplementsMessageSession ==
    ASSUME MessagesAreStarted, NoTokens
    PROVE  Spec => MessageSessionSpec
<1>1. Init => MessageSession!Init
  BY NothingReleasedBy, Screens
     DEF Init, MessageSession!Init, MessagePhase, SessionPhase, MessageAnnounced,
         MessageReceived, MessageReleased, ReleasedText
<1>2. TypeOK /\ OnlyMessages /\ SessionOK /\ SessionOK' /\ LinkInv /\ DomainSeparated
      /\ [Next]_vars
      => [MessageSession!Next]_<<MessagePhase, MessageAnnounced, MessageReceived, MessageReleased>>
  BY SessionStep
<1>3. HashesAreStarted
  BY DEF MessagesAreStarted, HashesAreStarted, StartFaults
<1>4. Spec => []DomainSeparated
  BY <1>3, MessagesAreNotTransactions
<1>5. TypeOK /\ OnlyMessages => SessionOK
  BY SessionFacts
<1>6. QED
  BY <1>1, <1>2, <1>4, <1>5, TypeCorrect, MessageInvariant, LinkInvariant, PTL
     DEF Spec, MessageSessionSpec, MessageSession!Spec
==============================================================================
