---------------------------- MODULE Device_proof -----------------------------
(***************************************************************************)
(* Proofs about the device, for all sets of addresses, bytes, commands and *)
(* failures of the crypto library.                                         *)
(***************************************************************************)
EXTENDS DeviceProperties, TLAPS

(***************************************************************************)
(* What a handler leaves: a reply to send, which holds no signature, or a  *)
(* review that will answer.                                                *)
(***************************************************************************)
LeavesReply == ux' = ux /\ flags' = FALSE /\ tx' # NoReply /\ ~HasSignature(tx')
LeavesReview(review) == ux' = review /\ flags' = TRUE /\ tx' = NoReply
Outcome == LeavesReply \/ \E review \in Review : LeavesReview(review)

(* A status word that is thrown is a reply without a signature (Throw).    *)
LEMMA ThrowOutcome ==
    ASSUME NEW sw, sw # "none", Throw(sw)
    PROVE  Outcome
BY DEF Throw, ReplyWith, Outcome, LeavesReply, NoReply, NoData, HasSignature

(* A review is a review (ShowReview).                                      *)
LEMMA ReviewOutcome ==
    ASSUME NEW review \in Review, ShowReview(review)
    PROVE  Outcome
BY DEF ShowReview, Outcome, LeavesReview

(* The outcome of handle_sign_msg.                                         *)
LEMMA SignMsgOutcome ==
    ASSUME NEW c, NEW fault, handle_sign_msg(c, fault)
    PROVE  Outcome
<1>1. "sign_msg" \in Review
  BY DEF Review
<1>2. ASSUME NEW hash, NEW len, NEW bytes, AbsorbMessage(hash, len, bytes, fault)
      PROVE  Outcome
  BY <1>1, <1>2, ThrowOutcome, ReviewOutcome
     DEF AbsorbMessage, RefuseLongMessage, SignMessage
<1>3. CASE FirstMsgChunk(c, fault)
  BY <1>2, <1>3, ThrowOutcome DEF FirstMsgChunk, RefusedMsg
<1>4. CASE NextMsgChunk(c, fault)
  BY <1>2, <1>4, ThrowOutcome DEF NextMsgChunk, RefusedMsg
<1>5. QED
  BY <1>3, <1>4 DEF handle_sign_msg

(* The outcome of handle_auth_token.                                       *)
LEMMA AuthTokenOutcome ==
    ASSUME NEW c, NEW fault, handle_auth_token(c, fault)
    PROVE  Outcome
<1>1. "auth_token" \in Review
  BY DEF Review
<1>2. ASSUME NEW hash, NEW context, NEW display, NEW bytes,
             AbsorbToken(hash, context, display, bytes, fault)
      PROVE  Outcome
  BY <1>1, <1>2, ThrowOutcome, ReviewOutcome DEF AbsorbToken, SignAuthToken
<1>3. CASE FirstTokenChunk(c, fault)
  BY <1>2, <1>3, ThrowOutcome DEF FirstTokenChunk, RefusedFirstToken
<1>4. CASE NextTokenChunk(c, fault)
  BY <1>2, <1>4, ThrowOutcome DEF NextTokenChunk, RefusedToken
<1>5. QED
  BY <1>3, <1>4 DEF handle_auth_token

(* The outcome of handle_sign_tx_hash: no status word of the parser or of  *)
(* the token amount stands for the absence of a reply.                     *)
LEMMA SignTxHashOutcome ==
    ASSUME NEW c, NEW fault, handle_sign_tx_hash(c, fault)
    PROVE  Outcome
<1>1. "sign_tx" \in Review /\ "esdt" \in Review
  BY DEF Review
<1>2. \A ctx : parse_esdt_data(ctx).ret # "none"
  BY DEF parse_esdt_data
<1>3. \A err \in ParseError : err # "none"
  BY DEF ParseError
<1>4. ASSUME NEW hash, NEW state, NEW sw, sw # "none", GiveUp(hash, state, fault, sw)
      PROVE  Outcome
  BY <1>4, ThrowOutcome DEF GiveUp
<1>5. ASSUME NEW ctx, ReviewTx(ctx)
      PROVE  Outcome
  BY <1>1, <1>2, <1>5, ThrowOutcome, ReviewOutcome DEF ReviewTx
<1>6. ASSUME NEW hash, NEW ctx, SignTx(hash, ctx, fault)
      PROVE  Outcome
  BY <1>4, <1>5, <1>6 DEF SignTx
<1>7. ASSUME NEW hash, NEW status, NEW ctx, NEW tokens, AbsorbTx(hash, status, ctx, tokens, fault)
      PROVE  Outcome
  BY <1>3, <1>4, <1>6, <1>7, ThrowOutcome DEF AbsorbTx, KeepTxSession
<1>8. CASE FirstTxChunk(c, fault)
  BY <1>4, <1>7, <1>8 DEF FirstTxChunk
<1>9. CASE NextTxChunk(c, fault)
  BY <1>7, <1>9, ThrowOutcome DEF NextTxChunk, RefusedTx
<1>10. QED
  BY <1>8, <1>9 DEF handle_sign_tx_hash

(* The outcome of every command (handle_apdu).                             *)
LEMMA HandlerOutcome ==
    ASSUME NEW c, NEW fault, handle_apdu(c, fault)
    PROVE  Outcome
<1>1. CASE SignMsgCommand(c, fault)
  BY <1>1, SignMsgOutcome DEF SignMsgCommand
<1>2. CASE AuthTokenCommand(c, fault)
  BY <1>2, AuthTokenOutcome DEF AuthTokenCommand
<1>3. CASE SignTxHashCommand(c, fault)
  BY <1>3, SignTxHashOutcome DEF SignTxHashCommand
<1>4. CASE ProvideEsdtCommand(c, fault)
  BY <1>4, ThrowOutcome DEF ProvideEsdtCommand, handle_provide_ESDT_info
<1>5. CASE AddressCommand(c, fault)
  <2>1. "address" \in Review
    BY DEF Review
  <2>2. CASE handle_set_address(c)
    BY <2>2, ThrowOutcome DEF handle_set_address
  <2>3. CASE handle_get_address(c, fault)
    <3>1. ASSUME NEW a, ReplyWith("MSG_OK", AddressData(a))
          PROVE  Outcome
      BY <3>1 DEF ReplyWith, AddressData, Outcome, LeavesReply, NoReply, HasSignature
    <3>2. QED
      BY <2>1, <2>3, <3>1, ThrowOutcome, ReviewOutcome DEF handle_get_address
  <2>4. QED
    BY <1>5, <2>2, <2>3 DEF AddressCommand
<1>6. CASE handle_other(c)
  <2>1. CASE ReplyWith("MSG_OK", [kind |-> "version"])
    BY <2>1 DEF ReplyWith, Outcome, LeavesReply, NoReply, HasSignature
  <2>2. CASE ReplyWith("MSG_OK", Configuration)
    BY <2>2 DEF ReplyWith, Configuration, Outcome, LeavesReply, NoReply, HasSignature
  <2>3. QED
    BY <1>6, <2>1, <2>2, ThrowOutcome DEF handle_other
<1>7. QED
  BY <1>1, <1>2, <1>3, <1>4, <1>5, <1>6 DEF handle_apdu

(***************************************************************************)
(* The link.  Between two calls of io_exchange the flag, the buffer and    *)
(* the screen agree on who answers; inside, the screen and the link do.    *)
(***************************************************************************)
BeforeExchange ==
    pc = "exchange" =>
        \/ link = "listening" /\ flags = FALSE /\ ux = "menu" /\ tx = NoReply /\ answer = NoReply
        \/ link = "unanswered" /\ flags = FALSE /\ ux = "menu" /\ tx # NoReply
        \/ link = "unanswered" /\ flags = TRUE /\ ux \in Review /\ tx = NoReply
InsideExchange ==
    pc = "waiting" =>
        \/ link = "listening" /\ ux = "menu"
        \/ link = "unanswered" /\ ux \in Review
NotRunning == pc = "exited" => link = "down" /\ ux = "menu" /\ answer = NoReply

LinkInv ==
    /\ pc \in {"exchange", "waiting", "exited"}
    /\ BeforeExchange /\ InsideExchange /\ NotRunning
    /\ ~HasSignature(tx)

(* The menu is no review, and no reply is no signature.                    *)
LEMMA Screens ==
    /\ \A review \in Review : review # "menu"
    /\ ~HasSignature(NoReply)
BY DEF Review, HasSignature, NoReply, NoData

(* Every step keeps the link, the flag, the buffer and the screen in       *)
(* agreement (elrond_main).                                                *)
LEMMA LinkStep ==
    ASSUME LinkInv, [Next]_vars
    PROVE  LinkInv'
<1> USE DEF LinkInv, BeforeExchange, InsideExchange, NotRunning
<1>1. CASE Launch
  BY <1>1, Screens DEF Launch, Initialise, HasSignature
<1>2. CASE Unplug
  BY <1>2, Screens DEF Unplug, Initialise, HasSignature
<1>3. CASE Quit \/ PowerOff
  BY <1>3, Screens DEF Quit, PowerOff, Stop, HasSignature
<1>4. ASSUME NEW c \in Commands, NEW fault \in CxFaults, Receive(c, fault)
      PROVE  LinkInv'
  <2>1. Outcome
    BY <1>4, HandlerOutcome DEF Receive
  <2>2. ux = "menu" /\ pc' = "exchange" /\ link' = "unanswered"
    BY <1>4, Screens DEF Receive
  <2>3. CASE LeavesReply
    BY <2>2, <2>3 DEF LeavesReply, HasSignature
  <2>4. ASSUME NEW review \in Review, LeavesReview(review)
        PROVE  LinkInv'
    BY <2>2, <2>4, Screens DEF LeavesReview, HasSignature
  <2>5. QED
    BY <2>1, <2>3, <2>4 DEF Outcome
<1>5. CASE IoExchange
  BY <1>5, Screens DEF IoExchange, HasSignature
<1>6. CASE Approve \/ Reject
  BY <1>6 DEF Approve, Reject, send_response, HasSignature
<1>7. ASSUME NEW enabled \in BOOLEAN, setting_contract_data_change(enabled)
      PROVE  LinkInv'
  BY <1>7 DEF setting_contract_data_change, output, transport, HasSignature
<1>8. CASE UNCHANGED vars
  BY <1>8 DEF vars, output, transport, HasSignature
<1>9. QED
  BY <1>1, <1>2, <1>3, <1>4, <1>5, <1>6, <1>7, <1>8 DEF Next

(* The link, the flag, the buffer and the screen always agree.             *)
THEOREM LinkInvariant == Spec => []LinkInv
<1>1. Init => LinkInv
  BY Screens DEF Init, LinkInv, BeforeExchange, InsideExchange, NotRunning
<1>2. LinkInv /\ [Next]_vars => LinkInv'
  BY LinkStep
<1>3. QED
  BY <1>1, <1>2, PTL DEF Spec

(* Inside io_exchange a command is unanswered exactly when a review is on  *)
(* the screen (handle_apdu, send_response).                                *)
THEOREM ReviewsHoldTheLink == Spec => []ReviewHoldsTheLink
<1>1. LinkInv => ReviewHoldsTheLink
  BY Screens DEF LinkInv, InsideExchange, ReviewHoldsTheLink
<1>2. QED
  BY <1>1, LinkInvariant, PTL

(* The main loop, the reviews and IO_ASYNCH_REPLY implement the exchange   *)
(* of commands and answers (elrond_main, send_response).                   *)
THEOREM ImplementsExchange == Spec => ExchangeSpec
<1>1. Init => E!Init
  BY DEF Init, E!Init
<1>2. ASSUME LinkInv, [Next]_vars
      PROVE  [E!Next]_<<link, answer>>
  <2> USE DEF LinkInv, BeforeExchange, InsideExchange, NotRunning
  <2>1. CASE Launch
    BY <1>2, <2>1 DEF Launch, Initialise, E!Next, E!Connect
  <2>2. CASE Unplug
    BY <1>2, <2>2 DEF Unplug, Initialise, E!Next, E!Lose
  <2>3. CASE Quit \/ PowerOff
    BY <1>2, <2>3 DEF Quit, PowerOff, Stop, E!Next, E!Lose
  <2>4. ASSUME NEW c \in Commands, NEW fault \in CxFaults, Receive(c, fault)
        PROVE  E!Next
    BY <2>4 DEF Receive, E!Next, E!Command
  <2>5. CASE IoExchange
    BY <1>2, <2>5 DEF IoExchange, E!Next, E!Answer
  <2>6. CASE Approve \/ Reject
    BY <1>2, <2>6, Screens
       DEF Approve, Reject, send_response, NoReply, E!Next, E!Answer
  <2>7. ASSUME NEW enabled \in BOOLEAN, setting_contract_data_change(enabled)
        PROVE  UNCHANGED <<link, answer>>
    BY <2>7 DEF setting_contract_data_change, transport
  <2>8. CASE UNCHANGED vars
    BY <2>8 DEF vars, transport
  <2>9. QED
    BY <1>2, <2>1, <2>2, <2>3, <2>4, <2>5, <2>6, <2>7, <2>8 DEF Next
<1>3. QED
  BY <1>1, <1>2, LinkInvariant, PTL DEF Spec, ExchangeSpec, E!Spec

(* A signature leaves the device only when the user approves the review of *)
(* that signature (set_result_signature, set_result_auth_token).           *)
THEOREM SignaturesAreApproved == Spec => SignatureOnlyByApproval
<1>1. ASSUME LinkInv, [Next]_vars, HasSignature(answer'), answer' # answer
      PROVE  /\ pc = "waiting" /\ ux \in SigningReview /\ answer'.sw = "MSG_OK"
             /\ answer'.data.signature = ReviewedSignature
  <2>1. answer' # NoReply
    BY <1>1, Screens DEF HasSignature
  <2>2. CASE Approve
    <3>1. pc = "waiting" /\ ux \in Review /\ answer' = [sw |-> "MSG_OK", data |-> ReviewResult]
      BY <1>1, <2>2 DEF Approve, send_response, LinkInv, InsideExchange
    <3>2. ReviewResult.kind \in {"signature", "token"}
      BY <1>1, <3>1 DEF HasSignature
    <3>3. ux # "address"
      BY <3>2 DEF ReviewResult, AddressResult, AddressData
    <3>4. ReviewResult.signature = ReviewedSignature
      BY <3>1, <3>3 DEF Review, ReviewResult, ReviewedSignature, MsgResult, AuthTokenResult,
                        TxResult, SignatureData, TokenData
    <3>5. QED
      BY <3>1, <3>3, <3>4 DEF SigningReview
  <2>3. CASE Reject
    BY <1>1, <2>3 DEF Reject, send_response, HasSignature, NoData
  <2>4. CASE IoExchange
    BY <1>1, <2>4 DEF IoExchange, LinkInv, HasSignature
  <2>5. CASE Launch \/ Unplug \/ Quit \/ PowerOff
    BY <2>1, <2>5 DEF Launch, Unplug, Initialise, Quit, PowerOff, Stop
  <2>6. ASSUME NEW c \in Commands, NEW fault \in CxFaults, Receive(c, fault)
        PROVE  FALSE
    BY <2>1, <2>6 DEF Receive
  <2>7. ASSUME NEW enabled \in BOOLEAN, setting_contract_data_change(enabled)
        PROVE  FALSE
    BY <1>1, <2>7 DEF setting_contract_data_change, transport
  <2>8. CASE UNCHANGED vars
    BY <1>1, <2>8 DEF vars, transport
  <2>9. QED
    BY <1>1, <2>2, <2>3, <2>4, <2>5, <2>6, <2>7, <2>8 DEF Next
<1>2. QED
  BY <1>1, LinkInvariant, PTL DEF Spec, SignatureOnlyByApproval
==============================================================================
