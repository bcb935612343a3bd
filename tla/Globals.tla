------------------------------- MODULE Globals -------------------------------
(***************************************************************************)
(* The state every APDU handler of the application shares (globals.c), the *)
(* output of a handler towards the main loop, and the vocabulary in which  *)
(* hashes, signatures and replies are written down.                        *)
(*                                                                         *)
(* A hash is modelled by the sequence of items it has absorbed; a digest   *)
(* by the sequence absorbed when it was finalised.  A signature is the     *)
(* pair of the address whose key made it and the digest it is over.        *)
(***************************************************************************)
EXTENDS Naturals, Sequences

CONSTANTS
    Address,      \* the (account index, address index) pairs a host may name
    ZeroAddress,  \* the pair 0/0
    Byte,         \* the bytes of messages and tokens
    CxFaults      \* calls of the crypto library that may fail; "none" is no failure

ASSUME AddressAssumption == ZeroAddress \in Address

VARIABLES
    app_state,     \* the session in progress, one of AppState
    sha3_context,  \* the items absorbed since the last cx_keccak_init
    bip32,         \* bip32_account and bip32_address_index
    N_storage,     \* non-volatile memory
    flags,         \* whether IO_ASYNCH_REPLY is set
    tx,            \* the reply waiting in G_io_apdu_buffer, NoReply when tx = 0
    ux             \* what the screen shows

AppState == {"IDLE", "SIGNING_MESSAGE", "SIGNING_TX"}
Review == {"sign_msg", "auth_token", "sign_tx", "esdt", "address"}
P1 == {"P1_FIRST", "P1_MORE", "P1_OTHER"}

(* What a hash absorbs, apart from the pieces of a transaction.            *)
Prepend == [mark |-> "PREPEND"]
CxLast == [mark |-> "CX_LAST"]
Length(n) == [length |-> n]
Bech32(a) == [address |-> a]
MessageByte == [byte : Byte]

(* The hash of a signed message starts with a constant no transaction      *)
(* starts with.                                                            *)
IsMessageHash(hash) == Len(hash) >= 1 /\ hash[1] = Prepend

NoSignature == [key |-> ZeroAddress, hash |-> << >>]
Sign(hash) == [key |-> bip32, hash |-> hash]

NoData == [kind |-> "none"]
NoReply == [sw |-> "none", data |-> NoData]
SignatureData(s) == [kind |-> "signature", signature |-> s]
TokenData(a, s) == [kind |-> "token", address |-> a, signature |-> s]
AddressData(a) == [kind |-> "address", shown |-> a]

(* An address buffer that was cleaned.                                     *)
NoAddress == ""

(***************************************************************************)
(* The ways a handler ends.  THROW leaves its status word, and what  *)
(* the handler put in the buffer before it, for the main loop to send; a   *)
(* review leaves nothing to send, and the reply to the user's decision.    *)
(***************************************************************************)
ReplyWith(sw, data) ==
    /\ tx' = [sw |-> sw, data |-> data]
    /\ flags' = FALSE
    /\ UNCHANGED ux

Throw(sw) == ReplyWith(sw, NoData)

ShowReview_Silent(review) ==
    /\ flags' = TRUE
    /\ tx' = NoReply
    /\ UNCHANGED ux
ShowReview_NoAsynchReply(review) ==
    /\ ux' = review
    /\ flags' = FALSE
    /\ tx' = NoReply
ShowReview(review) ==
    /\ ux' = review
    /\ flags' = TRUE
    /\ tx' = NoReply

(* A chunk with P1_MORE goes on with the session of its own kind.          *)
Continuing_Started(session) == app_state # "IDLE"
Continuing_Any(session) == TRUE
Continuing(session) == app_state = session

GlobalsTypeOK ==
    /\ app_state \in AppState
    /\ bip32 \in Address
    /\ N_storage \in [initialized : BOOLEAN, setting_contract_data : BOOLEAN]
    /\ flags \in BOOLEAN
    /\ ux \in Review \cup {"menu"}
==============================================================================
