------------------------------ MODULE EsdtInfo -------------------------------
(***************************************************************************)
(* INS_PROVIDE_ESDT_INFO (provide_ESDT_info.c).  The host describes the    *)
(* token of the ESDT transfer it is about to have signed; the description  *)
(* carries a signature.  An identifier is a sequence of characters.        *)
(***************************************************************************)
EXTENDS Globals

CONSTANTS
    Ticker, IdentifierChar, ChainId,
    SignedToken      \* the descriptions for which a signature was ever issued

VARIABLE esdt_info

EsdtToken ==
    [ticker : Ticker, identifier : Seq(IdentifierChar), decimals : Nat, chain_id : ChainId]

ASSUME EsdtInfoAssumption == SignedToken \subseteq EsdtToken

(* `complete' counts the fields the APDU holds in full before it ends.     *)
EsdtFieldCount == 5
ProvideEsdtApdu ==
    {c \in [ins : {"PROVIDE_ESDT_INFO"}, token : EsdtToken,
            complete : 0 .. EsdtFieldCount, signed : BOOLEAN] :
        c.signed => c.token \in SignedToken}

ZeroEsdtInfo ==
    [valid |-> FALSE, ticker |-> "", identifier_len |-> 0, identifier |-> << >>,
     decimals |-> 0, chain_id |-> ""]

(***************************************************************************)
(* Each field is stored as soon as it is read, so a description that turns *)
(* out to be incomplete or badly signed has already replaced some of the   *)
(* fields of the one before.  The length of the identifier may then        *)
(* disagree with the identifier, which ends with a zero byte.              *)
(***************************************************************************)
StoredEsdtInfo(info, token, complete) ==
    [info EXCEPT
        !.ticker         = IF complete >= 1 THEN token.ticker ELSE @,
        !.identifier_len = IF complete >= 2 THEN Len(token.identifier) ELSE @,
        !.identifier     = IF complete >= 3 THEN token.identifier ELSE @,
        !.decimals       = IF complete >= 4 THEN token.decimals ELSE @,
        !.chain_id       = IF complete >= 5 THEN token.chain_id ELSE @]

handle_provide_ESDT_info(c, fault) ==
    LET stored == StoredEsdtInfo(esdt_info, c.token, c.complete)
    IN  /\ \/ /\ c.complete < EsdtFieldCount
              /\ esdt_info' = stored
              /\ Throw("ERR_MESSAGE_INCOMPLETE")
           \/ /\ c.complete = EsdtFieldCount
              /\ ~c.signed \/ fault = "verify"
              /\ esdt_info' = stored
              /\ Throw("ERR_INVALID_ESDT_SIGNATURE")
           \/ /\ c.complete = EsdtFieldCount
              /\ c.signed /\ fault # "verify"
              /\ esdt_info' = [stored EXCEPT !.valid = TRUE]
              /\ Throw("MSG_OK")
        /\ UNCHANGED <<app_state, sha3_context, bip32, N_storage>>

EsdtTypeOK ==
    esdt_info \in [valid : BOOLEAN, ticker : Ticker \cup {""}, identifier_len : Nat,
                   identifier : Seq(IdentifierChar), decimals : Nat,
                   chain_id : ChainId \cup {""}]

(* Valid token data is data the signature check accepted: README.md asks   *)
(* for a signature over exactly these fields (handle_provide_ESDT_info).   *)
ValidEsdtInfoIsSigned ==
    esdt_info.valid =>
        /\ esdt_info.identifier_len <= Len(esdt_info.identifier)
        /\ [ticker |-> esdt_info.ticker, decimals |-> esdt_info.decimals,
            identifier |-> SubSeq(esdt_info.identifier, 1, esdt_info.identifier_len),
            chain_id |-> esdt_info.chain_id] \in SignedToken
==============================================================================
