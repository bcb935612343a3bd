----------------------------- MODULE SignTxHash ------------------------------
(***************************************************************************)
(* INS_SIGN_TX_HASH (sign_tx_hash.c).  The chunks of a transaction are     *)
(* hashed and parsed as they come; the one that ends the JSON text has the *)
(* hash signed and the fields reviewed, as a token transfer if the data    *)
(* field transfers the token described by esdt_info.                       *)
(***************************************************************************)
EXTENDS ParseTx

VARIABLES
    tx_context,       \* the fields for the review
    tx_hash_context,  \* the parser's status and the digest
    tx_signature      \* tx_context.signature

SignTxHashApdu == [ins : {"SIGN_TX_HASH"}, p1 : P1, tokens : Seq(TxToken)]

ParserStatus == {"JSON_IDLE", "JSON_EXPECTING_FIELD", "JSON_EXPECTING_COMMA"}
ZeroTxHash == [status |-> "JSON_IDLE", hash |-> << >>]

(***************************************************************************)
(* init_tx_context, then the exception that made the handler give up.  If  *)
(* the hash cannot be initialised the exception is that one, the session   *)
(* and the hash staying what they are.                                     *)
(***************************************************************************)
GiveUp(hash, state, fault, sw) ==
    /\ tx_context' = CleanTx(tx_context)
    /\ \/ /\ fault = "keccak_init"
          /\ sha3_context' = hash
          /\ app_state' = state
          /\ Throw("CX_ERROR")
       \/ /\ fault # "keccak_init"
          /\ sha3_context' = << >>
          /\ app_state' = "IDLE"
          /\ Throw(sw)

KeepTxSession(hash, ctx, status, sw) ==
    /\ app_state' = "SIGNING_TX"
    /\ sha3_context' = hash
    /\ tx_context' = ctx
    /\ tx_hash_context' = [tx_hash_context EXCEPT !.status = status]
    /\ UNCHANGED tx_signature
    /\ Throw(sw)

(* The data names the token of esdt_info, and the name ends there.         *)
IsProvided_Prefix(identifier, len) ==
    /\ len \in (1 .. Len(identifier)) \cap (1 .. Len(esdt_info.identifier))
    /\ SubSeq(identifier, 1, len) = SubSeq(esdt_info.identifier, 1, len)
IsProvided(identifier, len) ==
    /\ Len(identifier) = len
    /\ len \in 1 .. Len(esdt_info.identifier)
    /\ identifier = SubSeq(esdt_info.identifier, 1, len)

is_esdt_transfer(ctx) ==
    /\ esdt_info.valid
    /\ ctx.data # NoValue
    /\ IsProvided(EsdtIdentifier[ctx.data], esdt_info.identifier_len)
    /\ ctx.chain_id = esdt_info.chain_id

(* Choose the review, or fail on the token's amount, keeping the session.  *)
ReviewTx(ctx) ==
    LET esdt == parse_esdt_data(ctx)
    IN  \/ /\ is_esdt_transfer(ctx)
           /\ esdt.ret # "MSG_OK"
           /\ tx_context' = esdt.ctx
           /\ app_state' = "SIGNING_TX"
           /\ Throw(esdt.ret)
        \/ /\ is_esdt_transfer(ctx)
           /\ esdt.ret = "MSG_OK"
           /\ tx_context' = esdt.ctx
           /\ app_state' = "IDLE"
           /\ ShowReview("esdt")
        \/ /\ ~is_esdt_transfer(ctx)
           /\ tx_context' = ctx
           /\ app_state' = "IDLE"
           /\ ShowReview("sign_tx")

(* The text is complete: finalise, sign and show it.                       *)
SignTx(hash, ctx, fault) ==
    LET digest == IF fault = "cx_last" THEN tx_hash_context.hash ELSE hash
        final == IF fault = "cx_last" THEN hash ELSE Append(hash, CxLast)
    IN  \/ /\ fault = "derive"
           /\ tx_hash_context' = [tx_hash_context EXCEPT !.status = "JSON_IDLE"]
           /\ UNCHANGED tx_signature
           /\ GiveUp(hash, "SIGNING_TX", fault, "ERR_SIGNATURE_FAILED")
        \/ /\ fault \in {"cx_last", "sign"}
           /\ tx_hash_context' = [status |-> "JSON_IDLE", hash |-> digest]
           /\ tx_signature' = IF fault = "sign" THEN tx_signature ELSE Sign(digest)
           /\ GiveUp(final, "SIGNING_TX", fault, "ERR_SIGNATURE_FAILED")
        \/ /\ fault \notin {"derive", "cx_last", "sign"}
           /\ tx_hash_context' = [status |-> "JSON_IDLE", hash |-> digest]
           /\ tx_signature' = Sign(digest)
           /\ sha3_context' = final
           /\ ReviewTx(ctx)

(* The end of the handler, common to the first and the later chunks.       *)
AbsorbTx(hash, status, ctx, tokens, fault) ==
    LET p == parse_data(status, ctx, N_storage.setting_contract_data, tokens)
        absorbed == hash \o tokens
    IN  \/ /\ fault = "cx_chunk"
           /\ GiveUp(hash, "SIGNING_TX", fault, "CX_ERROR")
           /\ tx_hash_context' = [tx_hash_context EXCEPT !.status = "JSON_IDLE"]
           /\ UNCHANGED tx_signature
        \/ /\ fault # "cx_chunk"
           /\ p.ret \in ParseError
           /\ GiveUp(absorbed, "SIGNING_TX", fault, p.ret)
           /\ tx_hash_context' = [tx_hash_context EXCEPT !.status = "JSON_IDLE"]
           /\ UNCHANGED tx_signature
        \/ /\ fault # "cx_chunk"
           /\ p.ret = "MSG_OK" /\ p.status \in ParserStatus \ {"JSON_IDLE"}
           /\ KeepTxSession(absorbed, p.ctx, p.status, "MSG_OK")
        \/ /\ fault # "cx_chunk"
           /\ p.ret = "MSG_OK" /\ p.status = "JSON_IDLE"
           /\ SignTx(absorbed, p.ctx, fault)

RefusedTx(sw) ==
    /\ Throw(sw)
    /\ UNCHANGED <<app_state, sha3_context, tx_context, tx_hash_context, tx_signature>>

FirstTxChunk(c, fault) ==
    /\ c.p1 = "P1_FIRST"
    /\ \/ /\ fault = "keccak_init"
          /\ GiveUp(sha3_context, app_state, fault, "CX_ERROR")
          /\ tx_hash_context' = [tx_hash_context EXCEPT !.status = "JSON_IDLE"]
          /\ UNCHANGED tx_signature
       \/ /\ fault # "keccak_init"
          /\ AbsorbTx(<< >>, "JSON_IDLE", CleanTx(tx_context), c.tokens, fault)

NextTxChunk(c, fault) ==
    \/ /\ c.p1 = "P1_OTHER"
       /\ RefusedTx("ERR_INVALID_P1")
    \/ /\ c.p1 = "P1_MORE"
       /\ ~Continuing("SIGNING_TX")
       /\ RefusedTx("ERR_INVALID_MESSAGE")
    \/ /\ c.p1 = "P1_MORE"
       /\ Continuing("SIGNING_TX")
       /\ AbsorbTx(sha3_context, tx_hash_context.status, tx_context, c.tokens, fault)

handle_sign_tx_hash(c, fault) ==
    /\ FirstTxChunk(c, fault) \/ NextTxChunk(c, fault)
    /\ UNCHANGED <<bip32, N_storage, esdt_info>>

(* send_response(set_result_signature(), ...)                              *)
TxResult == SignatureData(tx_signature)
==============================================================================
