------------------------------ MODULE AuthToken ------------------------------
(***************************************************************************)
(* INS_GET_ADDR_AUTH_TOKEN (sign_msg_auth_token.c).  The host asks for the *)
(* address of an account together with a signature over a login token      *)
(*      origin.blockhash.ttl.extra                                         *)
(* The struct token_auth_context is split in two variables: auth_context   *)
(* for what the reply is made of, auth_display for what is worked out from *)
(* the text of the token to show it.                                       *)
(***************************************************************************)
EXTENDS Globals, SequencesExt

CONSTANTS
    Dot,            \* the byte that separates the parts of a token
    Nul,            \* the zero byte, which ends a text
    InvalidPrefix,  \* a byte standing for the encoded "multiversx://"
    NotBase64,      \* bytes that base64decode refuses
    AUTH_TOKEN_ENCODED_ORIGIN_MAX_SIZE,
    AUTH_TOKEN_ENCODED_TTL_MAX_SIZE,
    AUTH_TOKEN_DISPLAY_MAX_SIZE,
    BECH32_ADDRESS_LEN

ASSUME AuthTokenAssumption ==
    /\ AUTH_TOKEN_ENCODED_ORIGIN_MAX_SIZE \in Nat \ {0, 1}
    /\ AUTH_TOKEN_ENCODED_TTL_MAX_SIZE \in Nat
    /\ AUTH_TOKEN_DISPLAY_MAX_SIZE \in Nat
    /\ BECH32_ADDRESS_LEN \in Nat

VARIABLES auth_context, auth_display

(* `short' marks an APDU of fewer bytes than the indexes and the length.    *)
AuthTokenApdu ==
    [ins : {"AUTH_TOKEN"}, p1 : P1, short : BOOLEAN, address : Address,
     len : Nat, bytes : Seq(MessageByte)]

Text(bytes) == [kind |-> "text", bytes |-> bytes]
Authorizing(origin, ttl) == [kind |-> "authorizing", origin |-> origin, ttl |-> ttl]

CleanDisplay ==
    [dot_count |-> 0, buffer |-> << >>, origin |-> << >>, ttl |-> << >>,
     stop |-> FALSE, token |-> Text(<< >>)]
CleanContext(context) ==
    [context EXCEPT !.len = 0, !.hash = << >>, !.address = NoAddress]
ZeroAuthContext ==
    [len |-> 0, hash |-> << >>, address |-> NoAddress, signature |-> NoSignature]

(***************************************************************************)
(* handle_auth_token_data, one byte: collect the first part as origin and  *)
(* the third as ttl, giving up on a part that is too long to keep.         *)
(***************************************************************************)
MoveOrigin(d) ==
    IF Len(d.buffer) >= AUTH_TOKEN_ENCODED_ORIGIN_MAX_SIZE
    THEN [d EXCEPT !.stop = TRUE, !.origin = << >>, !.buffer = << >>]
    ELSE [d EXCEPT !.origin = d.buffer, !.buffer = << >>]

MoveTtl(d) ==
    IF Len(d.buffer) >= AUTH_TOKEN_ENCODED_TTL_MAX_SIZE
    THEN [d EXCEPT !.stop = TRUE, !.ttl = << >>, !.buffer = << >>]
    ELSE [d EXCEPT !.ttl = d.buffer, !.buffer = << >>]

TokenDot(d) ==
    CASE d.dot_count = 1 -> MoveOrigin(d)
      [] d.dot_count = 3 -> MoveTtl(d)
      [] OTHER           -> d

(* A byte is put where the text in the buffer ends: a zero byte leaves the *)
(* text as it was, and the next one takes its place.                       *)
strcat(buffer, b) == IF b = Nul THEN buffer ELSE Append(buffer, b)

TokenByte(d, b) ==
    CASE d.stop              -> d
      [] ~d.stop /\ b = Dot  -> TokenDot([d EXCEPT !.dot_count = @ + 1])
      [] ~d.stop /\ b # Dot /\ d.dot_count = 1 -> d
      [] OTHER ->
            IF Len(d.buffer) >= AUTH_TOKEN_ENCODED_ORIGIN_MAX_SIZE - 2
            THEN [d EXCEPT !.stop = TRUE]
            ELSE [d EXCEPT !.buffer = strcat(@, b)]

(* What was read of the token after each number of bytes.                  *)
TokenReadAfter(start, bytes) ==
    LET d[n \in 0 .. Len(bytes)] ==
            IF n = 0 THEN start ELSE TokenByte(d[n - 1], bytes[n].byte)
    IN  d

handle_auth_token_data(start, bytes) == TokenReadAfter(start, bytes)[Len(bytes)]

Ellipsis == [byte |-> "..."]
Cut(bytes) ==
    IF Len(bytes) >= AUTH_TOKEN_DISPLAY_MAX_SIZE
    THEN Append(SubSeq(bytes, 1, AUTH_TOKEN_DISPLAY_MAX_SIZE - 3), Ellipsis)
    ELSE bytes

(* A text on the screen ends before its first zero byte.                   *)
CString(bytes) ==
    [i \in {i \in DOMAIN bytes : \A j \in 1 .. i : bytes[j] # [byte |-> Nul]} |-> bytes[i]]

update_token_display_data_NotCleaned(bytes) ==
    [handle_auth_token_data(auth_display, bytes) EXCEPT !.token = Text(CString(Cut(bytes)))]
update_token_display_data(bytes) ==
    [handle_auth_token_data(CleanDisplay, bytes) EXCEPT !.token = Text(CString(Cut(bytes)))]

(* compute_token_display returns 0, AUTH_TOKEN_INVALID_RET_CODE or         *)
(* AUTH_TOKEN_BAD_REQUEST_RET_CODE.                                        *)
compute_token_display(d) ==
    CASE d.origin = << >> \/ \E i \in DOMAIN d.origin : d.origin[i] \in NotBase64 -> "INVALID"
      [] d.origin # << >> /\ d.origin[1] = InvalidPrefix -> "BAD_REQUEST"
      [] OTHER -> "OK"

(***************************************************************************)
(* The handler.                                                            *)
(***************************************************************************)
AuthStartFaults == {"keccak_init", "cx_prepend", "cx_length", "cx_address"}

AnnouncedLength_TokenOnly(len) == len
AnnouncedLength(len) == len + BECH32_ADDRESS_LEN
StartedAuthHash(len, address, fault) ==
    CASE fault = "keccak_init" -> sha3_context
      [] fault = "cx_prepend"  -> << >>
      [] fault = "cx_length"   -> <<Prepend>>
      [] fault = "cx_address"  -> <<Prepend, Length(AnnouncedLength(len))>>
      [] OTHER -> <<Prepend, Length(AnnouncedLength(len)), Bech32(address)>>

KeepAuthSession(hash, context, display) ==
    /\ app_state' = "SIGNING_MESSAGE"
    /\ sha3_context' = hash
    /\ auth_context' = context
    /\ auth_display' = display
    /\ UNCHANGED bip32

init_auth_token_context(context) ==
    /\ bip32' = ZeroAddress
    /\ auth_context' = CleanContext(context)
    /\ auth_display' = CleanDisplay
    /\ app_state' = "IDLE"

(* The token is complete.  A refused origin leaves the session open.       *)
SignAuthToken(hash, context, display, fault) ==
    LET signed == [context EXCEPT !.len = 0, !.hash = hash, !.signature = Sign(hash)]
        result == compute_token_display(display)
    IN  \/ /\ fault \in {"derive", "sign"}
           /\ sha3_context' = Append(hash, CxLast)
           /\ init_auth_token_context(context)
           /\ Throw("ERR_SIGNATURE_FAILED")
        \/ /\ fault \notin {"derive", "sign"}
           /\ result = "BAD_REQUEST"
           /\ KeepAuthSession(Append(hash, CxLast), signed, display)
           /\ Throw("ERR_INVALID_MESSAGE")
        \/ /\ fault \notin {"derive", "sign"}
           /\ result # "BAD_REQUEST"
           /\ sha3_context' = Append(hash, CxLast)
           /\ auth_context' = signed
           /\ auth_display' = IF result = "OK"
                              THEN [display EXCEPT !.token =
                                       Authorizing(display.origin, display.ttl)]
                              ELSE display
           /\ app_state' = "IDLE"
           /\ ShowReview("auth_token")
           /\ UNCHANGED bip32

AbsorbToken(hash, context, display, bytes, fault) ==
    LET rest == [context EXCEPT !.len = @ - Len(bytes)]
    IN  \/ /\ Len(bytes) > context.len
           /\ KeepAuthSession(hash, context, display)
           /\ Throw("ERR_MESSAGE_TOO_LONG")
        \/ /\ Len(bytes) <= context.len
           /\ fault = "cx_chunk"
           /\ KeepAuthSession(hash, context, display)
           /\ Throw("CX_ERROR")
        \/ /\ Len(bytes) < context.len
           /\ fault # "cx_chunk"
           /\ KeepAuthSession(hash \o bytes, rest, display)
           /\ Throw("MSG_OK")
        \/ /\ Len(bytes) = context.len
           /\ fault = "cx_last"
           /\ KeepAuthSession(hash \o bytes, rest, display)
           /\ Throw("CX_ERROR")
        \/ /\ Len(bytes) = context.len
           /\ fault \notin {"cx_chunk", "cx_last"}
           /\ SignAuthToken(hash \o bytes, rest, display, fault)

(* The fields are cleaned before the APDU is looked at.                    *)
RefusedFirstToken(sw) ==
    /\ auth_context' = CleanContext(auth_context)
    /\ auth_display' = CleanDisplay
    /\ Throw(sw)
    /\ UNCHANGED <<app_state, sha3_context, bip32>>

FirstTokenChunk(c, fault) ==
    LET context == [CleanContext(auth_context) EXCEPT !.len = c.len, !.address = c.address]
        display == update_token_display_data(c.bytes)
        hash == StartedAuthHash(c.len, c.address, fault)
    IN  /\ c.p1 = "P1_FIRST"
        /\ \/ /\ c.short
              /\ RefusedFirstToken("ERR_INVALID_MESSAGE")
           \/ /\ ~c.short
              /\ fault = "public_key"
              /\ RefusedFirstToken("ERR_INVALID_ARGUMENTS")
           \/ /\ ~c.short
              /\ fault \in AuthStartFaults
              /\ KeepAuthSession(hash, context, display)
              /\ Throw("CX_ERROR")
           \/ /\ ~c.short
              /\ fault \notin AuthStartFaults \cup {"public_key"}
              /\ AbsorbToken(hash, context, display, c.bytes, fault)

RefusedToken(sw) ==
    /\ Throw(sw)
    /\ UNCHANGED <<app_state, sha3_context, bip32, auth_context, auth_display>>

NextTokenChunk(c, fault) ==
    \/ /\ c.p1 = "P1_OTHER"
       /\ RefusedToken("ERR_INVALID_P1")
    \/ /\ c.p1 = "P1_MORE"
       /\ ~Continuing("SIGNING_MESSAGE")
       /\ RefusedToken("ERR_INVALID_MESSAGE")
    \/ /\ c.p1 = "P1_MORE"
       /\ Continuing("SIGNING_MESSAGE")
       /\ AbsorbToken(sha3_context, auth_context, auth_display, c.bytes, fault)

handle_auth_token(c, fault) ==
    /\ FirstTokenChunk(c, fault) \/ NextTokenChunk(c, fault)
    /\ UNCHANGED N_storage

(* send_response(set_result_auth_token(), ...)                             *)
AuthTokenResult == TokenData(auth_context.address, auth_context.signature)
==============================================================================
