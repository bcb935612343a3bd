------------------------------- MODULE SignMsg -------------------------------
(***************************************************************************)
(* INS_SIGN_MSG (sign_msg.c).  The message arrives in chunks: the first    *)
(* one announces the length of the whole message, the others continue it.  *)
(* The chunk that completes it is hashed, signed and reviewed.             *)
(***************************************************************************)
EXTENDS Globals

VARIABLE msg_context   \* the static of that name

(* `short' marks an APDU of fewer bytes than the length field takes.        *)
SignMsgApdu ==
    [ins : {"SIGN_MSG"}, p1 : P1, short : BOOLEAN, len : Nat, bytes : Seq(MessageByte)]

ZeroMsgContext ==
    [len |-> 0, hash |-> << >>, strhash |-> << >>, signature |-> NoSignature]

init_msg_context ==
    /\ bip32' = ZeroAddress
    /\ app_state' = "IDLE"

(* The state of the hash when starting it stops at the failing call.       *)
StartedMsgHash(len, fault) ==
    CASE fault = "keccak_init" -> sha3_context
      [] fault = "cx_prepend"  -> << >>
      [] fault = "cx_length"   -> <<Prepend>>
      [] OTHER                 -> <<Prepend, Length(len)>>

StartFaults == {"keccak_init", "cx_prepend", "cx_length"}

KeepMsgSession(hash, len) ==
    /\ app_state' = "SIGNING_MESSAGE"
    /\ sha3_context' = hash
    /\ msg_context' = [msg_context EXCEPT !.len = len]
    /\ UNCHANGED bip32

(* The message is complete: finalise, sign and show it.                    *)
SignMessage(hash, fault) ==
    LET finalised == [msg_context EXCEPT !.len = 0, !.hash = hash, !.strhash = hash]
    IN  /\ sha3_context' = Append(hash, CxLast)
        /\ \/ /\ fault \in {"derive", "sign"}
              /\ msg_context' = finalised
              /\ init_msg_context
              /\ Throw("ERR_SIGNATURE_FAILED")
           \/ /\ fault \notin {"derive", "sign"}
              /\ msg_context' = [finalised EXCEPT !.signature = Sign(hash)]
              /\ app_state' = "IDLE"
              /\ ShowReview("sign_msg")
              /\ UNCHANGED bip32

TooLong_Unchecked(bytes, len) == FALSE
TooLong_ByOne(bytes, len) == Len(bytes) > len + 1
TooLong(bytes, len) == Len(bytes) > len

RefuseLongMessage_Hashed(hash, len, bytes) ==
    KeepMsgSession(hash \o bytes, len) /\ Throw("ERR_MESSAGE_TOO_LONG")
RefuseLongMessage(hash, len, bytes) ==
    KeepMsgSession(hash, len) /\ Throw("ERR_MESSAGE_TOO_LONG")

(* The end of the handler, common to the first and the later chunks.       *)
AbsorbMessage(hash, len, bytes, fault) ==
    \/ /\ TooLong(bytes, len)
       /\ RefuseLongMessage(hash, len, bytes)
    \/ /\ ~TooLong(bytes, len)
       /\ fault = "cx_chunk"
       /\ KeepMsgSession(hash, len)
       /\ Throw("CX_ERROR")
    \/ /\ ~TooLong(bytes, len) /\ Len(bytes) # len
       /\ fault # "cx_chunk"
       /\ KeepMsgSession(hash \o bytes, len - Len(bytes))
       /\ Throw("MSG_OK")
    \/ /\ Len(bytes) = len
       /\ fault = "cx_last"
       /\ KeepMsgSession(hash \o bytes, 0)
       /\ Throw("CX_ERROR")
    \/ /\ Len(bytes) = len
       /\ fault \notin {"cx_chunk", "cx_last"}
       /\ SignMessage(hash \o bytes, fault)

(* The APDU is refused before it changes anything.                         *)
RefusedMsg(sw) ==
    /\ Throw(sw)
    /\ UNCHANGED <<app_state, sha3_context, bip32, msg_context>>

FirstMsgChunk(c, fault) ==
    /\ c.p1 = "P1_FIRST"
    /\ \/ /\ c.short
          /\ RefusedMsg("ERR_INVALID_MESSAGE")
       \/ /\ ~c.short
          /\ fault \in StartFaults
          /\ KeepMsgSession(StartedMsgHash(c.len, fault), c.len)
          /\ Throw("CX_ERROR")
       \/ /\ ~c.short
          /\ fault \notin StartFaults
          /\ AbsorbMessage(StartedMsgHash(c.len, fault), c.len, c.bytes, fault)

NextMsgChunk(c, fault) ==
    \/ /\ c.p1 = "P1_OTHER"
       /\ RefusedMsg("ERR_INVALID_P1")
    \/ /\ c.p1 = "P1_MORE"
       /\ ~Continuing("SIGNING_MESSAGE")
       /\ RefusedMsg("ERR_INVALID_MESSAGE")
    \/ /\ c.p1 = "P1_MORE"
       /\ Continuing("SIGNING_MESSAGE")
       /\ AbsorbMessage(sha3_context, msg_context.len, c.bytes, fault)

handle_sign_msg(c, fault) ==
    /\ FirstMsgChunk(c, fault) \/ NextMsgChunk(c, fault)
    /\ UNCHANGED N_storage

(* send_response(set_result_signature(), ...)                              *)
MsgResult == SignatureData(msg_context.signature)

(* The message under review is complete: its hash starts with the constant *)
(* prefix and the announced length, followed by exactly that many bytes    *)
(* (handle_sign_msg hashes the length before it has seen the message).     *)
MessageHasAnnouncedLength ==
    ux = "sign_msg" =>
        LET hash == msg_context.hash
        IN  /\ Len(hash) >= 2
            /\ hash[1] = Prepend
            /\ hash[2] = Length(Len(hash) - 2)
            /\ \A i \in 3 .. Len(hash) : hash[i] \in MessageByte
==============================================================================
