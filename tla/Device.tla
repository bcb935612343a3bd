------------------------------- MODULE Device --------------------------------
(***************************************************************************)
(* The whole application: the main loop that receives a command, runs its  *)
(* handler to the end and sends what it left (main.c), the reviews that    *)
(* answer later, the menu, and what can happen to the device meanwhile.    *)
(*                                                                         *)
(* The program has one thread.  It is either about to call io_exchange or  *)
(* inside it; only inside it do commands, the user's buttons and the loss  *)
(* of the link reach it.                                                   *)
(***************************************************************************)
EXTENDS SignMsg, AuthToken, SignTxHash, Addresses

CONSTANT Commands   \* the APDUs a host may send

VARIABLES
    pc,      \* "exchange", "waiting" inside io_exchange, or "exited"
    link,    \* the transport: "down", "listening", or a command is "unanswered"
    answer   \* the answer sent to the last command

globals == <<app_state, sha3_context, bip32, N_storage>>
output == <<flags, tx, ux>>
contexts == <<msg_context, auth_context, auth_display, esdt_info,
              tx_context, tx_hash_context, tx_signature, address>>
transport == <<pc, link, answer>>
vars == <<globals, output, contexts, transport>>

OtherApdu ==
    [ins : {"GET_APP_VERSION", "GET_APP_CONFIGURATION", "SIGN_TX", "UNKNOWN",
            "WRONG_CLA", "EMPTY"}]
Apdu == SignMsgApdu \cup AuthTokenApdu \cup SignTxHashApdu \cup ProvideEsdtApdu
            \cup SetAddrApdu \cup GetAddrApdu \cup OtherApdu

ASSUME DeviceAssumption == Commands \subseteq Apdu

(***************************************************************************)
(* Starting and stopping.                                                  *)
(***************************************************************************)
(* The memory of an application that is not running is zero.               *)
Init ==
    /\ app_state = "IDLE" /\ sha3_context = << >> /\ bip32 = ZeroAddress
    /\ flags = FALSE /\ tx = NoReply /\ ux = "menu"
    /\ msg_context = ZeroMsgContext
    /\ auth_context = ZeroAuthContext /\ auth_display = CleanDisplay
    /\ esdt_info = ZeroEsdtInfo
    /\ tx_context = NoTx /\ tx_hash_context = ZeroTxHash /\ tx_signature = NoSignature
    /\ address = ZeroAddressBuffer
    /\ N_storage = [initialized |-> FALSE, setting_contract_data |-> FALSE]
    /\ pc = "exited" /\ link = "down" /\ answer = NoReply

nv_app_state_init_Always ==
    N_storage' = [initialized |-> TRUE, setting_contract_data |-> TRUE]
nv_app_state_init ==
    N_storage' = IF N_storage.initialized THEN N_storage
                 ELSE [initialized |-> TRUE, setting_contract_data |-> TRUE]

(* The head of elrond_main, up to the loop.                                *)
Initialise ==
    /\ init_msg_context
    /\ tx_context' = CleanTx(tx_context)
    /\ tx_hash_context' = [tx_hash_context EXCEPT !.status = "JSON_IDLE"]
    /\ sha3_context' = << >>
    /\ esdt_info' = [esdt_info EXCEPT !.valid = FALSE]
    /\ flags' = FALSE /\ tx' = NoReply /\ ux' = "menu"
    /\ nv_app_state_init
    /\ pc' = "exchange" /\ link' = "listening" /\ answer' = NoReply
    /\ UNCHANGED <<msg_context, auth_context, auth_display, tx_signature, address>>

Launch == pc = "exited" /\ Initialise

(* EXCEPTION_IO_RESET unwinds to main, which starts over.                  *)
Unplug == pc = "waiting" /\ Initialise

Stop ==
    /\ app_state' = "IDLE" /\ sha3_context' = << >> /\ bip32' = ZeroAddress
    /\ flags' = FALSE /\ tx' = NoReply /\ ux' = "menu"
    /\ msg_context' = ZeroMsgContext
    /\ auth_context' = ZeroAuthContext /\ auth_display' = CleanDisplay
    /\ esdt_info' = ZeroEsdtInfo
    /\ tx_context' = NoTx /\ tx_hash_context' = ZeroTxHash /\ tx_signature' = NoSignature
    /\ address' = ZeroAddressBuffer
    /\ pc' = "exited" /\ link' = "down" /\ answer' = NoReply

Quit == pc = "waiting" /\ ux = "menu" /\ Stop /\ UNCHANGED N_storage
PowerOff == pc # "exited" /\ Stop /\ UNCHANGED N_storage

(***************************************************************************)
(* The main loop.                                                          *)
(***************************************************************************)
Configuration ==
    [kind |-> "configuration", setting |-> N_storage.setting_contract_data, account |-> bip32]

handle_other(c) ==
    /\ \/ c.ins = "GET_APP_VERSION" /\ ReplyWith("MSG_OK", [kind |-> "version"])
       \/ c.ins = "GET_APP_CONFIGURATION" /\ ReplyWith("MSG_OK", Configuration)
       \/ c.ins = "SIGN_TX" /\ Throw("ERR_SIGN_TX_DEPRECATED")
       \/ c.ins = "UNKNOWN" /\ Throw("ERR_UNKNOWN_INSTRUCTION")
       \/ c.ins = "WRONG_CLA" /\ Throw("ERR_WRONG_CLA")
       \/ c.ins = "EMPTY" /\ Throw("0x6982")
    /\ UNCHANGED <<globals, contexts>>

SignMsgCommand(c, fault) ==
    /\ c.ins = "SIGN_MSG"
    /\ handle_sign_msg(c, fault)
    /\ UNCHANGED <<auth_context, auth_display, esdt_info, tx_context, tx_hash_context,
                   tx_signature, address>>

AuthTokenCommand(c, fault) ==
    /\ c.ins = "AUTH_TOKEN"
    /\ handle_auth_token(c, fault)
    /\ UNCHANGED <<msg_context, esdt_info, tx_context, tx_hash_context, tx_signature, address>>

SignTxHashCommand(c, fault) ==
    /\ c.ins = "SIGN_TX_HASH"
    /\ handle_sign_tx_hash(c, fault)
    /\ UNCHANGED <<msg_context, auth_context, auth_display, address>>

ProvideEsdtCommand(c, fault) ==
    /\ c.ins = "PROVIDE_ESDT_INFO"
    /\ handle_provide_ESDT_info(c, fault)
    /\ UNCHANGED <<msg_context, auth_context, auth_display, tx_context, tx_hash_context,
                   tx_signature, address>>

AddressCommand(c, fault) ==
    /\ \/ c.ins = "SET_ADDR" /\ handle_set_address(c)
       \/ c.ins = "GET_ADDR" /\ handle_get_address(c, fault)
    /\ UNCHANGED <<msg_context, auth_context, auth_display, esdt_info, tx_context,
                   tx_hash_context, tx_signature>>

handle_apdu(c, fault) ==
    \/ SignMsgCommand(c, fault)
    \/ AuthTokenCommand(c, fault)
    \/ SignTxHashCommand(c, fault)
    \/ ProvideEsdtCommand(c, fault)
    \/ AddressCommand(c, fault)
    \/ handle_other(c)

(* io_exchange returns with a command, which it does not while one is      *)
(* unanswered; flags is cleared and the handler runs to its end.           *)
Receive_Unanswered(c, fault) ==
    /\ pc = "waiting"
    /\ handle_apdu(c, fault)
    /\ pc' = "exchange" /\ link' = "unanswered" /\ answer' = NoReply
Receive(c, fault) ==
    /\ pc = "waiting" /\ link = "listening"
    /\ handle_apdu(c, fault)
    /\ pc' = "exchange" /\ link' = "unanswered" /\ answer' = NoReply

(* io_exchange is called: it sends what the handler left, unless flags     *)
(* says that the answer comes later, and waits.                            *)
IoExchange_Always ==
    /\ pc = "exchange"
    /\ pc' = "waiting"
    /\ link' = "listening"
    /\ answer' = tx
    /\ tx' = NoReply
    /\ UNCHANGED <<globals, flags, ux, contexts>>
IoExchange ==
    /\ pc = "exchange"
    /\ pc' = "waiting"
    /\ tx' = NoReply
    /\ IF flags THEN UNCHANGED <<link, answer>>
       ELSE /\ link' = "listening"
            /\ answer' = tx
    /\ UNCHANGED <<globals, flags, ux, contexts>>

(***************************************************************************)
(* The user.                                                               *)
(***************************************************************************)
ReviewResult ==
    CASE ux = "sign_msg"              -> MsgResult
      [] ux = "auth_token"            -> AuthTokenResult
      [] ux \in {"sign_tx", "esdt"}   -> TxResult
      [] OTHER                        -> AddressResult

send_response(sw, data) ==
    /\ pc = "waiting" /\ ux # "menu"
    /\ link' = "listening"
    /\ answer' = [sw |-> sw, data |-> data]
    /\ ux' = "menu"
    /\ UNCHANGED <<globals, flags, tx, contexts, pc>>

Approve == send_response("MSG_OK", ReviewResult)
Reject_Signs == send_response("ERR_USER_DENIED", ReviewResult)
Reject == send_response("ERR_USER_DENIED", NoData)

setting_contract_data_change(enabled) ==
    /\ pc = "waiting" /\ ux = "menu"
    /\ N_storage' = [N_storage EXCEPT !.setting_contract_data = enabled]
    /\ UNCHANGED <<app_state, sha3_context, bip32, output, contexts, transport>>

Next ==
    \/ Launch \/ Unplug \/ Quit \/ PowerOff
    \/ \E c \in Commands, fault \in CxFaults : Receive(c, fault)
    \/ IoExchange
    \/ Approve \/ Reject
    \/ \E enabled \in BOOLEAN : setting_contract_data_change(enabled)

Spec == Init /\ [][Next]_vars

(* The loop keeps running, and the user eventually decides.                *)
FairSpec == Spec /\ WF_vars(IoExchange) /\ WF_vars(Approve \/ Reject)
==============================================================================
