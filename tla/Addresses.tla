------------------------------ MODULE Addresses ------------------------------
(***************************************************************************)
(* INS_SET_ADDR (set_address.c) selects the account that signs;            *)
(* INS_GET_ADDR (get_address.c) returns the address of any account, after  *)
(* the user has compared it with the one on the screen if the host asks so.*)
(***************************************************************************)
EXTENDS Globals

VARIABLE address   \* the static buffer the review shows and the reply is made of

(* `sized' tells whether the APDU holds exactly the two indexes.           *)
SetAddrApdu == [ins : {"SET_ADDR"}, address : Address, sized : BOOLEAN]
GetAddrApdu ==
    [ins : {"GET_ADDR"}, address : Address, sized : BOOLEAN,
     p1 : {"P1_CONFIRM", "P1_NON_CONFIRM"}, p2 : {"BECH32", "HEX", "P2_OTHER"}]

Shown(a, format) == [of |-> a, format |-> format]
ZeroAddressBuffer == Shown(NoAddress, "BECH32")

handle_set_address(c) ==
    /\ \/ /\ ~c.sized
          /\ UNCHANGED bip32
          /\ Throw("ERR_INVALID_ARGUMENTS")
       \/ /\ c.sized
          /\ bip32' = c.address
          /\ Throw("MSG_OK")
    /\ UNCHANGED <<app_state, sha3_context, N_storage, address>>

handle_get_address(c, fault) ==
    LET refused == ~c.sized \/ fault = "public_key" \/ c.p2 = "P2_OTHER"
        shown == Shown(c.address, c.p2)
    IN  /\ \/ /\ refused
              /\ UNCHANGED address
              /\ Throw("ERR_INVALID_ARGUMENTS")
           \/ /\ ~refused
              /\ address' = shown
              /\ c.p1 = "P1_NON_CONFIRM"
              /\ ReplyWith("MSG_OK", AddressData(shown))
           \/ /\ ~refused
              /\ address' = shown
              /\ c.p1 = "P1_CONFIRM"
              /\ ShowReview("address")
        /\ UNCHANGED <<app_state, sha3_context, bip32, N_storage>>

(* send_response(set_result_get_address(), ...)                            *)
AddressResult == AddressData(address)

AddressTypeOK ==
    address \in [of : Address \cup {NoAddress}, format : {"BECH32", "HEX"}]
==============================================================================
