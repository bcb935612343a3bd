------------------------------- MODULE Screens --------------------------------
(***************************************************************************)
(* What the screens of both kinds of device have in common: the reviews,   *)
(* the fields each must show (the contexts the handlers fill for it), and  *)
(* how the reviews of transactions are put together from those that are    *)
(* there (sign_tx_hash.c).                                                 *)
(***************************************************************************)
EXTENDS Naturals, Sequences, FiniteSets

VARIABLES
    screen,                \* a review, a screen of the menu, or "off"
    present,               \* the optional fields of the transaction under review
    seen,                  \* what the review has had on the screen
    setting_contract_data, \* in non-volatile memory
    decision               \* the answer to the last review, "none" before it

CONTRACT_DATA_DISABLED == 0
CONTRACT_DATA_ENABLED == 1
Setting == {CONTRACT_DATA_DISABLED, CONTRACT_DATA_ENABLED}

Review == {"sign_msg", "auth_token", "sign_tx", "esdt", "address"}
Optional == {"Data", "Guardian", "Relayer"}

(* An ESDT review shows the transfer in place of the data that names it.   *)
Required(review, fields) ==
    CASE review = "sign_msg"   -> {"Hash"}
      [] review = "auth_token" -> {"Address", "Auth Token"}
      [] review = "address"    -> {"Address"}
      [] review = "sign_tx"    -> {"Receiver", "Amount", "Fee", "Network"} \cup fields
      [] review = "esdt"       -> {"Token", "Value", "Receiver", "Fee", "Network"}
                                      \cup (fields \ {"Data"})

(* A field that is listed only if it is not empty.                         *)
If(field) == IF field \in present THEN <<field>> ELSE << >>
TxFields ==
    <<"Receiver", "Amount", "Fee">> \o If("Data") \o If("Guardian") \o If("Relayer")
        \o <<"Network">>
EsdtFields_WithData ==
    <<"Token", "Value", "Receiver", "Fee">> \o If("Data") \o If("Guardian") \o If("Relayer")
        \o <<"Network">>
EsdtFields ==
    <<"Token", "Value", "Receiver", "Fee">> \o If("Guardian") \o If("Relayer") \o <<"Network">>

Fields(review) ==
    CASE review = "sign_msg"   -> <<"Hash">>
      [] review = "auth_token" -> <<"Address", "Auth Token">>
      [] review = "address"    -> <<"Address">>
      [] review = "sign_tx"    -> TxFields
      [] review = "esdt"       -> EsdtFields

(* The fields that come with a request for this review.                    *)
PresentIn(review) == IF review \in {"sign_tx", "esdt"} THEN SUBSET Optional ELSE {{}}

(***************************************************************************)
(* What is required of the screens.                                        *)
(***************************************************************************)
InReview == screen \in Review
Interface == INSTANCE UserInterface WITH
    ux <- IF InReview THEN screen ELSE IF screen = "off" THEN "off" ELSE "menu",
    unread <- IF InReview THEN Required(screen, present) \ seen ELSE {},
    setting <- setting_contract_data

(* However the user moves about, nothing is approved before every field of *)
(* the review has been on the screen, a rejection taken back leaves the    *)
(* review as it was, and neither the setting nor the application's end is  *)
(* in reach of a review (display_tx_sign_flow, display_esdt_flow, the      *)
(* UX_FLOWs, setting_contract_data_selector, start_review,                 *)
(* review_final_callback, settings_controls_callback).                     *)
ScreensImplementInterface == Interface!Spec
==============================================================================
