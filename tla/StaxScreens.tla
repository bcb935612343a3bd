----------------------------- MODULE StaxScreens ------------------------------
(***************************************************************************)
(* The screens of devices with a touch screen: home and settings (menu.c), *)
(* and the reviews of the handlers, which begin with a page of their own,  *)
(* list pairs of item and value over as many pages as they take, and end   *)
(* with a long press.  A rejection of what was to be signed is asked for   *)
(* again; a decision is followed by a status, and that by the menu.  The   *)
(* pages are those of the NBGL library, modelled from how it is used.      *)
(***************************************************************************)
EXTENDS Screens

VARIABLES
    page,      \* of the review: "start", "pairs", "reject?"
    pairs,     \* how many pairs have been on the screen; which of them are on
               \* it now makes no difference
    initState  \* of the switch in G_switches
               \* (screen is a review, "home", "status" or "off")

vars == <<screen, page, pairs, initState, seen, present, setting_contract_data, decision>>

OFF_STATE == 0
ON_STATE == 1

(* ui_menu_main reads the setting; the switch is shown with it.            *)
ui_idle_Unread == screen' = "home" /\ UNCHANGED initState
ui_idle ==
    /\ screen' = "home"
    /\ initState' = IF setting_contract_data = CONTRACT_DATA_DISABLED THEN OFF_STATE
                    ELSE ON_STATE
NoReview == page' = "start" /\ pairs' = 0 /\ seen' = {} /\ present' = {}

(* The memory is zero before ui_idle is called.                            *)
Init ==
    /\ screen = "off" /\ initState = OFF_STATE
    /\ page = "start" /\ pairs = 0 /\ seen = {} /\ present = {}
    /\ setting_contract_data \in Setting /\ decision = "none"

Restart == ui_idle /\ NoReview /\ decision' = "none" /\ UNCHANGED setting_contract_data

settings_controls_callback ==
    /\ screen = "home"
    /\ initState' = IF initState = OFF_STATE THEN ON_STATE ELSE OFF_STATE
    /\ setting_contract_data' =
          IF initState' = OFF_STATE THEN CONTRACT_DATA_DISABLED ELSE CONTRACT_DATA_ENABLED
    /\ UNCHANGED <<screen, page, pairs, seen, present, decision>>

quit_app_callback ==
    /\ screen = "home" /\ screen' = "off"
    /\ UNCHANGED <<page, pairs, initState, seen, present, setting_contract_data, decision>>

(* nbgl_useCaseReviewStart, nbgl_useCaseAddressReview                      *)
ShowReview(review) ==
    /\ screen \in {"home", "status"}
    /\ screen' = review /\ page' = "start" /\ pairs' = 0 /\ seen' = {}
    /\ \E fields \in PresentIn(review) : present' = fields
    /\ decision' = "none"
    /\ UNCHANGED <<initState, setting_contract_data>>

(* start_review fills pairs_list; every further page shows some of it.     *)
NextPage ==
    /\ screen \in Review /\ page \in {"start", "pairs"}
    /\ pairs < Len(Fields(screen))
    /\ page' = "pairs"
    /\ \E n \in pairs + 1 .. Len(Fields(screen)) :
          /\ pairs' = n
          /\ seen' = seen \cup {Fields(screen)[i] : i \in pairs + 1 .. n}
    /\ UNCHANGED <<screen, initState, present, setting_contract_data, decision>>

(* nbgl_reject_message_choice, nbgl_reject_transaction_choice: "Go back"   *)
(* returns to the page.                                                    *)
AskReject ==
    /\ screen \in Review \ {"address"} /\ page # "reject?"
    /\ page' = "reject?"
    /\ UNCHANGED <<screen, pairs, initState, seen, present, setting_contract_data, decision>>
GoBack ==
    /\ page = "reject?"
    /\ page' = IF pairs = 0 THEN "start" ELSE "pairs"
    /\ UNCHANGED <<screen, pairs, initState, seen, present, setting_contract_data, decision>>

Answer(how) ==
    /\ decision' = how
    /\ screen' = "status" /\ NoReview
    /\ UNCHANGED <<initState, setting_contract_data>>

(* The long press comes after the last pair.                               *)
review_final_callback ==
    /\ screen \in Review /\ page = "pairs" /\ pairs = Len(Fields(screen))
    /\ Answer("approved")

(* message_rejection, transaction_rejection                                *)
Rejection == page = "reject?" /\ Answer("rejected")
address_verification_cancelled == screen = "address" /\ Answer("rejected")

(* The status goes by itself, or by a touch.                               *)
StatusEnds == screen = "status" /\ ui_idle
              /\ UNCHANGED <<page, pairs, seen, present, setting_contract_data, decision>>

Next ==
    \/ Restart \/ settings_controls_callback \/ quit_app_callback
    \/ \E review \in Review : ShowReview(review)
    \/ NextPage \/ AskReject \/ GoBack
    \/ review_final_callback \/ Rejection \/ address_verification_cancelled \/ StatusEnds

StaxSpec == Init /\ [][Next]_vars
==============================================================================
