----------------------------- MODULE NanoScreens ------------------------------
(***************************************************************************)
(* The screens of devices with two buttons: the menu (menu.c), the version *)
(* screen (view_app_version.c) and the review flows of the handlers.  A    *)
(* flow is a sequence of steps, a button moving to the next one or the     *)
(* previous one and both buttons running the step's callback; a list shows *)
(* the entries its getter has a text for.  Flows and lists are drawn by    *)
(* the SDK, modelled from how the application uses it.                     *)
(***************************************************************************)
EXTENDS Screens

VARIABLES
    step   \* the step of the flow; screen is a review, "idle", a list, "version" or "off"

vars == <<screen, step, seen, present, setting_contract_data, decision>>

ux_idle_flow == <<"Logo", "Settings", "Info", "Quit">>
ListSize == [settings |-> 2, contract_data |-> 3, info |-> 2]

(* The arrays the builders write, FLOW_END_STEP included.                  *)
Decisions == <<"Confirm", "Reject", "FLOW_END_STEP">>
tx_flow == TxFields \o Decisions
esdt_flow == EsdtFields \o Decisions
Flow ==
    CASE screen = "idle"    -> ux_idle_flow
      [] screen = "sign_tx" -> tx_flow
      [] screen = "esdt"    -> esdt_flow
      [] OTHER              -> Fields(screen) \o Decisions

InFlow == screen = "idle" \/ screen \in Review
LastStep == IF screen = "idle" THEN Len(ux_idle_flow) ELSE Len(Flow) - 1

Display(name) == screen' = name /\ step' = 1 /\ seen' = {} /\ present' = {}
ui_idle == Display("idle")

Init ==
    /\ screen = "off" /\ step = 1 /\ seen = {} /\ present = {}
    /\ setting_contract_data \in Setting /\ decision = "none"

(* What was on the screen has been seen when it is left.                   *)
MoveTo(n) ==
    /\ step' = n
    /\ seen' = IF screen \in Review THEN seen \cup {Flow[step]} ELSE seen
    /\ UNCHANGED <<screen, present, setting_contract_data, decision>>

(* The menu's flow is a FLOW_LOOP; those of the reviews end.               *)
MayLoop_Always == TRUE
MayLoop == screen = "idle"
Right ==
    /\ InFlow
    /\ \/ step < LastStep /\ MoveTo(step + 1)
       \/ step = LastStep /\ MayLoop /\ MoveTo(1)
Left ==
    /\ InFlow
    /\ \/ step > 1 /\ MoveTo(step - 1)
       \/ step = 1 /\ MayLoop /\ MoveTo(LastStep)

(* Both buttons in the menu.                                               *)
Enter ==
    /\ screen = "idle"
    /\ \/ Flow[step] = "Settings" /\ Display("settings")
       \/ Flow[step] = "Info" /\ Display("info")
       \/ Flow[step] = "Quit" /\ Display("off")
    /\ UNCHANGED <<setting_contract_data, decision>>

settings_submenu_selector(idx) ==
    /\ screen = "settings"
    /\ \/ idx = 0 /\ Display("contract_data")
       \/ idx # 0 /\ ui_idle
    /\ UNCHANGED setting_contract_data

setting_contract_data_change(contract_data) ==
    /\ setting_contract_data' = contract_data
    /\ ui_idle

setting_contract_data_selector(idx) ==
    /\ screen = "contract_data"
    /\ \/ idx \in Setting /\ setting_contract_data_change(idx)
       \/ idx \notin Setting /\ Display("settings") /\ UNCHANGED setting_contract_data

info_submenu_selector(idx) ==
    /\ screen = "info"
    /\ \/ idx = 0 /\ Display("version")
       \/ idx # 0 /\ ui_idle
    /\ UNCHANGED setting_contract_data

Select ==
    /\ screen \in DOMAIN ListSize
    /\ \E idx \in 0 .. ListSize[screen] - 1 :
          \/ settings_submenu_selector(idx)
          \/ setting_contract_data_selector(idx)
          \/ info_submenu_selector(idx)
    /\ UNCHANGED decision

app_version_ui_button ==
    screen = "version" /\ ui_idle /\ UNCHANGED <<setting_contract_data, decision>>

(* A handler puts its review on whatever screen of the menu there is.      *)
ShowReview(review) ==
    /\ screen \notin Review \cup {"off"}
    /\ \E fields \in PresentIn(review) : present' = fields
    /\ screen' = review /\ step' = 1 /\ seen' = {}
    /\ decision' = "none"
    /\ UNCHANGED setting_contract_data

(* Both buttons on the last steps of a review: send_response.              *)
Confirm == screen \in Review /\ Flow[step] = "Confirm" /\ decision' = "approved"
Reject == screen \in Review /\ Flow[step] = "Reject" /\ decision' = "rejected"
Decide == (Confirm \/ Reject) /\ ui_idle /\ UNCHANGED setting_contract_data

(* The application starts, or starts over when the link is reset.          *)
Restart == ui_idle /\ decision' = "none" /\ UNCHANGED setting_contract_data

Next ==
    \/ Right \/ Left \/ Enter \/ Select \/ app_version_ui_button
    \/ \E review \in Review : ShowReview(review)
    \/ Decide \/ Restart

NanoSpec == Init /\ [][Next]_vars
==============================================================================
