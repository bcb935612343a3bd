------------------------------ MODULE MCScreens -------------------------------
(***************************************************************************)
(* The screens of either kind of device, chosen when it is built.  Nothing *)
(* is bounded: the arrays have the sizes of the code.                      *)
(***************************************************************************)
EXTENDS Screens

CONSTANTS
    TX_SIGN_FLOW_SIZE, ESDT_TRANSFER_FLOW_SIZE,
    MaxPairs   \* the size of pairs_list for transactions

(* The sizes the arrays are declared with, or more.                        *)
ASSUME ArraySizes ==
    /\ TX_SIGN_FLOW_SIZE \in Nat /\ TX_SIGN_FLOW_SIZE >= 10
    /\ ESDT_TRANSFER_FLOW_SIZE \in Nat /\ ESDT_TRANSFER_FLOW_SIZE >= 10
    /\ MaxPairs \in Nat /\ MaxPairs >= 7

VARIABLES device, step, page, pairs, initState

Nano == INSTANCE NanoScreens
Stax == INSTANCE StaxScreens

Init == device \in {"nano", "stax"} /\ Nano!Init /\ Stax!Init
Next ==
    \/ device = "nano" /\ Nano!Next /\ UNCHANGED <<device, page, pairs, initState>>
    \/ device = "stax" /\ Stax!Next /\ UNCHANGED <<device, step>>

vars == <<device, screen, step, page, pairs, initState, seen, present, setting_contract_data, decision>>
ScreensSpec == Init /\ [][Next]_vars

(***************************************************************************)
(* What is required of one kind of device, beside the interface of both.   *)
(***************************************************************************)
(* The builders write no step behind the end of tx_flow and esdt_flow,     *)
(* whose ten places a transaction with all optional fields fills.          *)
FlowsFit ==
    /\ screen = "sign_tx" => Len(Nano!Flow) <= TX_SIGN_FLOW_SIZE
    /\ screen = "esdt" => Len(Nano!Flow) <= ESDT_TRANSFER_FLOW_SIZE

(* start_review writes no pair behind the end of pairs_list, whose seven   *)
(* places a transaction with all optional fields fills.                    *)
PairsFit == screen \in {"sign_tx", "esdt"} => Len(Fields(screen)) <= MaxPairs

(* The switch on the screen is the setting in memory, although it is a     *)
(* copy that each touch inverts and only ui_menu_main reads again.         *)
SwitchShowsSetting ==
    device = "stax" /\ screen # "off" =>
        ((initState = Stax!ON_STATE) <=> (setting_contract_data = CONTRACT_DATA_ENABLED))
==============================================================================
