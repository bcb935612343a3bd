---------------------------- MODULE UserInterface -----------------------------
(***************************************************************************)
(* What the screens promise, on either kind of device: a review stays      *)
(* until the user decides or the link is lost, it can be approved only     *)
(* when everything that belongs to it has been on the screen, and outside  *)
(* reviews alone does the setting change and does the application end.     *)
(***************************************************************************)
CONSTANTS
    Review,           \* the kinds of review
    Optional,         \* the fields a transaction may lack
    Required(_, _),   \* the fields a review of that kind must show, given the
                      \* optional ones that are present
    Setting           \* the values of the contract-data setting

VARIABLES
    ux,        \* "menu", a review, or "off"
    unread,    \* what the review has not shown yet
    setting,   \* N_storage.setting_contract_data
    decision   \* the decision on the last review, "none" before it

Init == ux = "off" /\ unread = {} /\ setting \in Setting /\ decision = "none"

Show ==
    /\ ux = "menu" /\ decision' = "none" /\ UNCHANGED setting
    /\ \E review \in Review, present \in SUBSET Optional :
          ux' = review /\ unread' = Required(review, present)
Read == ux \in Review /\ unread' \subseteq unread /\ UNCHANGED <<ux, setting, decision>>

Approve == unread = {} /\ decision' = "approved"
Reject == decision' = "rejected"
Decide == ux \in Review /\ (Approve \/ Reject) /\ ux' = "menu" /\ unread' = {} /\ UNCHANGED setting

Change == ux = "menu" /\ setting' \in Setting /\ UNCHANGED <<ux, unread, decision>>
Quit == ux = "menu" /\ ux' = "off" /\ UNCHANGED <<unread, setting, decision>>
Restart == ux' = "menu" /\ unread' = {} /\ decision' = "none" /\ UNCHANGED setting

Next == Show \/ Read \/ Decide \/ Change \/ Quit \/ Restart
Spec == Init /\ [][Next]_<<ux, unread, setting, decision>>
==============================================================================
