---------------------------- MODULE Screens_proof -----------------------------
(***************************************************************************)
(* Proofs about the screens of both kinds of device: the arrays they fill  *)
(* are large enough, the switch shows the setting, and they implement the  *)
(* interface the handlers rely on.                                         *)
(***************************************************************************)
EXTENDS MCScreens, TLAPS

(***************************************************************************)
(* Sequences of fields.                                                    *)
(***************************************************************************)
Field == {"Hash", "Address", "Auth Token", "Receiver", "Amount", "Fee", "Network", "Token", "Value"}
            \cup Optional \cup {"Confirm", "Reject", "FLOW_END_STEP"}
Shows(fields, f) == \E i \in 1 .. Len(fields) : fields[i] = f

(* A list put together from two shows what either of them shows.           *)
LEMMA ShowsConcat ==
    ASSUME NEW s \in Seq(Field), NEW t \in Seq(Field), NEW f
    PROVE  /\ s \o t \in Seq(Field)
           /\ Len(s \o t) = Len(s) + Len(t)
           /\ Shows(s \o t, f) <=> Shows(s, f) \/ Shows(t, f)
<1>1. s \o t \in Seq(Field) /\ Len(s \o t) = Len(s) + Len(t)
  OBVIOUS
<1>2. \A i \in 1 .. Len(s) : (s \o t)[i] = s[i] /\ i \in 1 .. Len(s \o t)
  OBVIOUS
<1>3. \A i \in 1 .. Len(t) : (s \o t)[Len(s) + i] = t[i] /\ Len(s) + i \in 1 .. Len(s \o t)
  OBVIOUS
<1>4. ASSUME NEW i \in 1 .. Len(s \o t)
      PROVE  (i \in 1 .. Len(s)) \/ (\E j \in 1 .. Len(t) : i = Len(s) + j)
  <2>1. CASE i <= Len(s)
    BY <2>1
  <2>2. CASE i > Len(s)
    <3>1. i - Len(s) \in 1 .. Len(t) /\ i = Len(s) + (i - Len(s))
      BY <1>1, <2>2
    <3> QED
      BY <3>1
  <2> QED
    BY <1>1, <2>1, <2>2
<1>5. Shows(s, f) => Shows(s \o t, f)
  BY <1>2 DEF Shows
<1>6. Shows(t, f) => Shows(s \o t, f)
  BY <1>3 DEF Shows
<1>7. Shows(s \o t, f) => Shows(s, f) \/ Shows(t, f)
  BY <1>2, <1>3, <1>4 DEF Shows
<1> QED
  BY <1>1, <1>5, <1>6, <1>7

(* An optional field is shown if it is there, and takes one place at most. *)
LEMMA ShowsIf ==
    ASSUME NEW field \in Field, NEW f
    PROVE  /\ If(field) \in Seq(Field)
           /\ Len(If(field)) \in Nat /\ Len(If(field)) <= 1
           /\ Shows(If(field), f) <=> (f = field /\ field \in present)
<1>1. CASE field \in present
  BY <1>1 DEF If, Shows
<1>2. CASE field \notin present
  BY <1>2 DEF If, Shows
<1> QED
  BY <1>1, <1>2

(* What short lists show.                                                  *)
LEMMA ShowsOne == ASSUME NEW x, NEW f PROVE Shows(<<x>>, f) <=> f = x
BY Len(<<x>>) = 1, 1 .. 1 = {1} DEF Shows

(* Of two.                                                                 *)
LEMMA ShowsTwo == ASSUME NEW x, NEW y, NEW f PROVE Shows(<<x, y>>, f) <=> f \in {x, y}
<1>1. Shows(<<x, y>>, f) <=> \E i \in {1, 2} : <<x, y>>[i] = f
  BY Len(<<x, y>>) = 2, 1 .. 2 = {1, 2} DEF Shows
<1> QED
  BY <1>1

(* Of three.                                                               *)
LEMMA ShowsThree ==
    ASSUME NEW x, NEW y, NEW z, NEW f PROVE Shows(<<x, y, z>>, f) <=> f \in {x, y, z}
<1>1. Shows(<<x, y, z>>, f) <=> \E i \in {1, 2, 3} : <<x, y, z>>[i] = f
  BY Len(<<x, y, z>>) = 3, 1 .. 3 = {1, 2, 3} DEF Shows
<1> QED
  BY <1>1

(* Of four.                                                                *)
LEMMA ShowsFour ==
    ASSUME NEW w, NEW x, NEW y, NEW z, NEW f
    PROVE  Shows(<<w, x, y, z>>, f) <=> f \in {w, x, y, z}
<1>1. Shows(<<w, x, y, z>>, f) <=> \E i \in {1, 2, 3, 4} : <<w, x, y, z>>[i] = f
  BY Len(<<w, x, y, z>>) = 4, 1 .. 4 = {1, 2, 3, 4} DEF Shows
<1> QED
  BY <1>1

(* An optional field put at the end of a list.                             *)
LEMMA ShowsAppended ==
    ASSUME NEW s \in Seq(Field), NEW field \in Optional, NEW f
    PROVE  /\ s \o If(field) \in Seq(Field)
           /\ Len(s \o If(field)) \in Nat
           /\ Len(s) <= Len(s \o If(field)) /\ Len(s \o If(field)) <= Len(s) + 1
           /\ Shows(s \o If(field), f) <=> (Shows(s, f) \/ (f = field /\ field \in present))
<1> DEFINE t == If(field)
<1>1. field \in Field
  BY DEF Field
<1>2. t \in Seq(Field) /\ Len(t) \in Nat /\ Len(t) <= 1 /\ (Shows(t, f) <=> (f = field /\ field \in present))
  BY <1>1, ShowsIf
<1> HIDE DEF t
<1>3. /\ s \o t \in Seq(Field)
      /\ Len(s \o t) = Len(s) + Len(t)
      /\ Shows(s \o t, f) <=> Shows(s, f) \/ Shows(t, f)
  BY <1>2, ShowsConcat
<1>4. Len(s) \in Nat
  OBVIOUS
<1> QED
  BY <1>2, <1>3, <1>4 DEF t

(* A review of a transaction lists what it must show, and nothing else, in *)
(* seven places at most.                                                   *)
LEMMA TxFieldsShown ==
    ASSUME NEW f
    PROVE  /\ TxFields \in Seq(Field) /\ Len(TxFields) \in Nat /\ 4 <= Len(TxFields) /\ Len(TxFields) <= 7
           /\ Shows(TxFields, f) <=>
                 f \in {"Receiver", "Amount", "Fee", "Network"} \cup (present \cap Optional)
<1> DEFINE n == <<"Network">>
           a == <<"Receiver", "Amount", "Fee">>
           b == a \o If("Data")
           c == b \o If("Guardian")
           d == c \o If("Relayer")
           e == d \o n
<1>1. /\ a \in Seq(Field) /\ Len(a) \in Nat /\ 3 <= Len(a) /\ Len(a) <= 3
      /\ n \in Seq(Field) /\ Len(n) \in Nat /\ 1 <= Len(n) /\ Len(n) <= 1
  BY DEF Field
<1>2. (Shows(a, f) <=> f \in {"Receiver", "Amount", "Fee"}) /\ (Shows(n, f) <=> f = "Network")
  BY ShowsThree, ShowsOne
<1>3. "Data" \in Optional /\ "Guardian" \in Optional /\ "Relayer" \in Optional
  BY DEF Optional
<1>4. TxFields = e
  BY DEF TxFields
<1> HIDE DEF a, n
<1>5. /\ b \in Seq(Field) /\ Len(b) \in Nat /\ 3 <= Len(b) /\ Len(b) <= 4
      /\ Shows(b, f) <=> Shows(a, f) \/ (f = "Data" /\ f \in present)
  BY <1>1, <1>3, ShowsAppended
<1> HIDE DEF b
<1>6. /\ c \in Seq(Field) /\ Len(c) \in Nat /\ 3 <= Len(c) /\ Len(c) <= 5
      /\ Shows(c, f) <=> Shows(b, f) \/ (f = "Guardian" /\ f \in present)
  BY <1>5, <1>3, ShowsAppended
<1> HIDE DEF c
<1>7. /\ d \in Seq(Field) /\ Len(d) \in Nat /\ 3 <= Len(d) /\ Len(d) <= 6
      /\ Shows(d, f) <=> Shows(c, f) \/ (f = "Relayer" /\ f \in present)
  BY <1>6, <1>3, ShowsAppended
<1> HIDE DEF d
<1>8. /\ e \in Seq(Field) /\ Len(e) \in Nat /\ 4 <= Len(e) /\ Len(e) <= 7
      /\ Shows(e, f) <=> Shows(d, f) \/ Shows(n, f)
  BY <1>1, <1>7, ShowsConcat
<1> QED
  BY <1>2, <1>4, <1>5, <1>6, <1>7, <1>8 DEF Optional

(* The same of the review of an ESDT transfer.                             *)
LEMMA EsdtFieldsShown ==
    ASSUME NEW f
    PROVE  /\ EsdtFields \in Seq(Field) /\ Len(EsdtFields) \in Nat /\ 5 <= Len(EsdtFields) /\ Len(EsdtFields) <= 7
           /\ Shows(EsdtFields, f) <=>
                 f \in {"Token", "Value", "Receiver", "Fee", "Network"}
                          \cup ((present \cap Optional) \ {"Data"})
<1> DEFINE n == <<"Network">>
           a == <<"Token", "Value", "Receiver", "Fee">>
           b == a \o If("Guardian")
           c == b \o If("Relayer")
           d == c \o n
<1>1. /\ a \in Seq(Field) /\ Len(a) \in Nat /\ 4 <= Len(a) /\ Len(a) <= 4
      /\ n \in Seq(Field) /\ Len(n) \in Nat /\ 1 <= Len(n) /\ Len(n) <= 1
  BY DEF Field
<1>2. (Shows(a, f) <=> f \in {"Token", "Value", "Receiver", "Fee"}) /\ (Shows(n, f) <=> f = "Network")
  BY ShowsFour, ShowsOne
<1>3. "Guardian" \in Optional /\ "Relayer" \in Optional
  BY DEF Optional
<1>4. EsdtFields = d
  BY DEF EsdtFields
<1> HIDE DEF a, n
<1>5. /\ b \in Seq(Field) /\ Len(b) \in Nat /\ 4 <= Len(b) /\ Len(b) <= 5
      /\ Shows(b, f) <=> Shows(a, f) \/ (f = "Guardian" /\ f \in present)
  BY <1>1, <1>3, ShowsAppended
<1> HIDE DEF b
<1>6. /\ c \in Seq(Field) /\ Len(c) \in Nat /\ 4 <= Len(c) /\ Len(c) <= 6
      /\ Shows(c, f) <=> Shows(b, f) \/ (f = "Relayer" /\ f \in present)
  BY <1>5, <1>3, ShowsAppended
<1> HIDE DEF c
<1>7. /\ d \in Seq(Field) /\ Len(d) \in Nat /\ 5 <= Len(d) /\ Len(d) <= 7
      /\ Shows(d, f) <=> Shows(c, f) \/ Shows(n, f)
  BY <1>1, <1>6, ShowsConcat
<1> QED
  BY <1>2, <1>4, <1>5, <1>6, <1>7 DEF Optional

(* Every review lists what it must show, and nothing else.                 *)
LEMMA ReviewShows ==
    ASSUME present \in SUBSET Optional, NEW review \in Review
    PROVE  /\ Fields(review) \in Seq(Field)
           /\ Len(Fields(review)) \in Nat /\ 1 <= Len(Fields(review)) /\ Len(Fields(review)) <= 7
           /\ \A f : Shows(Fields(review), f) <=> f \in Required(review, present)
<1>0. present \cap Optional = present
  OBVIOUS
<1>1. CASE review = "sign_tx"
  <2>1. Fields(review) = TxFields
    BY <1>1 DEF Fields
  <2>2. Required(review, present) = {"Receiver", "Amount", "Fee", "Network"} \cup present
    BY <1>1 DEF Required
  <2> QED
    BY <1>0, <2>1, <2>2, TxFieldsShown
<1>2. CASE review = "esdt"
  <2>1. Fields(review) = EsdtFields
    BY <1>2 DEF Fields
  <2>2. Required(review, present)
           = {"Token", "Value", "Receiver", "Fee", "Network"} \cup (present \ {"Data"})
    BY <1>2 DEF Required
  <2> QED
    BY <1>0, <2>1, <2>2, EsdtFieldsShown
<1>3. CASE review \in {"sign_msg", "address"}
  <2>1. PICK f \in Field : Fields(review) = <<f>> /\ Required(review, present) = {f}
    BY <1>3 DEF Fields, Required, Field
  <2>2. <<f>> \in Seq(Field) /\ Len(<<f>>) \in 1 .. 7
    OBVIOUS
  <2> QED
    BY <2>1, <2>2, ShowsOne
<1>4. CASE review = "auth_token"
  <2>1. /\ Fields(review) = <<"Address", "Auth Token">>
        /\ Required(review, present) = {"Address", "Auth Token"}
    BY <1>4 DEF Fields, Required
  <2>2. /\ <<"Address", "Auth Token">> \in Seq(Field)
        /\ Len(<<"Address", "Auth Token">>) \in Nat
        /\ 1 <= Len(<<"Address", "Auth Token">>) /\ Len(<<"Address", "Auth Token">>) <= 7
    BY DEF Field
  <2>3. \A f : Shows(<<"Address", "Auth Token">>, f) <=> f \in {"Address", "Auth Token"}
    BY ShowsTwo
  <2> QED
    BY <2>1, <2>2, <2>3
<1> QED
  BY <1>1, <1>2, <1>3, <1>4 DEF Review

(* The steps of a review's flow come first, then the two decisions; no     *)
(* step behind them can be reached.                                        *)
LEMMA FlowOfReview ==
    ASSUME present \in SUBSET Optional, screen \in Review
    PROVE  /\ Len(Nano!Flow) = Len(Fields(screen)) + 3
           /\ \A i \in 1 .. Len(Fields(screen)) :
                 Nano!Flow[i] = Fields(screen)[i] /\ Nano!Flow[i] \in Required(screen, present)
           /\ Nano!LastStep = Len(Fields(screen)) + 2
<1>1. Nano!Flow = Fields(screen) \o Nano!Decisions
  BY DEF Nano!Flow, Nano!tx_flow, Nano!esdt_flow, Review, Fields, Nano!Fields, Nano!TxFields,
         Nano!EsdtFields, TxFields, EsdtFields, Nano!If, If
<1>2. /\ Nano!Decisions \in Seq(Field)
      /\ Len(Nano!Decisions) \in Nat /\ 3 <= Len(Nano!Decisions) /\ Len(Nano!Decisions) <= 3
  BY DEF Nano!Decisions, Field
<1>3. /\ Fields(screen) \in Seq(Field) /\ Len(Fields(screen)) \in Nat
      /\ \A f : Shows(Fields(screen), f) <=> f \in Required(screen, present)
  BY ReviewShows
<1>4. Len(Nano!Flow) = Len(Fields(screen)) + 3
  BY <1>1, <1>2, <1>3
<1>5. \A i \in 1 .. Len(Fields(screen)) : Nano!Flow[i] = Fields(screen)[i]
  BY <1>1, <1>2, <1>3
<1>6. \A i \in 1 .. Len(Fields(screen)) : Fields(screen)[i] \in Required(screen, present)
  BY <1>3 DEF Shows
<1>7. Nano!LastStep = Len(Nano!Flow) - 1
  BY DEF Nano!LastStep, Review
<1> QED
  BY <1>3, <1>4, <1>5, <1>6, <1>7

(* So there is a first step in every review.                               *)
FlowBounds ==
    present \in SUBSET Optional /\ screen \in Review =>
        Nano!LastStep \in Nat /\ Nano!LastStep >= 1

FieldsBounded ==
    present \in SUBSET Optional /\ screen \in Review => Len(Fields(screen)) \in Nat

(* Both follow from what the fields are.                                   *)
LEMMA FieldsAreBounded == FieldsBounded
BY ReviewShows DEF FieldsBounded

(* A flow has a first step.                                                *)
LEMMA FlowIsBounded == FlowBounds
BY FlowOfReview, ReviewShows DEF FlowBounds

(* Whoever has left behind every field of a list has seen what it shows.   *)
LEMMA AllSeen ==
    ASSUME present \in SUBSET Optional, screen \in Review,
           \A i \in 1 .. Len(Fields(screen)) : Fields(screen)[i] \in seen
    PROVE  Required(screen, present) \subseteq seen
BY ReviewShows DEF Shows

(* The decisions are not fields.                                           *)
LEMMA DecisionsAreNoFields ==
    ASSUME present \in SUBSET Optional, screen \in Review
    PROVE  "Confirm" \notin Required(screen, present) /\ "Reject" \notin Required(screen, present)
BY DEF Required, Review, Optional

(***************************************************************************)
(* The inductive invariant.                                                *)
(***************************************************************************)
ScreensTyped ==
    /\ device \in {"nano", "stax"}
    /\ present \in SUBSET Optional
    /\ setting_contract_data \in Setting

(* With buttons: whoever is at a step of a review has seen the ones before *)
(* it, and cannot be behind the decisions.                                 *)
StepsSeen ==
    device = "nano" /\ screen \in Review =>
        /\ step \in 1 .. Nano!LastStep
        /\ \A i \in 1 .. step - 1 : Nano!Flow[i] \in seen

(* With a touch screen: the pairs counted have been seen, and a rejection  *)
(* is asked for in a review alone.                                         *)
PairsSeen ==
    device = "stax" =>
        /\ screen \in Review =>
              /\ pairs \in 0 .. Len(Fields(screen))
              /\ \A i \in 1 .. pairs : Fields(screen)[i] \in seen
        /\ page = "reject?" => screen \in Review

ScreensInv == ScreensTyped /\ StepsSeen /\ PairsSeen /\ SwitchShowsSetting

(* The invariant holds when the application starts.                        *)
LEMMA ScreensInvInit == Init => ScreensInv
BY DEF Init, Nano!Init, Stax!Init, ScreensInv, ScreensTyped, StepsSeen, PairsSeen,
       SwitchShowsSetting, Review, Setting, Nano!Setting, CONTRACT_DATA_DISABLED,
       CONTRACT_DATA_ENABLED, Nano!CONTRACT_DATA_DISABLED, Nano!CONTRACT_DATA_ENABLED

(***************************************************************************)
(* The steps, seen through the interface.                                  *)
(***************************************************************************)
Ux == IF InReview THEN screen ELSE IF screen = "off" THEN "off" ELSE "menu"
Unread == IF InReview THEN Required(screen, present) \ seen ELSE {}
InterfaceStep == [Interface!Next]_<<Ux, Unread, setting_contract_data, decision>>

(* From screen to screen of the menu nothing happens, unless the setting   *)
(* is changed.                                                             *)
LEMMA MenuStep ==
    ASSUME screen \notin Review, screen # "off", screen' \notin Review, screen' # "off",
           UNCHANGED decision, setting_contract_data' \in Setting
    PROVE  InterfaceStep
<1>1. Interface!Change
  BY DEF Interface!Change, InReview
<1> QED
  BY <1>1 DEF InterfaceStep, Interface!Next, Ux, Unread

(* Moving about in a review only leaves less of it unread.                 *)
LEMMA ReadingStep ==
    ASSUME screen \in Review, seen \subseteq seen',
           UNCHANGED <<screen, present, setting_contract_data, decision>>
    PROVE  InterfaceStep
<1>1. Interface!Read
  BY DEF Interface!Read, InReview
<1> QED
  BY <1>1 DEF InterfaceStep, Interface!Next, Ux, Unread

(* A review is shown with the fields its kind may have.                    *)
LEMMA ShowingStep ==
    ASSUME screen \notin Review, screen # "off", screen' \in Review, seen' = {},
           present' \in SUBSET Optional, decision' = "none", UNCHANGED setting_contract_data
    PROVE  InterfaceStep
<1>1. Interface!Show
  BY DEF Interface!Show, InReview
<1> QED
  BY <1>1 DEF InterfaceStep, Interface!Next, Ux, Unread

(* A decision ends a review, an approval not before all of it was seen.    *)
LEMMA DecidingStep ==
    ASSUME screen \in Review, screen' \notin Review, screen' # "off",
           \/ decision' = "rejected"
           \/ decision' = "approved" /\ Required(screen, present) \subseteq seen,
           UNCHANGED setting_contract_data
    PROVE  InterfaceStep
<1>1. Interface!Decide
  BY DEF Interface!Decide, Interface!Approve, Interface!Reject, InReview, Review
<1> QED
  BY <1>1 DEF InterfaceStep, Interface!Next, Ux, Unread

(* The application starts over, whatever was on the screen.                *)
LEMMA RestartingStep ==
    ASSUME screen' \notin Review, screen' # "off", decision' = "none",
           UNCHANGED setting_contract_data
    PROVE  InterfaceStep
<1>1. Interface!Restart
  BY DEF Interface!Restart, InReview
<1> QED
  BY <1>1 DEF InterfaceStep, Interface!Next, Ux, Unread

(* It ends from the menu.                                                  *)
LEMMA QuittingStep ==
    ASSUME screen \notin Review, screen # "off", screen' = "off",
           UNCHANGED <<setting_contract_data, decision>>
    PROVE  InterfaceStep
<1>1. Interface!Quit
  BY DEF Interface!Quit, InReview, Review
<1> QED
  BY <1>1 DEF InterfaceStep, Interface!Next, Ux, Unread

(* What no step of either device touches leaves the interface as it is.    *)
LEMMA IdleStep ==
    ASSUME UNCHANGED <<screen, present, seen, setting_contract_data, decision>>
    PROVE  InterfaceStep
BY DEF InterfaceStep, Ux, Unread, InReview

(***************************************************************************)
(* A step of a device with buttons.                                        *)
(***************************************************************************)
(* The places before the next step are those before this one and its own.  *)
LEMMA Before ==
    ASSUME NEW m \in Nat, NEW n \in Nat, n <= m + 1
    PROVE  \A i \in 1 .. n - 1 : i \in 1 .. m - 1 \/ i = m
OBVIOUS

(* One step on or back in a review's flow, or around the menu.             *)
LEMMA NanoMoves ==
    ASSUME ScreensInv, device = "nano", UNCHANGED <<device, page, pairs, initState>>,
           Nano!Right \/ Nano!Left
    PROVE  ScreensInv' /\ InterfaceStep
<1>1. UNCHANGED <<screen, present, setting_contract_data, decision>>
  BY DEF Nano!Right, Nano!Left, Nano!MoveTo
<1>2. ScreensTyped' /\ PairsSeen' /\ SwitchShowsSetting'
  BY <1>1 DEF ScreensInv, ScreensTyped, PairsSeen, SwitchShowsSetting
<1>3. CASE screen \in Review
  <2>1. /\ step \in 1 .. Nano!LastStep /\ Nano!LastStep \in Nat
        /\ \A i \in 1 .. step - 1 : Nano!Flow[i] \in seen
    BY <1>3, FlowOfReview, ReviewShows DEF ScreensInv, ScreensTyped, StepsSeen
  <2>2. /\ seen' = seen \cup {Nano!Flow[step]}
        /\ step' \in 1 .. Nano!LastStep /\ step' <= step + 1
    BY <1>3, <2>1 DEF Nano!Right, Nano!Left, Nano!MoveTo, Nano!MayLoop, Nano!Review, Review
  <2>3. Nano!Flow' = Nano!Flow /\ Nano!LastStep' = Nano!LastStep
    BY <1>1 DEF Nano!Flow, Nano!LastStep, Nano!tx_flow, Nano!esdt_flow, Nano!Fields, Nano!TxFields,
                Nano!EsdtFields, Nano!If
  <2>4. \A i \in 1 .. step' - 1 : Nano!Flow[i] \in seen'
    <3>1. step \in Nat /\ step' \in Nat /\ step' <= step + 1
      BY <2>1, <2>2
    <3>2. \A i \in 1 .. step' - 1 : i \in 1 .. step - 1 \/ i = step
      BY <3>1, Before
    <3> QED
      BY <2>1, <2>2, <3>2
  <2>5. StepsSeen'
    BY <1>1, <1>3, <2>2, <2>3, <2>4 DEF StepsSeen
  <2> QED
    BY <1>1, <1>2, <1>3, <2>2, <2>5, ReadingStep DEF ScreensInv
<1>4. CASE screen \notin Review
  <2>1. screen = "idle"
    BY <1>4 DEF Nano!Right, Nano!Left, Nano!InFlow, Nano!Review, Review
  <2>2. InterfaceStep
    BY <1>1, <1>4, <2>1, MenuStep DEF ScreensInv, ScreensTyped
  <2> QED
    BY <1>1, <1>2, <1>4, <2>2 DEF ScreensInv, StepsSeen
<1> QED
  BY <1>3, <1>4

(* From one screen of the menu to another.                                 *)
LEMMA NanoMenus ==
    ASSUME ScreensInv, device = "nano", UNCHANGED <<device, page, pairs, initState>>,
           Nano!Enter \/ Nano!Select \/ Nano!app_version_ui_button
    PROVE  ScreensInv' /\ InterfaceStep
<1>1. screen \in {"idle", "settings", "contract_data", "info", "version"}
  BY DEF Nano!Enter, Nano!Select, Nano!app_version_ui_button, Nano!ListSize
<1>2. /\ screen' \in {"idle", "settings", "contract_data", "info", "version", "off"}
      /\ present' = {} /\ seen' = {} /\ decision' = decision
      /\ setting_contract_data' \in Setting
      /\ screen' = "off" => UNCHANGED setting_contract_data
  BY DEF Nano!Enter, Nano!Select, Nano!app_version_ui_button, Nano!Display, Nano!ui_idle,
         Nano!settings_submenu_selector, Nano!setting_contract_data_selector,
         Nano!info_submenu_selector, Nano!setting_contract_data_change, Nano!Setting, Setting,
         Nano!CONTRACT_DATA_DISABLED, Nano!CONTRACT_DATA_ENABLED, CONTRACT_DATA_DISABLED,
         CONTRACT_DATA_ENABLED, ScreensInv, ScreensTyped
<1>3. ScreensInv'
  BY <1>2 DEF ScreensInv, ScreensTyped, StepsSeen, PairsSeen, SwitchShowsSetting, Review
<1>4. InterfaceStep
  BY <1>1, <1>2, MenuStep, QuittingStep DEF Review
<1> QED
  BY <1>3, <1>4

(* A review comes up, is decided, or is lost with the link.                *)
LEMMA NanoReviews ==
    ASSUME ScreensInv, FlowBounds', device = "nano",
           UNCHANGED <<device, page, pairs, initState>>,
           \/ \E review \in Nano!Review : Nano!ShowReview(review)
           \/ Nano!Decide
           \/ Nano!Restart
    PROVE  ScreensInv' /\ InterfaceStep
<1>1. ASSUME NEW review \in Nano!Review, Nano!ShowReview(review)
      PROVE  ScreensInv' /\ InterfaceStep
  <2>1. /\ screen \notin Review /\ screen # "off" /\ screen' \in Review /\ screen' = review
        /\ seen' = {} /\ step' = 1 /\ decision' = "none" /\ UNCHANGED setting_contract_data
        /\ present' \in SUBSET Optional
    BY <1>1 DEF Nano!ShowReview, Nano!Review, Review, Nano!PresentIn, Nano!Optional, Optional
  <2>2. Nano!LastStep' \in Nat /\ Nano!LastStep' >= 1
    BY <2>1 DEF FlowBounds
  <2>3. ScreensInv'
    BY <2>1, <2>2 DEF ScreensInv, ScreensTyped, StepsSeen, PairsSeen, SwitchShowsSetting
  <2> QED
    BY <2>1, <2>3, ShowingStep
<1>2. ASSUME Nano!Decide \/ Nano!Restart
      PROVE  ScreensInv'
  BY <1>2 DEF Nano!Decide, Nano!Restart, Nano!ui_idle, Nano!Display, ScreensInv, ScreensTyped,
              StepsSeen, PairsSeen, SwitchShowsSetting, Review
<1>3. ASSUME Nano!Decide
      PROVE  InterfaceStep
  <2>1. screen \in Review /\ screen' = "idle" /\ UNCHANGED setting_contract_data
    BY <1>3 DEF Nano!Decide, Nano!Confirm, Nano!Reject, Nano!ui_idle, Nano!Display, Nano!Review, Review
  <2>2. CASE Nano!Reject
    BY <2>1, <2>2, DecidingStep DEF Nano!Reject, Review
  <2>3. CASE Nano!Confirm
    <3>1. /\ step \in 1 .. Nano!LastStep
          /\ \A i \in 1 .. step - 1 : Nano!Flow[i] \in seen
          /\ Len(Fields(screen)) \in Nat
          /\ Nano!LastStep = Len(Fields(screen)) + 2
          /\ \A i \in 1 .. Len(Fields(screen)) :
                Nano!Flow[i] = Fields(screen)[i] /\ Nano!Flow[i] \in Required(screen, present)
      BY <2>1, FlowOfReview, ReviewShows DEF ScreensInv, ScreensTyped, StepsSeen
    <3>2. step \notin 1 .. Len(Fields(screen))
      BY <2>1, <2>3, <3>1, DecisionsAreNoFields DEF Nano!Confirm, ScreensInv, ScreensTyped
    <3>3. \A i \in 1 .. Len(Fields(screen)) : Fields(screen)[i] \in seen
      BY <3>1, <3>2
    <3>4. Required(screen, present) \subseteq seen
      BY <2>1, <3>3, AllSeen DEF ScreensInv, ScreensTyped
    <3> QED
      BY <2>1, <2>3, <3>4, DecidingStep DEF Nano!Confirm, Review
  <2> QED
    BY <1>3, <2>2, <2>3 DEF Nano!Decide
<1>4. ASSUME Nano!Restart
      PROVE  InterfaceStep
  BY <1>4, RestartingStep DEF Nano!Restart, Nano!ui_idle, Nano!Display, Review
<1> QED
  BY <1>1, <1>2, <1>3, <1>4

(***************************************************************************)
(* A step of a device with a touch screen.                                 *)
(***************************************************************************)
(* The application starts over, the switch is touched, or the menu is left *)
(* or entered.                                                             *)
LEMMA StaxMenus ==
    ASSUME ScreensInv, device = "stax", UNCHANGED <<device, step>>,
           \/ Stax!Restart \/ Stax!settings_controls_callback \/ Stax!quit_app_callback
           \/ Stax!StatusEnds
    PROVE  ScreensInv' /\ InterfaceStep
<1> USE DEF Setting, Stax!Setting, CONTRACT_DATA_DISABLED, CONTRACT_DATA_ENABLED,
            Stax!CONTRACT_DATA_DISABLED, Stax!CONTRACT_DATA_ENABLED, Stax!OFF_STATE, Stax!ON_STATE,
            Review
<1>1. CASE Stax!Restart
  <2>1. /\ screen' = "home" /\ present' = {} /\ page' = "start" /\ decision' = "none"
        /\ initState' = IF setting_contract_data = 0 THEN 0 ELSE 1
        /\ UNCHANGED setting_contract_data
    BY <1>1 DEF Stax!Restart, Stax!ui_idle, Stax!NoReview
  <2>2. ScreensInv'
    BY <2>1 DEF ScreensInv, ScreensTyped, StepsSeen, PairsSeen, SwitchShowsSetting
  <2> QED
    BY <2>1, <2>2, RestartingStep
<1>2. CASE Stax!settings_controls_callback
  <2>1. /\ screen = "home" /\ UNCHANGED <<screen, page, pairs, seen, present, decision>>
        /\ initState' = IF initState = 0 THEN 1 ELSE 0
        /\ setting_contract_data' = IF initState' = 0 THEN 0 ELSE 1
    BY <1>2 DEF Stax!settings_controls_callback
  <2>2. ScreensInv'
    BY <2>1 DEF ScreensInv, ScreensTyped, StepsSeen, PairsSeen, SwitchShowsSetting
  <2> QED
    BY <2>1, <2>2, MenuStep
<1>3. CASE Stax!quit_app_callback
  <2>1. /\ screen = "home" /\ screen' = "off"
        /\ UNCHANGED <<page, pairs, initState, seen, present, setting_contract_data, decision>>
    BY <1>3 DEF Stax!quit_app_callback
  <2>2. ScreensInv'
    BY <2>1 DEF ScreensInv, ScreensTyped, StepsSeen, PairsSeen, SwitchShowsSetting
  <2> QED
    BY <2>1, <2>2, QuittingStep
<1>4. CASE Stax!StatusEnds
  <2>1. /\ screen = "status" /\ screen' = "home"
        /\ initState' = IF setting_contract_data = 0 THEN 0 ELSE 1
        /\ UNCHANGED <<page, pairs, seen, present, setting_contract_data, decision>>
    BY <1>4 DEF Stax!StatusEnds, Stax!ui_idle
  <2>2. ScreensInv'
    BY <2>1 DEF ScreensInv, ScreensTyped, StepsSeen, PairsSeen, SwitchShowsSetting
  <2> QED
    BY <2>1, <2>2, MenuStep DEF ScreensInv, ScreensTyped
<1> QED
  BY <1>1, <1>2, <1>3, <1>4

(* A review comes up, or the user moves about in it.                       *)
LEMMA StaxMoves ==
    ASSUME ScreensInv, FieldsBounded', device = "stax", UNCHANGED <<device, step>>,
           \/ \E review \in Stax!Review : Stax!ShowReview(review)
           \/ Stax!NextPage \/ Stax!AskReject \/ Stax!GoBack
    PROVE  ScreensInv' /\ InterfaceStep
<1>1. ASSUME NEW review \in Stax!Review, Stax!ShowReview(review)
      PROVE  ScreensInv' /\ InterfaceStep
  <2>1. /\ screen \notin Review /\ screen # "off" /\ screen' \in Review /\ screen' # "off"
        /\ seen' = {} /\ pairs' = 0 /\ page' = "start"
        /\ decision' = "none" /\ UNCHANGED <<initState, setting_contract_data>>
        /\ present' \in SUBSET Optional
    BY <1>1 DEF Stax!ShowReview, Stax!Review, Review, Stax!PresentIn, Stax!Optional, Optional
  <2>2. Len(Fields(screen))' \in Nat
    BY <2>1 DEF FieldsBounded
  <2>3. ScreensInv'
    BY <2>1, <2>2 DEF ScreensInv, ScreensTyped, StepsSeen, PairsSeen, SwitchShowsSetting
  <2> QED
    BY <2>1, <2>3, ShowingStep
<1>2. CASE Stax!NextPage
  <2>1. /\ screen \in Review /\ page' = "pairs"
        /\ UNCHANGED <<screen, initState, present, setting_contract_data, decision>>
        /\ \E n \in pairs + 1 .. Len(Stax!Fields(screen)) :
              /\ pairs' = n
              /\ seen' = seen \cup {Stax!Fields(screen)[i] : i \in pairs + 1 .. n}
    BY <1>2 DEF Stax!NextPage, Stax!Review, Review
  <2>2. Stax!Fields(screen) = Fields(screen) /\ Fields(screen)' = Fields(screen)
    BY <2>1 DEF Stax!Fields, Stax!TxFields, Stax!EsdtFields, Stax!If, Fields, TxFields, EsdtFields,
                If
  <2>3. /\ Len(Fields(screen)) \in Nat /\ pairs \in 0 .. Len(Fields(screen))
        /\ \A i \in 1 .. pairs : Fields(screen)[i] \in seen
    BY <2>1, ReviewShows DEF ScreensInv, ScreensTyped, PairsSeen
  <2>4. PICK n \in pairs + 1 .. Len(Fields(screen)) :
              /\ pairs' = n
              /\ seen' = seen \cup {Fields(screen)[i] : i \in pairs + 1 .. n}
    BY <2>1, <2>2
  <2>5. pairs' \in 0 .. Len(Fields(screen))
    BY <2>3, <2>4
  <2>6. ASSUME NEW i \in 1 .. pairs'
        PROVE  Fields(screen)[i] \in seen'
    <3>1. i \in 1 .. pairs \/ i \in pairs + 1 .. n
      BY <2>3, <2>4
    <3> QED
      BY <2>3, <2>4, <3>1
  <2>7. PairsSeen'
    BY <2>1, <2>2, <2>5, <2>6 DEF PairsSeen
  <2>8. ScreensInv'
    BY <2>1, <2>7 DEF ScreensInv, ScreensTyped, StepsSeen, SwitchShowsSetting
  <2> QED
    BY <2>1, <2>4, <2>8, ReadingStep
<1>3. CASE Stax!AskReject \/ Stax!GoBack
  <2>1. /\ page' \in {"start", "pairs", "reject?"} /\ screen \in Review
        /\ UNCHANGED <<screen, pairs, initState, seen, present, setting_contract_data, decision>>
    BY <1>3 DEF Stax!AskReject, Stax!GoBack, Stax!Review, Review, ScreensInv, PairsSeen
  <2>2. Fields(screen)' = Fields(screen)
    BY <2>1 DEF Fields, TxFields, EsdtFields, If
  <2>3. ScreensInv'
    BY <2>1, <2>2 DEF ScreensInv, ScreensTyped, StepsSeen, PairsSeen, SwitchShowsSetting
  <2> QED
    BY <2>1, <2>3, IdleStep
<1> QED
  BY <1>1, <1>2, <1>3

(* A review is approved after its last pair, or rejected.                  *)
LEMMA StaxDecisions ==
    ASSUME ScreensInv, device = "stax", UNCHANGED <<device, step>>,
           \/ Stax!review_final_callback \/ Stax!Rejection \/ Stax!address_verification_cancelled
    PROVE  ScreensInv' /\ InterfaceStep
<1>1. /\ screen \in Review /\ screen' = "status" /\ present' = {} /\ page' = "start"
      /\ decision' \in {"approved", "rejected"} /\ UNCHANGED <<initState, setting_contract_data>>
  BY DEF Stax!review_final_callback, Stax!Rejection, Stax!address_verification_cancelled,
         Stax!Answer, Stax!NoReview, Stax!Review, Review, ScreensInv, PairsSeen
<1>2. ScreensInv'
  BY <1>1 DEF ScreensInv, ScreensTyped, StepsSeen, PairsSeen, SwitchShowsSetting, Review
<1>3. ASSUME Stax!review_final_callback
      PROVE  Required(screen, present) \subseteq seen
  <2>1. pairs = Len(Fields(screen))
    BY <1>3 DEF Stax!review_final_callback, Stax!Fields, Stax!TxFields, Stax!EsdtFields, Stax!If,
                Fields, TxFields, EsdtFields, If
  <2> QED
    BY <1>1, <2>1, AllSeen DEF ScreensInv, ScreensTyped, PairsSeen
<1>4. decision' = "rejected" \/ (decision' = "approved" /\ Required(screen, present) \subseteq seen)
  BY <1>3 DEF Stax!review_final_callback, Stax!Rejection, Stax!address_verification_cancelled,
              Stax!Answer
<1> QED
  BY <1>1, <1>2, <1>4, DecidingStep DEF Review

(***************************************************************************)
(* The theorems.                                                           *)
(***************************************************************************)
(* A step of either device.                                                *)
LEMMA ScreensStep ==
    ScreensInv /\ FlowBounds' /\ FieldsBounded' /\ [Next]_vars => ScreensInv' /\ InterfaceStep
<1> SUFFICES ASSUME ScreensInv, FlowBounds', FieldsBounded', [Next]_vars
             PROVE  ScreensInv' /\ InterfaceStep
  OBVIOUS
<1>1. CASE device = "nano" /\ Nano!Next /\ UNCHANGED <<device, page, pairs, initState>>
  BY <1>1, NanoMoves, NanoMenus, NanoReviews DEF Nano!Next
<1>2. CASE device = "stax" /\ Stax!Next /\ UNCHANGED <<device, step>>
  BY <1>2, StaxMenus, StaxMoves, StaxDecisions DEF Stax!Next
<1>3. CASE UNCHANGED vars
  <2>1. UNCHANGED <<device, screen, step, page, pairs, initState, seen, present,
                    setting_contract_data, decision>>
    BY <1>3 DEF vars
  <2>2. Fields(screen)' = Fields(screen) /\ Nano!Flow' = Nano!Flow /\ Nano!LastStep' = Nano!LastStep
    BY <2>1 DEF Fields, TxFields, EsdtFields, If, Nano!Flow, Nano!LastStep, Nano!tx_flow,
                Nano!esdt_flow, Nano!Fields, Nano!TxFields, Nano!EsdtFields, Nano!If
  <2>3. ScreensInv'
    BY <2>1, <2>2 DEF ScreensInv, ScreensTyped, StepsSeen, PairsSeen, SwitchShowsSetting
  <2> QED
    BY <2>1, <2>3, IdleStep
<1> QED
  BY <1>1, <1>2, <1>3 DEF Next

(* The invariant of the screens.                                           *)
THEOREM ScreensInvariant == ScreensSpec => []ScreensInv
<1>1. FlowBounds /\ FieldsBounded
  BY FlowIsBounded, FieldsAreBounded
<1> QED
  BY <1>1, ScreensInvInit, ScreensStep, PTL DEF ScreensSpec

(* The switch on the screen is the setting in memory                       *)
(* (settings_controls_callback, ui_menu_main).                             *)
THEOREM SwitchIsSetting == ScreensSpec => []SwitchShowsSetting
<1>1. ScreensInv => SwitchShowsSetting
  BY DEF ScreensInv
<1> QED
  BY <1>1, ScreensInvariant, PTL

(* No array of steps is written behind its end (display_tx_sign_flow,      *)
(* display_esdt_flow).                                                     *)
THEOREM FlowsAreLargeEnough == ScreensSpec => []FlowsFit
<1>1. ScreensInv => FlowsFit
  <2> SUFFICES ASSUME ScreensInv, screen \in Review
               PROVE  Len(Nano!Flow) <= 10 /\ Len(Nano!Flow) \in Nat
    BY ArraySizes DEF FlowsFit, Review
  <2> QED
    BY FlowOfReview, ReviewShows DEF ScreensInv, ScreensTyped
<1> QED
  BY <1>1, ScreensInvariant, PTL

(* No array of pairs is either (start_review).                             *)
THEOREM PairsAreEnough == ScreensSpec => []PairsFit
<1>1. ScreensInv => PairsFit
  <2> SUFFICES ASSUME ScreensInv, screen \in Review
               PROVE  Len(Fields(screen)) <= 7 /\ Len(Fields(screen)) \in Nat
    BY ArraySizes DEF PairsFit, Review
  <2> QED
    BY ReviewShows DEF ScreensInv, ScreensTyped
<1> QED
  BY <1>1, ScreensInvariant, PTL

(* The screens of either kind of device implement the interface: nothing   *)
(* is approved before all that belongs to it was on the screen, and no     *)
(* review is left by another way than a decision or a restart.             *)
THEOREM ScreensAreAnInterface == ScreensSpec => ScreensImplementInterface
<1>1. FlowBounds /\ FieldsBounded
  BY FlowIsBounded, FieldsAreBounded
<1>2. Init => Interface!Init
  BY DEF Init, Nano!Init, Interface!Init, InReview, Review, Setting, Nano!Setting,
         CONTRACT_DATA_DISABLED, CONTRACT_DATA_ENABLED, Nano!CONTRACT_DATA_DISABLED,
         Nano!CONTRACT_DATA_ENABLED
<1>3. ScreensInv /\ FlowBounds' /\ FieldsBounded' /\ [Next]_vars => InterfaceStep
  BY ScreensStep
<1> QED
  BY <1>1, <1>2, <1>3, ScreensInvariant, PTL
     DEF ScreensSpec, ScreensImplementInterface, Interface!Spec, InterfaceStep, Ux, Unread
==============================================================================
