------------------------------ MODULE Equipment ------------------------------
(***************************************************************************)
(* Extra equipment: the form of ExtraEquipmentViewController, the running  *)
(* charge that AppDelegate keeps and the counts that the dashboard keeps.  *)
(* Next adds to the charge row by row while it validates the form, and     *)
(* reports the products to the dashboard only when every row was in order; *)
(* a request sends the charge and the counts side by side.                 *)
(*                                                                         *)
(* `drift' is a history variable: what has happened that changes one of    *)
(* the two without the other.                                              *)
(*                                                                         *)
(* Names are prefixed so that ChargeProofs can extend FeeClock as well.    *)
(***************************************************************************)
EXTENDS Integers

CONSTANTS
    Rows,       \* number of product kits, one row each
    Price,      \* productPriceList
    MaxQty,     \* largest quantity typed; the field takes one digit
    MaxVisits,  \* presses of Next in one behaviour
    MaxScreens  \* times the client signs in again, in the same process

Kits == 1 .. Rows

ASSUME EquipmentBounds == /\ Rows \in Nat
                          /\ Price \in [Kits -> Nat \ {0}]
                          /\ MaxQty \in 0 .. 9
                          /\ MaxVisits \in Nat
                          /\ MaxScreens \in Nat

VARIABLES
    visibleScreen, \* the dashboard, or the form over it
    productKitList,\* the form: size chosen and quantity, per row
    loaded,        \* the kits and their sizes have arrived
    editing,       \* the quantity field being edited: row (or 0) and text
    counts,        \* umbrellaCount, raincoatCount, shoesCount
    extraCharge,   \* AppDelegate.extraCharge
    waiting,       \* a request is being waited for
    drift, visits, screens

equipmentVars == <<visibleScreen, productKitList, loaded, editing, counts,
                   extraCharge, waiting, drift, visits, screens>>

-----------------------------------------------------------------------------
Blank      == -1
Quantities == Blank .. MaxQty
NoForm     == [k \in Kits |-> [size |-> FALSE, Quantity |-> Blank]]
NoEdit     == [row |-> 0, text |-> Blank]
Causes     == {"refused", "cancelled", "newDashboard"}

\* What the rows up to each one come to, for these quantities: the charge is
\* added up row by row.
Sums(quantities) ==
    LET sum[k \in 0 .. Rows] ==
            IF k = 0 THEN 0 ELSE sum[k - 1] + Price[k] * quantities[k]
    IN  sum

ValueOf(quantities) == Sums(quantities)[Rows]

\* A request sends the counts without the kit everyone gets, and the charge.
Added == [k \in Kits |-> counts[k] - 1]

EquipmentTypeOK ==
    /\ visibleScreen \in {"dashboard", "equipment"}
    /\ productKitList \in [Kits -> [size : BOOLEAN, Quantity : Quantities]]
    /\ loaded \in {"none", "kits", "sizes"}
    /\ editing \in [row : 0 .. Rows, text : Quantities]
    /\ counts \in [Kits -> 1 .. 1 + MaxVisits * MaxQty]
    /\ extraCharge \in Nat /\ waiting \in BOOLEAN
    /\ drift \subseteq Causes
    /\ visits \in 0 .. MaxVisits /\ screens \in 0 .. MaxScreens

EquipmentInit ==
    /\ visibleScreen = "dashboard" /\ productKitList = NoForm /\ loaded = "none"
    /\ editing = NoEdit /\ counts = [k \in Kits |-> 1] /\ extraCharge = 0
    /\ waiting = FALSE
    /\ drift = {} /\ visits = 0 /\ screens = 0

-----------------------------------------------------------------------------
(***************************************************************************)
(* The form                                                                *)
(***************************************************************************)

buyExtraEquipments ==
    /\ visibleScreen = "dashboard" /\ ~waiting
    /\ visibleScreen' = "equipment" /\ productKitList' = NoForm
    /\ loaded' = "none" /\ editing' = NoEdit
    /\ UNCHANGED <<counts, extraCharge, waiting, drift, visits, screens>>

getKit ==
    /\ visibleScreen = "equipment" /\ loaded = "none" /\ loaded' = "kits"
    /\ UNCHANGED <<visibleScreen, productKitList, editing, counts, extraCharge,
                   waiting, drift, visits, screens>>

\* The rows appear only now.
getKitSize ==
    /\ visibleScreen = "equipment" /\ loaded = "kits" /\ loaded' = "sizes"
    /\ UNCHANGED <<visibleScreen, productKitList, editing, counts, extraCharge,
                   waiting, drift, visits, screens>>

\* The table is reloaded: a field that is being edited may or may not end
\* its editing before its cell shows the stored quantity again.
btnSizePressed(k) ==
    /\ visibleScreen = "equipment" /\ loaded = "sizes"
    /\ \E list \in {productKitList} \union
                   (IF editing.row = 0 THEN {}
                    ELSE {[productKitList EXCEPT
                             ![editing.row].Quantity = editing.text]}) :
           productKitList' = [list EXCEPT ![k].size = ~@]
    /\ editing' = NoEdit
    /\ UNCHANGED <<visibleScreen, loaded, counts, extraCharge, waiting, drift,
                   visits, screens>>

\* textField(shouldChangeCharactersIn): at most one digit.
shouldChangeCharactersIn(k, text) ==
    /\ visibleScreen = "equipment" /\ loaded = "sizes" /\ editing.row \in {0, k}
    /\ editing' = [row |-> k, text |-> text]
    /\ UNCHANGED <<visibleScreen, productKitList, loaded, counts, extraCharge,
                   waiting, drift, visits, screens>>

textFieldDidEndEditing ==
    /\ visibleScreen = "equipment" /\ editing.row # 0
    /\ productKitList' = [productKitList EXCEPT
                             ![editing.row].Quantity = editing.text]
    /\ editing' = NoEdit
    /\ UNCHANGED <<visibleScreen, loaded, counts, extraCharge, waiting, drift,
                   visits, screens>>

-----------------------------------------------------------------------------
(***************************************************************************)
(* Next                                                                    *)
(***************************************************************************)

\* A row that stops the loop: a size without a number, or a number without
\* a size.
Refused(k) == productKitList[k].size # (productKitList[k].Quantity > 0)

Selected(k) == productKitList[k].size /\ productKitList[k].Quantity > 0

Charge(charged) ==
    ValueOf([k \in Kits |-> IF k \in charged THEN productKitList[k].Quantity
                                             ELSE 0])

\* Mutant: the form is checked, and closed, when the loop is over.
btnNextPressed_ClosesAnyway ==
    /\ visibleScreen = "equipment" /\ visits < MaxVisits /\ visits' = visits + 1
    /\ LET refused == {k \in Kits : Refused(k)}
           charged == {k \in Kits : Selected(k) /\ \A r \in refused : k < r}
       IN  /\ extraCharge' = extraCharge + Charge(charged)
           /\ visibleScreen' = "dashboard"
           /\ counts' = [k \in Kits |-> IF productKitList[k].Quantity > 0
                                        THEN counts[k] + productKitList[k].Quantity
                                        ELSE counts[k]]
           /\ UNCHANGED drift
    /\ UNCHANGED <<productKitList, loaded, editing, waiting, screens>>

\* btnNextPressed and, through the notification, showSelectedProducts.  The
\* selected rows above the first refused one are charged in any case.  A
\* quantity still being typed is not in the list yet.
btnNextPressed ==
    /\ visibleScreen = "equipment" /\ visits < MaxVisits /\ visits' = visits + 1
    /\ LET refused == {k \in Kits : Refused(k)}
           charged == {k \in Kits : Selected(k) /\ \A r \in refused : k < r}
       IN  /\ extraCharge' = extraCharge + Charge(charged)
           /\ IF refused = {}
              THEN /\ visibleScreen' = "dashboard"
                   /\ counts' = [k \in Kits |->
                                   IF Selected(k)
                                   THEN counts[k] + productKitList[k].Quantity
                                   ELSE counts[k]]
                   /\ UNCHANGED drift
              ELSE /\ drift' = IF charged = {} THEN drift
                               ELSE drift \union {"refused"}
                   /\ UNCHANGED <<visibleScreen, counts>>
    /\ UNCHANGED <<productKitList, loaded, editing, waiting, screens>>

btnBackPressed ==
    /\ visibleScreen = "equipment" /\ visibleScreen' = "dashboard"
    /\ UNCHANGED <<productKitList, loaded, editing, counts, extraCharge,
                   waiting, drift, visits, screens>>

-----------------------------------------------------------------------------
(***************************************************************************)
(* The dashboard                                                           *)
(***************************************************************************)

postRequest ==
    /\ visibleScreen = "dashboard" /\ ~waiting /\ waiting' = TRUE
    /\ UNCHANGED <<visibleScreen, productKitList, loaded, editing, counts,
                   extraCharge, drift, visits, screens>>

\* The request is over without a cancellation from the overlay: accepted,
\* failed or timed out.  Neither the charge nor the counts are reset.
requestEnds ==
    /\ waiting /\ waiting' = FALSE
    /\ UNCHANGED <<visibleScreen, productKitList, loaded, editing, counts,
                   extraCharge, drift, visits, screens>>

\* Mutant: the counts are reset and the charge is kept.
cancelRequestThroughWS_ResetsCounts ==
    /\ visibleScreen = "dashboard" /\ waiting /\ waiting' = FALSE
    /\ counts' = [k \in Kits |-> 1]
    /\ drift' = drift \union {"cancelled"}
    /\ UNCHANGED <<visibleScreen, productKitList, loaded, editing, extraCharge,
                   visits, screens>>

\* The charge is reset before the cancellation is sent; the counts stay.
cancelRequestThroughWS ==
    /\ visibleScreen = "dashboard" /\ waiting /\ waiting' = FALSE
    /\ extraCharge' = 0
    /\ drift' = IF extraCharge = 0 THEN drift ELSE drift \union {"cancelled"}
    /\ UNCHANGED <<visibleScreen, productKitList, loaded, editing, counts,
                   visits, screens>>

\* The client logs out and in again: the new dashboard has counts of its own,
\* the application delegate keeps the charge.
signInAgain ==
    /\ visibleScreen = "dashboard"
    /\ screens < MaxScreens /\ screens' = screens + 1
    /\ counts' = [k \in Kits |-> 1] /\ waiting' = FALSE
    /\ drift' = IF extraCharge = 0 THEN drift
                ELSE drift \union {"newDashboard"}
    /\ UNCHANGED <<visibleScreen, productKitList, loaded, editing, extraCharge,
                   visits>>

-----------------------------------------------------------------------------
EquipmentNext ==
    \/ buyExtraEquipments \/ getKit \/ getKitSize
    \/ \E k \in Kits : btnSizePressed(k)
    \/ \E k \in Kits, text \in Quantities : shouldChangeCharactersIn(k, text)
    \/ textFieldDidEndEditing \/ btnNextPressed \/ btnBackPressed
    \/ postRequest \/ requestEnds \/ cancelRequestThroughWS \/ signInAgain

EquipmentSpec == EquipmentInit /\ [][EquipmentNext]_equipmentVars

-----------------------------------------------------------------------------
(***************************************************************************)
(* Properties                                                              *)
(***************************************************************************)

\* A client is asked for less than the price of the extra equipment in the
\* counts only after a cancellation: it resets the charge and keeps the
\* counts, over any sequence of visits, refusals and requests.
ChargedLessHasCause ==
    "cancelled" \notin drift => extraCharge >= ValueOf(Added)

\* A client is asked for more only after a refused Next, which has charged
\* the rows above the refused one, or on a new dashboard.
ChargedMoreHasCause ==
    drift \intersect {"refused", "newDashboard"} = {} =>
        extraCharge <= ValueOf(Added)
=============================================================================
