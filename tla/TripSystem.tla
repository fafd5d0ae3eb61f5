----------------------------- MODULE TripSystem -----------------------------
(***************************************************************************)
(* One client's phone, one provider's phone and the server that carries    *)
(* their messages.  ClientApp and ProviderApp each take the other side for *)
(* granted; here the two meet: what one phone writes is what the other one *)
(* hears, and a message that is dropped, or that reaches a screen without  *)
(* an answer to it, makes the phones differ.                               *)
(*                                                                         *)
(* A phone is reduced to the trip it shows, the screen in the delegate     *)
(* slot of its WebSocketManager, its end of the request socket and, on the *)
(* client's side, the trip its application delegate remembers.  Faults     *)
(* that end a process are a relaunch here.  An offer that comes while the  *)
(* route of an accepted trip is asked for is left to ProviderApp: it       *)
(* changes no trip that is shown.                                          *)
(*                                                                         *)
(* `lapse' is a history variable of each phone.  Since it last asked the   *)
(* server for its trip, one of these has happened:                         *)
(*   - a message was told to no open socket, was lost with one, or came to *)
(*     a screen that has no answer to it;                                  *)
(*   - a message, or the cancellation form, should have closed the sheet   *)
(*     and removed only what was over it;                                  *)
(*   - a sheet that was due never opened;                                  *)
(*   - the phone came up without asking, in the middle of a trip, or with  *)
(*     a trip that its application delegate still remembered.              *)
(***************************************************************************)
EXTENDS Naturals, Sequences

CONSTANTS
    MaxTrips,    \* requests the server takes in one behaviour
    MaxNet,      \* messages in flight per direction
    MaxRestarts  \* relaunches of either phone, and the client's log-outs

ASSUME SystemBounds == /\ MaxTrips \in Nat
                       /\ MaxNet \in Nat
                       /\ MaxRestarts \in Nat

VARIABLES
    trip,        \* the server's record: [id, status]
    reached,     \* the server has passed on `reached' for this trip
    cl,          \* the client's phone
    pv,          \* the provider's phone
    toC, toP,    \* the request socket, from the server
    fromC, fromP,\* the request socket, to the server
    otpShown,    \* trips whose OTP the client's sheet has shown
    restarts

netVars == <<toC, toP, fromC, fromP>>
vars == <<trip, reached, cl, pv, netVars, otpShown, restarts>>

-----------------------------------------------------------------------------
Ids      == 0 .. MaxTrips
Statuses == {"none", "requested", "accepted", "started", "ended", "cancelled"}
Messages == [type : {"trip_accepted", "trip_cancelled", "reached",
                     "Trip_Started", "Trip_Ended"}, id : Ids]

ClientStages   == {"launching", "dashboard", "waiting", "matching", "sheet",
                   "trip", "running", "rating"}
ProviderStages == {"launching", "dashboard", "offered", "routing", "sheet",
                   "start", "running", "rating"}

\* The client's phone: left is a sheet that stayed up over the trip screen it
\* pushed, late a list call of a dashboard that was logged out of, recovered
\* is doesRequestExist, found and begun the trip found then and whether it had
\* started.  The provider's phone: asked says that currentRequest holds a
\* request, pv.id's, and not [:].

TypeOK ==
    /\ trip \in [id : Ids, status : Statuses] /\ reached \in BOOLEAN
    /\ cl \in [stage : ClientStages, id : Ids, left : BOOLEAN,
               slot : {"dash", "oldDash", "sheet", "trip"}, late : BOOLEAN,
               open : BOOLEAN, posted : BOOLEAN,
               recovered : BOOLEAN, found : Ids, begun : BOOLEAN,
               lapse : BOOLEAN]
    /\ pv \in [stage : ProviderStages, id : Ids, asked : BOOLEAN,
               slot : {"none", "dash", "sheet"},
               socket : {"down", "connecting", "open"},
               rest : {"idle", "starting", "started", "ending", "ended"},
               lapse : BOOLEAN]
    /\ \A net \in {toC, toP, fromC, fromP} :
           net \in Seq(Messages) /\ Len(net) <= MaxNet
    /\ otpShown \subseteq Ids /\ restarts \in 0 .. MaxRestarts

NewClient   == [stage |-> "dashboard", id |-> 0, left |-> FALSE,
                slot |-> "dash", late |-> FALSE, open |-> FALSE,
                posted |-> FALSE, recovered |-> FALSE, found |-> 0,
                begun |-> FALSE, lapse |-> FALSE]
NewProvider == [stage |-> "dashboard", id |-> 0, asked |-> FALSE,
                slot |-> "none", socket |-> "down", rest |-> "idle",
                lapse |-> FALSE]

Init ==
    /\ trip = [id |-> 0, status |-> "none"] /\ reached = FALSE
    /\ cl = NewClient /\ pv = NewProvider
    /\ toC = <<>> /\ toP = <<>> /\ fromC = <<>> /\ fromP = <<>>
    /\ otpShown = {} /\ restarts = 0

Message(type, id) == [type |-> type, id |-> id]

\* The server tells a phone; without an open socket nobody hears it.
TellClient(type, id) ==
    IF cl.open
    THEN /\ Len(toC) < MaxNet
         /\ toC' = Append(toC, Message(type, id)) /\ UNCHANGED cl
    ELSE cl' = [cl EXCEPT !.lapse = TRUE] /\ UNCHANGED toC

TellProvider(type, id) ==
    IF pv.socket = "open"
    THEN /\ Len(toP) < MaxNet
         /\ toP' = Append(toP, Message(type, id)) /\ UNCHANGED pv
    ELSE pv' = [pv EXCEPT !.lapse = TRUE] /\ UNCHANGED toP

-----------------------------------------------------------------------------
(***************************************************************************)
(* The client's phone                                                      *)
(***************************************************************************)

\* postRequest up to the moment the server has taken the request.
postRequest ==
    /\ cl.stage = "dashboard" /\ ~cl.posted
    /\ trip.status \notin {"accepted", "started"} /\ trip.id < MaxTrips
    /\ trip' = [id |-> trip.id + 1, status |-> "requested"]
    /\ reached' = FALSE
    /\ cl' = [cl EXCEPT !.posted = TRUE]
    /\ UNCHANGED <<pv, netVars, otpShown, restarts>>

\* Its answer: the overlay, and a new request socket; what was on its way on
\* the old one is gone.
postRequestSucceeds ==
    /\ cl.posted
    /\ cl' = [cl EXCEPT !.posted = FALSE, !.open = TRUE,
                        !.stage = IF @ = "dashboard" THEN "waiting" ELSE @,
                        !.lapse = @ \/ toC # <<>>]
    /\ toC' = <<>>
    /\ UNCHANGED <<trip, reached, pv, toP, fromC, fromP, otpShown, restarts>>

postRequestFails ==
    /\ cl.posted
    /\ cl' = [cl EXCEPT !.posted = FALSE]
    /\ UNCHANGED <<trip, reached, pv, netVars, otpShown, restarts>>

\* The 120 s timer hides the overlay; the request stays.
overlayTimerFires ==
    /\ cl.stage = "waiting"
    /\ cl' = [cl EXCEPT !.stage = "dashboard"]
    /\ UNCHANGED <<trip, reached, pv, netVars, otpShown, restarts>>

\* cancelRequestThroughWS: a request that is already accepted stays accepted.
cancelRequestThroughWS ==
    /\ cl.stage = "waiting"
    /\ cl' = [cl EXCEPT !.stage = "dashboard"]
    /\ trip' = IF trip.status = "requested"
               THEN [trip EXCEPT !.status = "cancelled"] ELSE trip
    /\ UNCHANGED <<reached, pv, netVars, otpShown, restarts>>

\* onMessage of whichever client screen holds the delegate slot.  `over': an
\* alert, the cancellation form or the camera is over the sheet, and is what
\* the sheet's dismiss removes; a trip screen is then pushed under the sheet.
ClientHears(m, over) ==
    CASE cl.slot = "dash" /\ m.type = "trip_accepted" ->
           [cl EXCEPT !.stage = "matching", !.id = m.id]
      [] cl.slot = "sheet" /\ cl.stage = "sheet" /\ m.type = "reached" ->
           [cl EXCEPT !.stage = IF cl.recovered THEN "running" ELSE "trip",
                      !.slot = "trip", !.left = over, !.lapse = @ \/ over]
      [] cl.slot = "sheet" /\ cl.stage = "sheet" /\ m.type = "trip_cancelled" ->
           [cl EXCEPT !.stage = IF over THEN @ ELSE "dashboard",
                      !.lapse = @ \/ over]
      [] cl.slot = "sheet" /\ cl.stage = "sheet" /\ m.type = "Trip_Started"
         /\ cl.recovered ->
           [cl EXCEPT !.stage = "trip", !.slot = "trip", !.left = over,
                      !.recovered = FALSE, !.found = 0, !.begun = FALSE,
                      !.lapse = TRUE]
      [] cl.slot = "trip" /\ cl.stage \in {"trip", "running"}
         /\ m.type = "Trip_Started" ->
           [cl EXCEPT !.stage = "running"]
      [] cl.slot = "trip" /\ cl.stage \in {"trip", "running"}
         /\ m.type = "Trip_Ended" ->
           [cl EXCEPT !.stage = "rating"]
      [] OTHER -> [cl EXCEPT !.lapse = TRUE]

\* The sheet that a dismissal has left in the slot cannot push the trip
\* screen: the process ends (ClientApp), which is a relaunch here.
DismissedSheetHears ==
    /\ toC # <<>> /\ cl.slot = "sheet" /\ cl.stage # "sheet"
    /\ \/ Head(toC).type = "reached"
       \/ Head(toC).type = "Trip_Started" /\ cl.recovered

\* Mutant: a message without an answer goes back to the end of the queue.
clientOnMessage_Requeues ==
    /\ toC # <<>> /\ ~DismissedSheetHears
    /\ LET heard == ClientHears(Head(toC), FALSE) IN
       IF heard.lapse /\ ~cl.lapse
       THEN toC' = Append(Tail(toC), Head(toC)) /\ UNCHANGED cl
       ELSE toC' = Tail(toC) /\ cl' = heard
    /\ UNCHANGED <<trip, reached, pv, toP, fromC, fromP, otpShown, restarts>>

clientOnMessage ==
    /\ toC # <<>> /\ ~DismissedSheetHears
    /\ \E over \in BOOLEAN : cl' = ClientHears(Head(toC), over)
    /\ toC' = Tail(toC)
    /\ UNCHANGED <<trip, reached, pv, toP, fromC, fromP, otpShown, restarts>>

\* callDistanceMatrixAPI: the sheet opens and shows the OTP, or nothing ever
\* opens it.
distanceMatrixSucceeds ==
    /\ cl.stage = "matching"
    /\ cl' = [cl EXCEPT !.stage = "sheet", !.slot = "sheet"]
    /\ otpShown' = otpShown \union {cl.id}
    /\ UNCHANGED <<trip, reached, pv, netVars, restarts>>

distanceMatrixFails ==
    /\ cl.stage = "matching"
    /\ cl' = [cl EXCEPT !.stage = "dashboard", !.lapse = TRUE]
    /\ UNCHANGED <<trip, reached, pv, netVars, otpShown, restarts>>

\* CancelRequest of the client's sheet, in either of its two forms; the two
\* nested dismissals of the charged one may leave the sheet.  One that stayed
\* over its trip screen uncovers it.
clientCancelsTrip(stays) ==
    /\ cl.stage = "sheet" \/ cl.left
    /\ IF cl.open
       THEN /\ Len(fromC) < MaxNet
            /\ fromC' = Append(fromC, Message("trip_cancelled", cl.id))
       ELSE UNCHANGED fromC
    /\ cl' = [cl EXCEPT !.stage = IF stays \/ cl.left THEN @ ELSE "dashboard",
                        !.left = @ /\ stays, !.lapse = @ \/ stays]
    /\ UNCHANGED <<trip, reached, pv, toC, toP, fromP, otpShown, restarts>>

\* submitReview, or the back button of the trip screen.
clientLeavesTrip ==
    /\ cl.stage \in {"trip", "running", "rating"} /\ ~cl.left
    /\ cl' = [cl EXCEPT !.stage = "dashboard"]
    /\ UNCHANGED <<trip, reached, pv, netVars, otpShown, restarts>>

\* The client's end of the request socket is lost; nothing reconnects it.
clientDisconnects ==
    /\ cl.open
    /\ cl' = [cl EXCEPT !.open = FALSE, !.lapse = @ \/ toC # <<>>]
    /\ toC' = <<>>
    /\ UNCHANGED <<trip, reached, pv, toP, fromC, fromP, otpShown, restarts>>

\* The process ends, killed or by its fault, and is started again.
clientRelaunches ==
    /\ \/ restarts < MaxRestarts /\ restarts' = restarts + 1
       \/ DismissedSheetHears /\ UNCHANGED restarts
    /\ cl' = [NewClient EXCEPT !.stage = "launching"]
    /\ toC' = <<>>
    /\ UNCHANGED <<trip, reached, pv, toP, fromC, fromP, otpShown>>

\* `Log Out?', YES: the request socket is disconnected, the application
\* delegate keeps what it remembers.  The list of a dashboard that has not
\* come up yet may answer only after the next one's.
clientLogsOut ==
    /\ cl.stage \in {"launching", "dashboard", "waiting", "matching"}
    /\ ~cl.posted
    /\ restarts < MaxRestarts /\ restarts' = restarts + 1
    /\ \E late \in {cl.late, cl.stage = "launching"} :
           cl' = [cl EXCEPT !.stage = "launching", !.late = late,
                            !.open = FALSE]
    /\ toC' = <<>>
    /\ UNCHANGED <<trip, reached, pv, toP, fromC, fromP, otpShown>>

\* The dashboard behind the sheet or the trip screen of a remembered trip;
\* UIKit may refuse the sheet, but the socket is there.
Recovered(id, begun, opens, lag) ==
    [cl EXCEPT !.stage = IF begun THEN "running"
                         ELSE IF opens THEN "sheet" ELSE "dashboard",
               !.slot = IF begun THEN "trip"
                        ELSE IF opens THEN "sheet" ELSE "dash",
               !.id = id, !.open = TRUE, !.recovered = TRUE, !.found = id,
               !.begun = begun, !.lapse = lag \/ ~(begun \/ opens)]

\* checkClientTripExist and checkIfTripExists: the sheet for an accepted
\* trip, whether or not the provider has reached the client or an earlier
\* cancellation is still on its way; the trip screen for a started one.  A
\* login may come to the dashboard without asking the server, and so does a
\* check that fails; the trip that is remembered then opens again.
clientCheckIfTripExists(asks, opens) ==
    /\ cl.stage = "launching"
    /\ LET underWay == trip.status \in {"accepted", "started"} IN
       \/ /\ asks /\ underWay
          /\ cl' = Recovered(trip.id, trip.status = "started", opens,
                             \/ trip.status = "accepted" /\ reached
                             \/ fromC # <<>>)
       \/ /\ ~(asks /\ underWay) /\ cl.recovered
          /\ cl' = Recovered(cl.found, cl.begun, opens, TRUE)
       \/ /\ ~(asks /\ underWay) /\ ~cl.recovered
          /\ cl' = [NewClient EXCEPT !.late = cl.late, !.lapse = underWay]
    /\ otpShown' = IF cl'.stage = "sheet" THEN otpShown \union {cl'.id}
                   ELSE otpShown
    /\ UNCHANGED <<trip, reached, pv, netVars, restarts>>

\* The late list of a dashboard of an earlier login: that object takes the
\* delegate slot, and replaces the socket for a trip that is remembered.
lateListAnswers ==
    /\ cl.late /\ cl.stage # "launching"
    /\ IF cl.recovered
       THEN /\ cl' = [cl EXCEPT !.late = FALSE, !.slot = "oldDash",
                                !.open = TRUE, !.lapse = @ \/ toC # <<>>]
            /\ toC' = <<>>
       ELSE /\ cl' = [cl EXCEPT !.late = FALSE, !.slot = "oldDash"]
            /\ UNCHANGED toC
    /\ UNCHANGED <<trip, reached, pv, toP, fromC, fromP, otpShown, restarts>>

-----------------------------------------------------------------------------
(***************************************************************************)
(* The provider's phone                                                    *)
(***************************************************************************)

\* switchValueChanged, off and on again: the dashboard takes the slot that a
\* sheet has left behind.
switchValueChanged ==
    /\ pv.stage = "dashboard"
    /\ pv' = [pv EXCEPT !.slot = "dash"]
    /\ UNCHANGED <<trip, reached, cl, netVars, otpShown, restarts>>

\* onMessage of the dashboard: a request on the provider's own socket, which
\* replaces the one before, also one whose acceptance is not written yet.
onProviderMessage ==
    /\ pv.stage \in {"dashboard", "offered"} /\ pv.slot = "dash"
    /\ trip.status = "requested" /\ trip.id # pv.id
    /\ pv' = [pv EXCEPT !.stage = "offered", !.id = trip.id, !.asked = TRUE]
    /\ UNCHANGED <<trip, reached, cl, netVars, otpShown, restarts>>

\* The ring hides the offer; currentRequest keeps it.
ringFinishes ==
    /\ pv.stage = "offered"
    /\ pv' = [pv EXCEPT !.stage = "dashboard"]
    /\ UNCHANGED <<trip, reached, cl, netVars, otpShown, restarts>>

\* cancelRequest, from btnCancelRequest or for the client's cancellation: it
\* empties currentRequest.
cancelRequest ==
    /\ \/ pv.stage = "offered"
       \/ /\ pv.stage = "dashboard" /\ pv.slot = "dash" /\ pv.asked
          /\ trip.id # pv.id \/ trip.status = "cancelled"
    /\ pv' = [pv EXCEPT !.stage = "dashboard", !.asked = FALSE]
    /\ UNCHANGED <<trip, reached, cl, netVars, otpShown, restarts>>

\* btnAcceptRequest: a new request socket, and what was on its way on the old
\* one is gone.
btnAcceptRequest ==
    /\ pv.stage = "offered"
    /\ pv' = [pv EXCEPT !.stage = "dashboard", !.socket = "connecting",
                        !.lapse = @ \/ toP # <<>>]
    /\ toP' = <<>>
    /\ UNCHANGED <<trip, reached, cl, toC, fromC, fromP, otpShown, restarts>>

\* Mutant: the sheet opens without waiting for the server's answer.
onConnect_OpensSheet ==
    /\ pv.socket = "connecting"
    /\ pv' = [pv EXCEPT !.socket = "open", !.stage = "sheet", !.slot = "sheet"]
    /\ Len(fromP) < MaxNet
    /\ fromP' = Append(fromP, Message("trip_accepted", pv.id))
    /\ UNCHANGED <<trip, reached, cl, toC, toP, fromC, otpShown, restarts>>

\* An emptied currentRequest has no ClientId to write: the process ends.
ConnectsForNothing ==
    pv.socket = "connecting" /\ pv.slot = "dash" /\ ~pv.asked

\* onConnect of the dashboard writes the acceptance, of the request that
\* currentRequest holds at this moment.
onConnect ==
    /\ pv.socket = "connecting" /\ ~ConnectsForNothing
    /\ pv' = [pv EXCEPT !.socket = "open"]
    /\ IF pv.slot = "dash"
       THEN /\ Len(fromP) < MaxNet
            /\ fromP' = Append(fromP, Message("trip_accepted", pv.id))
       ELSE UNCHANGED fromP
    /\ UNCHANGED <<trip, reached, cl, toC, toP, fromC, otpShown, restarts>>

\* Mutant: the sheet stays when the client cancels.
ProviderHears_KeepsSheet(m, over) ==
    IF pv.slot = "dash" /\ m.type = "trip_accepted"
    THEN [pv EXCEPT !.stage = "routing", !.id = m.id] ELSE pv

\* onMessage, request socket: the dashboard hears trip_accepted, the sheet
\* trip_cancelled, which removes only what is over it if there is something;
\* the trip screen never takes the slot from the sheet.
ProviderHears(m, over) ==
    CASE pv.slot = "dash" /\ m.type = "trip_accepted" ->
           [pv EXCEPT !.stage = "routing", !.id = m.id]
      [] pv.slot = "sheet" /\ pv.stage = "sheet" /\ m.type = "trip_cancelled" ->
           [pv EXCEPT !.stage = IF over THEN @ ELSE "dashboard",
                      !.lapse = @ \/ over]
      [] OTHER -> [pv EXCEPT !.lapse = TRUE]

providerOnMessage ==
    /\ toP # <<>>
    /\ \E over \in BOOLEAN : pv' = ProviderHears(Head(toP), over)
    /\ toP' = Tail(toP)
    /\ UNCHANGED <<trip, reached, cl, toC, fromC, fromP, otpShown, restarts>>

\* callDistanceAPI: the sheet opens, or nothing ever opens it.
directionsSucceed ==
    /\ pv.stage = "routing"
    /\ pv' = [pv EXCEPT !.stage = "sheet", !.slot = "sheet"]
    /\ UNCHANGED <<trip, reached, cl, netVars, otpShown, restarts>>

directionsFail ==
    /\ pv.stage = "routing"
    /\ pv' = [pv EXCEPT !.stage = "dashboard", !.lapse = TRUE]
    /\ UNCHANGED <<trip, reached, cl, netVars, otpShown, restarts>>

\* CancelRequest and a correct OTP both write to the request socket, and go
\* on whether or not the write leaves the phone.
ProviderWrites(type) ==
    IF pv.socket = "open"
    THEN /\ Len(fromP) < MaxNet
         /\ fromP' = Append(fromP, Message(type, pv.id))
    ELSE UNCHANGED fromP

providerCancelsTrip ==
    /\ pv.stage = "sheet"
    /\ ProviderWrites("trip_cancelled")
    /\ pv' = [pv EXCEPT !.stage = "dashboard"]
    /\ UNCHANGED <<trip, reached, cl, toC, toP, fromC, otpShown, restarts>>

\* Mutant: the sheet goes on without comparing the code.
textFieldEditingChanged_AnyCode ==
    /\ pv.stage = "sheet"
    /\ ProviderWrites("reached")
    /\ pv' = [pv EXCEPT !.stage = "start"]
    /\ UNCHANGED <<trip, reached, cl, toC, toP, fromC, otpShown, restarts>>

\* textFieldEditingChanged: the code is compared on the phone, with what the
\* client reads out from the client's own sheet.
textFieldEditingChanged ==
    /\ pv.stage = "sheet" /\ pv.id \in otpShown
    /\ ProviderWrites("reached")
    /\ pv' = [pv EXCEPT !.stage = "start"]
    /\ UNCHANGED <<trip, reached, cl, toC, toP, fromC, otpShown, restarts>>

\* btnActionPressed of StartTripViewController.
btnActionPressed ==
    /\ pv.stage \in {"start", "running"} /\ pv.rest = "idle"
    /\ pv' = [pv EXCEPT !.rest = IF pv.stage = "start" THEN "starting"
                                 ELSE "ending"]
    /\ UNCHANGED <<trip, reached, cl, netVars, otpShown, restarts>>

\* Its answer, when the server has taken the call; an error leaves the screen
\* as it was, whatever the server has done.
startEndAnswers ==
    /\ pv.rest # "idle"
    /\ \/ /\ pv.rest \in {"started", "ended"}
          /\ pv' = [pv EXCEPT !.rest = "idle",
                       !.stage = IF pv.rest = "started" THEN "running"
                                 ELSE "rating"]
       \/ pv' = [pv EXCEPT !.rest = "idle",
                    !.lapse = @ \/ pv.rest \in {"started", "ended"}]
    /\ UNCHANGED <<trip, reached, cl, netVars, otpShown, restarts>>

\* submitReview, or the back button.
providerLeavesTrip ==
    /\ pv.stage \in {"start", "running", "rating"} /\ pv.rest = "idle"
    /\ pv' = [pv EXCEPT !.stage = "dashboard"]
    /\ UNCHANGED <<trip, reached, cl, netVars, otpShown, restarts>>

providerDisconnects ==
    /\ pv.socket # "down"
    /\ pv' = [pv EXCEPT !.socket = "down", !.lapse = @ \/ toP # <<>>]
    /\ toP' = <<>>
    /\ UNCHANGED <<trip, reached, cl, toC, fromC, fromP, otpShown, restarts>>

\* The process ends, killed or by its fault, and is started again.
providerRelaunches ==
    /\ \/ restarts < MaxRestarts /\ restarts' = restarts + 1
       \/ ConnectsForNothing /\ UNCHANGED restarts
    /\ pv' = [NewProvider EXCEPT !.stage = "launching"]
    /\ toP' = <<>>
    /\ UNCHANGED <<trip, reached, cl, toC, fromC, fromP, otpShown>>

\* checkProviderTripExist and checkIfTripExists: a started trip shows the
\* trip screen when the dashboard sees the flag in time; an accepted one
\* never opens its sheet, which needs a location that is not there yet.
providerCheckIfTripExists(seen) ==
    /\ pv.stage = "launching"
    /\ pv' = IF seen /\ trip.status = "started"
             THEN [NewProvider EXCEPT !.stage = "running", !.id = trip.id,
                                      !.socket = "connecting"]
             ELSE [NewProvider EXCEPT !.id = trip.id]
    /\ UNCHANGED <<trip, reached, cl, netVars, otpShown, restarts>>

-----------------------------------------------------------------------------
(***************************************************************************)
(* External: the server                                                    *)
(***************************************************************************)

\* A message of the provider: the first acceptance of the request counts, a
\* cancellation counts before the start, `reached' is passed on.
ServerReadsProvider ==
    /\ fromP # <<>> /\ fromP' = Tail(fromP)
    /\ LET m == Head(fromP) IN
       \/ /\ m.type = "trip_accepted" /\ trip = [id |-> m.id, status |-> "requested"]
          /\ trip' = [trip EXCEPT !.status = "accepted"]
          /\ TellClient("trip_accepted", m.id)
          /\ TellProvider("trip_accepted", m.id)
          /\ UNCHANGED reached
       \/ /\ m.type = "trip_cancelled" /\ trip = [id |-> m.id, status |-> "accepted"]
          /\ trip' = [trip EXCEPT !.status = "cancelled"]
          /\ TellClient("trip_cancelled", m.id)
          /\ UNCHANGED <<reached, pv, toP>>
       \/ /\ m.type = "reached" /\ trip = [id |-> m.id, status |-> "accepted"]
          /\ reached' = TRUE
          /\ TellClient("reached", m.id)
          /\ UNCHANGED <<trip, pv, toP>>
       \/ /\ trip.id # m.id \/ trip.status # IF m.type = "trip_accepted"
                                             THEN "requested" ELSE "accepted"
          /\ UNCHANGED <<trip, reached, cl, pv, toC, toP>>
    /\ UNCHANGED <<fromC, otpShown, restarts>>

ServerReadsClient ==
    /\ fromC # <<>> /\ fromC' = Tail(fromC)
    /\ IF trip = [id |-> Head(fromC).id, status |-> "accepted"]
       THEN /\ trip' = [trip EXCEPT !.status = "cancelled"]
            /\ TellProvider("trip_cancelled", trip.id)
       ELSE UNCHANGED <<trip, pv, toP>>
    /\ UNCHANGED <<reached, cl, toC, fromP, otpShown, restarts>>

\* The start/end call; a repeated one is answered alike and tells nobody.
ServerTakesStartEnd ==
    /\ pv.rest \in {"starting", "ending"} /\ trip.id = pv.id
    /\ LET from == IF pv.rest = "starting" THEN "accepted" ELSE "started"
           to   == IF pv.rest = "starting" THEN "started" ELSE "ended" IN
       /\ trip.status \in {from, to}
       /\ trip' = [trip EXCEPT !.status = to]
       /\ pv' = [pv EXCEPT !.rest = to]
       /\ IF trip.status = from
          THEN TellClient(IF to = "started" THEN "Trip_Started"
                          ELSE "Trip_Ended", trip.id)
          ELSE UNCHANGED <<cl, toC>>
    /\ UNCHANGED <<reached, toP, fromC, fromP, otpShown, restarts>>

-----------------------------------------------------------------------------
ClientStep ==
    \/ postRequest \/ postRequestSucceeds \/ postRequestFails
    \/ overlayTimerFires \/ cancelRequestThroughWS \/ clientOnMessage
    \/ distanceMatrixSucceeds \/ distanceMatrixFails
    \/ \E stays \in BOOLEAN : clientCancelsTrip(stays)
    \/ clientLeavesTrip \/ clientDisconnects \/ clientRelaunches
    \/ clientLogsOut \/ lateListAnswers
    \/ \E asks, opens \in BOOLEAN : clientCheckIfTripExists(asks, opens)

ProviderStep ==
    \/ switchValueChanged \/ onProviderMessage \/ ringFinishes
    \/ cancelRequest \/ btnAcceptRequest \/ onConnect \/ providerOnMessage
    \/ directionsSucceed \/ directionsFail
    \/ providerCancelsTrip \/ textFieldEditingChanged
    \/ btnActionPressed \/ startEndAnswers \/ providerLeavesTrip
    \/ providerDisconnects \/ providerRelaunches
    \/ \E seen \in BOOLEAN : providerCheckIfTripExists(seen)

ServerStep == ServerReadsProvider \/ ServerReadsClient \/ ServerTakesStartEnd

Next == ClientStep \/ ProviderStep \/ ServerStep

Spec == Init /\ [][Next]_vars

\* Messages on an open socket are delivered and read, and calls end.  Nothing
\* is owed by the users, and nothing keeps a socket open.
Fairness ==
    /\ WF_vars(clientOnMessage) /\ WF_vars(providerOnMessage)
    /\ WF_vars(ServerReadsClient) /\ WF_vars(ServerReadsProvider)
    /\ WF_vars(startEndAnswers)
    /\ WF_vars(distanceMatrixSucceeds \/ distanceMatrixFails)
    /\ WF_vars(directionsSucceed \/ directionsFail)
    /\ WF_vars(postRequestSucceeds \/ postRequestFails)

FairSpec == Spec /\ Fairness

-----------------------------------------------------------------------------
(***************************************************************************)
(* Properties                                                              *)
(***************************************************************************)

\* A trip starts, and is charged, only when the client's phone has shown the
\* OTP of that trip: the code is checked on the provider's phone alone, the
\* start is a REST call without it, and `reached' may never leave the phone.
StartedTripWasShown ==
    trip.status \in {"started", "ended"} => trip.id \in otpShown

Quiet == /\ toC = <<>> /\ toP = <<>> /\ fromC = <<>> /\ fromP = <<>>
         /\ ~cl.posted /\ pv.rest = "idle"

\* What a phone shows is what the server has for this trip.
ClientInStep ==
    /\ ~cl.left
    /\ cl.stage \in {"sheet", "trip", "running"} => cl.id = trip.id
    /\ cl.stage = "sheet" => trip.status = "accepted" /\ ~reached
    /\ cl.stage = "trip" => trip.status = "accepted" /\ reached
    /\ cl.stage = "running" /\ ~cl.recovered => trip.status = "started"
    /\ cl.stage = "rating" /\ cl.id = trip.id => trip.status = "ended"

ProviderInStep ==
    /\ pv.stage \in {"sheet", "start", "running"} => pv.id = trip.id
    /\ pv.stage \in {"sheet", "start"} => trip.status = "accepted"
    /\ pv.stage = "running" => trip.status = "started"
    /\ pv.stage = "rating" /\ pv.id = trip.id => trip.status = "ended"

\* When nothing is on its way, a phone that shows a stage the trip is not in
\* has had one of the lapses: the handlers of the screens, in the order the
\* two users and the server make them run, leave no other way to disagree.
DisagreementHasCause ==
    Quiet => /\ cl.lapse \/ ClientInStep
             /\ pv.lapse \/ ProviderInStep

\* A screen that lags behind the trip (a sheet of a cancelled trip, a clock
\* of an ended one) is put right, or its phone has had a lapse.
PhonesCatchUp == []<>(cl.lapse \/ ClientInStep)

Life == INSTANCE TripLife WITH
    life <- trip,
    client <- [stage |-> IF cl.left THEN "accepted" ELSE
                         CASE cl.stage = "sheet"   -> "accepted"
                           [] cl.stage = "trip"    -> "reached"
                           [] cl.stage = "running" -> IF cl.recovered
                                                      THEN "reached"
                                                      ELSE "started"
                           [] cl.stage = "rating"  -> "ended"
                           [] OTHER                -> "none",
               id |-> cl.id],
    provider <- [stage |-> CASE pv.stage = "sheet"   -> "accepted"
                             [] pv.stage = "start"   -> "reached"
                             [] pv.stage = "running" -> "started"
                             [] pv.stage = "rating"  -> "ended"
                             [] OTHER                -> "none",
                 id |-> pv.id]

\* Neither phone ever shows a stage the server has not come to, nor goes back
\* within a trip, over losses, retries, stale acceptances and relaunches.
RefinesTripLife == Life!Spec
=============================================================================
