----------------------------- MODULE ProviderApp -----------------------------
(***************************************************************************)
(* The provider's phone: the dashboard with its online switch and incoming *)
(* requests, the client sheet with the OTP, the start/end trip screen, and *)
(* the two sockets and two delegate slots (WebSocketManager, location      *)
(* manager) they share.                                                    *)
(*                                                                         *)
(* A failed force-unwrap ends the process: `fault' names the value that    *)
(* was missing, and only Relaunch is enabled.                              *)
(*                                                                         *)
(* Clients, other providers and the server are external: requests are      *)
(* numbered, one trip exists at a time, messages arrive in order and only  *)
(* over an open socket.  Distances, map drawing and labels are left out.   *)
(***************************************************************************)
EXTENDS Naturals, Sequences

CONSTANTS
    MaxRequests,        \* requests made by clients in one behaviour
    MaxNet,             \* messages in flight per socket and direction
    MaxKills,           \* times the app is killed
    AcceptHasStartTime  \* whether a live trip_accepted carries TripStartTime

ASSUME ProviderBounds == /\ MaxRequests \in Nat
                         /\ MaxNet \in Nat
                         /\ MaxKills \in Nat
                         /\ AcceptHasStartTime \in BOOLEAN

VARIABLES
    fault, background, kills,
    tab,                    \* selectedIndex of the tab bar is 0
    boot,                   \* "home", or the dashboard exists
    doesRequestExist,       \* AppDelegate: a trip was found at launch
    showUI,                 \* AppDelegate.showRequestUI
    latitude,               \* the dashboard has had a location fix
    swchStatus,             \* the online switch
    currentRequest,         \* the request on offer: nil, [:] or a request
    requestView,            \* the request is on screen
    ring,                   \* the 120 s ring of the request view runs
    requestDetail,          \* request kept for the notification, 0 if none
    currentAcceptedRequest, \* accepted trip, 0 if nil
    timerRef,               \* the Timer in `timer' is running
    timers,                 \* running 30 s location timers
    clientMarker,           \* the map shows a client
    directions,             \* getDirections calls in flight
    sheet,                  \* TripClientDetailViewController
    startTrip,              \* StartTripViewController
    rest,                   \* its start/end call
    wsDelegate,             \* WebSocketManager.delegate
    locDelegate,            \* ClientProviderLocationManager.delegate
    provSocket, provNet,    \* providerConnectionSocket and what it brings
    reqSocket, reqNet,      \* clientproviderRequestSocket and what it brings
    reqClient,              \* the request whose ClientId it connects with
    up,                     \* external: written on the request socket
    request, trip           \* external: the server's latest request and trip

lifeVars == <<background, kills>>
flagVars == <<doesRequestExist, showUI>>
dashVars == <<latitude, swchStatus, requestDetail>>
viewVars == <<currentRequest, requestView, ring>>
tripVars == <<currentAcceptedRequest, timerRef, timers, clientMarker,
              directions>>
provVars == <<provSocket, provNet>>
reqVars  == <<reqSocket, reqNet, reqClient>>
slotVars == <<wsDelegate, locDelegate>>
srvVars  == <<up, request, trip>>
vars == <<fault, lifeVars, tab, boot, flagVars, dashVars, viewVars, tripVars,
          sheet, startTrip, rest, slotVars, provVars, reqVars, srvVars>>

-----------------------------------------------------------------------------
Ids     == 0 .. MaxRequests
Sockets == {"nil", "connecting", "open", "closed"}
Faults  == {"none", "latitude", "currentRequest.latitude",
            "currentRequest.ClientId", "TripStartTime", "reachedDate",
            "error"}

\* currentRequest: nil before the first request, [:] has id 0.
Offers  == [nil : BOOLEAN, id : Ids]
NoOffer == [nil |-> TRUE, id |-> 0]
Offer(id) == [nil |-> FALSE, id |-> id]

ProvMessages == [type : {"requested", "cancelled", "trip_accepted"}, id : Ids]
ReqMessages  == [type : {"trip_accepted", "trip_cancelled"}, id : Ids]
UpMessages   == [type : {"trip_accepted", "trip_cancelled", "reached"},
                 id : Ids]

NoSheet     == [shown |-> FALSE, id |-> 0]
NoStartTrip == [shown |-> FALSE, id |-> 0, isTripStarted |-> FALSE,
                ended |-> FALSE]

Alive       == fault = "none"
Foreground  == Alive /\ ~background
DashVisible == boot = "ready" /\ tab /\ ~sheet.shown /\ ~startTrip.shown

TypeOK ==
    /\ fault \in Faults
    /\ background \in BOOLEAN /\ kills \in 0 .. MaxKills
    /\ tab \in BOOLEAN /\ boot \in {"home", "ready"}
    /\ doesRequestExist \in BOOLEAN /\ showUI \in BOOLEAN
    /\ latitude \in BOOLEAN /\ swchStatus \in BOOLEAN
    /\ currentRequest \in Offers
    /\ requestView \in BOOLEAN /\ ring \in BOOLEAN
    /\ requestDetail \in Ids /\ currentAcceptedRequest \in Ids
    /\ timerRef \in BOOLEAN /\ timers \in Nat
    /\ clientMarker \in BOOLEAN /\ directions \in Nat
    /\ sheet \in [shown : BOOLEAN, id : Ids]
    /\ startTrip \in [shown : BOOLEAN, id : Ids, isTripStarted : BOOLEAN,
                      ended : BOOLEAN]
    /\ rest \in {"idle", "starting", "started", "ending", "ended"}
    /\ wsDelegate \in {"none", "dash", "sheet"}
    /\ locDelegate \in {"none", "dash", "sheet", "trip"}
    /\ provSocket \in Sockets /\ provNet \in Seq(ProvMessages)
    /\ reqSocket \in Sockets /\ reqNet \in Seq(ReqMessages)
    /\ reqClient \in Ids
    /\ up \in Seq(UpMessages)
    /\ request \in [id : Ids, status : {"none", "open", "taken", "cancelled"}]
    /\ trip \in [id : Ids, status : {"none", "accepted", "started", "ended",
                                     "cancelled"}]

\* A process that has just started, next to a server without requests.
Init ==
    /\ fault = "none" /\ background = FALSE /\ kills = 0
    /\ tab = TRUE /\ boot = "home"
    /\ doesRequestExist = FALSE /\ showUI = FALSE
    /\ latitude = FALSE /\ swchStatus = FALSE /\ requestDetail = 0
    /\ currentRequest = NoOffer /\ requestView = FALSE /\ ring = FALSE
    /\ currentAcceptedRequest = 0 /\ timerRef = FALSE /\ timers = 0
    /\ clientMarker = FALSE /\ directions = 0
    /\ sheet = NoSheet /\ startTrip = NoStartTrip /\ rest = "idle"
    /\ wsDelegate = "none" /\ locDelegate = "none"
    /\ provSocket = "nil" /\ provNet = <<>>
    /\ reqSocket = "nil" /\ reqNet = <<>> /\ reqClient = 0
    /\ up = <<>>
    /\ request = [id |-> 0, status |-> "none"]
    /\ trip = [id |-> 0, status |-> "none"]

-----------------------------------------------------------------------------
(***************************************************************************)
(* Pieces of the dashboard                                                 *)
(***************************************************************************)
connectClientProviderRequestSocket(id) ==
    reqSocket' = "connecting" /\ reqNet' = <<>> /\ reqClient' = id

\* timer.invalidate() stops the Timer that `timer' refers to, if it runs.
Invalidated == IF timerRef THEN timers - 1 ELSE timers

invalidateTimer == timers' = Invalidated /\ timerRef' = FALSE

\* Mutant: the new timer is scheduled without stopping the running one.
scheduleTimer_NoInvalidate == timers' = timers + 1 /\ timerRef' = TRUE

\* invalidate, then scheduledTimer of 30 s.
scheduleTimer == timers' = Invalidated + 1 /\ timerRef' = TRUE

\* requestSocketToChangeStatusOrLocation, for the given position of the
\* switch: online connects a new socket and takes the delegate slot; offline
\* asks for a disconnection and stops the location timer.
requestSocketToChangeStatusOrLocation(isOn) ==
    IF isOn
    THEN /\ provSocket' = "connecting" /\ provNet' = <<>>
         /\ wsDelegate' = "dash"
         /\ UNCHANGED <<timerRef, timers>>
    ELSE /\ invalidateTimer
         /\ UNCHANGED <<provSocket, provNet, wsDelegate>>

\* Mutant: the offer is emptied but stays on screen.
cancelRequest_KeepsView ==
    currentRequest' = Offer(0) /\ UNCHANGED <<requestView, ring>>

\* cancelRequest: the offer disappears; currentRequest is [:], not nil.
cancelRequest ==
    requestView' = FALSE /\ currentRequest' = Offer(0) /\ UNCHANGED ring

\* showRequestUI: a request that arrives while another one is on screen
\* replaces it and keeps its ring.
showRequestUI(id) ==
    /\ currentRequest' = Offer(id)
    /\ IF requestView
       THEN UNCHANGED <<requestView, ring, fault>>
       ELSE IF latitude
       THEN requestView' = TRUE /\ ring' = TRUE /\ UNCHANGED fault
       ELSE fault' = "latitude" /\ UNCHANGED <<requestView, ring>>

\* Mutants: a sheet for the request on offer, one that only takes the
\* location slot, and one that comes up whatever is shown.
openBottomSheet_OfOffer(id, hasStart) ==
    /\ sheet' = [shown |-> TRUE, id |-> currentRequest.id]
    /\ wsDelegate' = "sheet" /\ locDelegate' = "sheet"
    /\ UNCHANGED fault

openBottomSheet_NoSlot(id, hasStart) ==
    /\ sheet' = [shown |-> TRUE, id |-> id] /\ locDelegate' = "sheet"
    /\ UNCHANGED <<fault, wsDelegate>>

openBottomSheet_OverTrip(id, hasStart) ==
    \/ /\ ~latitude
       /\ fault' = "latitude" /\ UNCHANGED <<sheet, slotVars>>
    \/ /\ latitude /\ doesRequestExist /\ ~hasStart
       /\ fault' = "TripStartTime" /\ UNCHANGED <<sheet, slotVars>>
    \/ /\ latitude /\ (doesRequestExist => hasStart)
       /\ sheet' = [shown |-> TRUE, id |-> id]
       /\ wsDelegate' = "sheet" /\ locDelegate' = "sheet"
       /\ UNCHANGED fault

\* openBottomSheet with TripClientDetailViewController.viewDidLoad: a second
\* or off-screen presentation is refused; a trip found at launch must have
\* TripStartTime; the sheet takes both delegate slots.
openBottomSheet(id, hasStart) ==
    \/ /\ ~latitude
       /\ fault' = "latitude" /\ UNCHANGED <<sheet, slotVars>>
    \/ /\ latitude /\ (sheet.shown \/ startTrip.shown)
       /\ UNCHANGED <<fault, sheet, slotVars>>
    \/ /\ latitude /\ ~sheet.shown /\ ~startTrip.shown
       /\ doesRequestExist /\ ~hasStart
       /\ fault' = "TripStartTime" /\ UNCHANGED <<sheet, slotVars>>
    \/ /\ latitude /\ ~sheet.shown /\ ~startTrip.shown
       /\ doesRequestExist => hasStart
       /\ sheet' = [shown |-> TRUE, id |-> id]
       /\ wsDelegate' = "sheet" /\ locDelegate' = "sheet"
       /\ UNCHANGED fault

\* viewWillAppear of the dashboard: it takes the location slot back and, when
\* the map shows a client, stops the location timer.
viewWillAppear ==
    /\ locDelegate' = "dash"
    /\ IF clientMarker THEN invalidateTimer ELSE UNCHANGED <<timerRef, timers>>

\* The sheet is dismissed, and the popup's transition makes the tab under it
\* appear; what another tab does with the location slot is Location's matter.
closeSheet ==
    /\ sheet' = [sheet EXCEPT !.shown = FALSE]
    /\ IF tab THEN viewWillAppear ELSE UNCHANGED <<locDelegate, timerRef, timers>>

TripScreen(id, recovered) ==
    [shown |-> TRUE, id |-> id, isTripStarted |-> recovered, ended |-> FALSE]

\* StartTripViewController.viewDidLoad.
pushStartTrip(id, recovered) ==
    startTrip' = TripScreen(id, recovered) /\ locDelegate' = "trip"

-----------------------------------------------------------------------------
(***************************************************************************)
(* Launch                                                                  *)
(***************************************************************************)

\* checkProviderTripExist presents the dashboard before it sets the flag:
\* whether the dashboard's viewDidLoad already sees the trip is up to UIKit.
\* checkIfTripExists: an accepted trip opens the sheet, which needs a
\* location that a dashboard being loaded does not have; any other trip opens
\* the trip screen.
checkProviderTripExist(success, seen) ==
    /\ Alive /\ boot = "home"
    /\ boot' = "ready"
    /\ doesRequestExist' = (success /\ trip.status \in {"accepted", "started"})
    /\ IF doesRequestExist' /\ seen
       THEN /\ currentAcceptedRequest' = trip.id
            /\ connectClientProviderRequestSocket(trip.id)
            /\ IF trip.status = "accepted"
               THEN /\ scheduleTimer
                    /\ openBottomSheet(trip.id, TRUE)
                    /\ UNCHANGED startTrip
               ELSE /\ pushStartTrip(trip.id, TRUE)
                    /\ UNCHANGED <<fault, timerRef, timers, sheet, wsDelegate>>
       ELSE /\ locDelegate' = "dash"
            /\ UNCHANGED <<fault, currentAcceptedRequest, timerRef, timers,
                           reqVars, sheet, startTrip, wsDelegate>>
    /\ UNCHANGED <<lifeVars, tab, showUI, dashVars, viewVars, clientMarker,
                   directions, rest, provVars, srvVars>>

\* tracingLocation of the dashboard: it is only called while the dashboard is
\* the location delegate, and reads the offer's position unless the offer is
\* nil; [:] has none.
tracingLocation ==
    /\ Alive /\ locDelegate = "dash"
    /\ latitude' = TRUE
    /\ fault' = IF ~currentRequest.nil /\ currentRequest.id = 0
                THEN "currentRequest.latitude" ELSE fault
    /\ UNCHANGED <<lifeVars, tab, boot, flagVars, swchStatus, requestDetail,
                   viewVars, tripVars, sheet, startTrip, rest, slotVars,
                   provVars, reqVars, srvVars>>

-----------------------------------------------------------------------------
(***************************************************************************)
(* The provider on the dashboard                                           *)
(***************************************************************************)

\* Mutant: online before the first location.
switchValueChanged_NoLatitude ==
    /\ Foreground /\ DashVisible
    /\ swchStatus' = ~swchStatus
    /\ requestSocketToChangeStatusOrLocation(~swchStatus)
    /\ UNCHANGED <<fault, lifeVars, tab, boot, flagVars, latitude,
                   requestDetail, viewVars, currentAcceptedRequest,
                   clientMarker, directions, sheet, startTrip, rest,
                   locDelegate, reqVars, srvVars>>

\* switchValueChanged: without a location the switch goes back to off.
switchValueChanged ==
    /\ Foreground /\ DashVisible
    /\ ~swchStatus => latitude
    /\ swchStatus' = ~swchStatus
    /\ requestSocketToChangeStatusOrLocation(~swchStatus)
    /\ UNCHANGED <<fault, lifeVars, tab, boot, flagVars, latitude,
                   requestDetail, viewVars, currentAcceptedRequest,
                   clientMarker, directions, sheet, startTrip, rest,
                   locDelegate, reqVars, srvVars>>

btnAcceptRequest ==
    /\ Foreground /\ DashVisible /\ requestView
    /\ IF currentRequest.id = 0
       THEN /\ fault' = "currentRequest.ClientId"
            /\ UNCHANGED <<requestView, reqVars>>
       ELSE /\ connectClientProviderRequestSocket(currentRequest.id)
            /\ requestView' = FALSE
            /\ UNCHANGED fault
    /\ UNCHANGED <<lifeVars, tab, boot, flagVars, dashVars, currentRequest,
                   ring, tripVars, sheet, startTrip, rest, slotVars, provVars,
                   srvVars>>

btnCancelRequest ==
    /\ Foreground /\ DashVisible /\ requestView
    /\ cancelRequest
    /\ UNCHANGED <<fault, lifeVars, tab, boot, flagVars, dashVars, tripVars,
                   sheet, startTrip, rest, slotVars, provVars, reqVars,
                   srvVars>>

\* Mutant: the request stays on screen when the ring is full.
ringFinishes_KeepsView ==
    /\ Alive /\ ring
    /\ ring' = FALSE
    /\ UNCHANGED <<fault, lifeVars, tab, boot, flagVars, dashVars, requestView,
                   currentRequest, tripVars, sheet, startTrip, rest, slotVars,
                   provVars, reqVars, srvVars>>

\* The ring has run for 120 s.
ringFinishes ==
    /\ Alive /\ ring
    /\ ring' = FALSE /\ requestView' = FALSE
    /\ UNCHANGED <<fault, lifeVars, tab, boot, flagVars, dashVars,
                   currentRequest, tripVars, sheet, startTrip, rest, slotVars,
                   provVars, reqVars, srvVars>>

\* Another tab and back; back runs viewWillAppear.
switchTab ==
    /\ Foreground /\ boot = "ready" /\ ~sheet.shown /\ ~startTrip.shown
    /\ tab' = ~tab
    /\ IF tab THEN UNCHANGED <<locDelegate, timerRef, timers>>
       ELSE viewWillAppear
    /\ UNCHANGED <<fault, lifeVars, boot, flagVars, dashVars, viewVars,
                   currentAcceptedRequest, clientMarker, directions, sheet,
                   startTrip, rest, wsDelegate, provVars, reqVars, srvVars>>

-----------------------------------------------------------------------------
(***************************************************************************)
(* Sockets                                                                 *)
(***************************************************************************)
providerSocketConnects ==
    /\ Alive /\ provSocket = "connecting"
    /\ provSocket' = "open"
    /\ UNCHANGED <<fault, lifeVars, tab, boot, flagVars, dashVars, viewVars,
                   tripVars, sheet, startTrip, rest, slotVars, provNet,
                   reqVars, srvVars>>

\* onConnect of the dashboard for the request socket: the acceptance is only
\* written now, for whatever currentRequest holds now.
onConnect ==
    /\ Alive /\ reqSocket = "connecting"
    /\ reqSocket' = "open" /\ reqClient' = 0
    /\ \/ /\ wsDelegate = "dash" /\ currentRequest.id = 0
          /\ fault' = "currentRequest.ClientId"
          /\ UNCHANGED up
       \/ /\ wsDelegate = "dash" /\ currentRequest.id # 0
          /\ Len(up) < MaxNet
          /\ up' = Append(up, [type |-> "trip_accepted",
                               id |-> currentRequest.id])
          /\ UNCHANGED fault
       \/ /\ wsDelegate # "dash"
          /\ UNCHANGED <<fault, up>>
    /\ UNCHANGED <<lifeVars, tab, boot, flagVars, dashVars, viewVars,
                   tripVars, sheet, startTrip, rest, slotVars, provVars,
                   reqNet, request, trip>>

\* onDisconnect of the dashboard, for either socket: the error is unwrapped
\* (it is nil when the stream just ends), and code 57 reconnects according to
\* the switch.  The other screens do nothing.
DashOnDisconnect(error) ==
    CASE wsDelegate = "dash" /\ error = "nil" ->
           /\ fault' = "error"
           /\ UNCHANGED <<provVars, wsDelegate, timerRef, timers>>
      [] wsDelegate = "dash" /\ error = "57" ->
           /\ requestSocketToChangeStatusOrLocation(swchStatus)
           /\ UNCHANGED fault
      [] OTHER -> UNCHANGED <<fault, provVars, wsDelegate, timerRef, timers>>

requestSocketDisconnects(error) ==
    /\ Alive /\ reqSocket \in {"connecting", "open"}
    /\ reqSocket' = "closed" /\ reqNet' = <<>> /\ reqClient' = 0
    /\ DashOnDisconnect(error)
    /\ UNCHANGED <<lifeVars, tab, boot, flagVars, dashVars, viewVars,
                   currentAcceptedRequest, clientMarker, directions, sheet,
                   startTrip, rest, locDelegate, srvVars>>

providerSocketDisconnects(error) ==
    /\ Alive /\ provSocket \in {"connecting", "open"}
    /\ \/ /\ wsDelegate = "dash" /\ error = "57" /\ swchStatus
          /\ DashOnDisconnect(error)
       \/ /\ ~(wsDelegate = "dash" /\ error = "57" /\ swchStatus)
          /\ provSocket' = "closed" /\ provNet' = <<>>
          /\ UNCHANGED wsDelegate
          /\ IF wsDelegate = "dash" /\ error = "57"
             THEN invalidateTimer ELSE UNCHANGED <<timerRef, timers>>
          /\ fault' = IF wsDelegate = "dash" /\ error = "nil"
                      THEN "error" ELSE fault
    /\ UNCHANGED <<lifeVars, tab, boot, flagVars, dashVars, viewVars,
                   currentAcceptedRequest, clientMarker, directions, sheet,
                   startTrip, rest, locDelegate, reqVars, srvVars>>

\* onMessage of the dashboard, provider socket.  A request that comes in the
\* background or on another tab is kept and announced by a notification.
onProviderMessage ==
    /\ Alive /\ provNet # <<>> /\ wsDelegate = "dash"
    /\ provNet' = Tail(provNet)
    /\ LET m == Head(provNet) IN
       \/ /\ m.type = "requested" /\ (background \/ ~tab)
          /\ requestDetail' = m.id
          /\ UNCHANGED <<fault, viewVars>>
       \/ /\ m.type = "requested" /\ ~background /\ tab
          /\ showRequestUI(m.id)
          /\ UNCHANGED requestDetail
       \/ /\ m.type = "cancelled"
          /\ cancelRequest
          /\ UNCHANGED <<fault, requestDetail>>
       \/ /\ m.type = "trip_accepted"
          /\ requestView' = FALSE
          /\ UNCHANGED <<fault, requestDetail, currentRequest, ring>>
    /\ UNCHANGED <<lifeVars, tab, boot, flagVars, latitude, swchStatus,
                   tripVars, sheet, startTrip, rest, slotVars, provSocket,
                   reqVars, srvVars>>

\* onMessage of the dashboard, request socket: trip_accepted.  The route is
\* asked for with the offer's position before the location timer starts.
onRequestMessage ==
    /\ Alive /\ reqNet # <<>> /\ wsDelegate = "dash"
    /\ reqNet' = Tail(reqNet)
    /\ \/ /\ Head(reqNet).type = "trip_accepted"
          /\ currentAcceptedRequest' = Head(reqNet).id
          /\ IF currentRequest.id = 0
             THEN /\ fault' = "currentRequest.latitude"
                  /\ UNCHANGED <<directions, timerRef, timers>>
             ELSE /\ directions' = directions + 1
                  /\ scheduleTimer
                  /\ UNCHANGED fault
       \/ /\ Head(reqNet).type # "trip_accepted"
          /\ UNCHANGED <<fault, currentAcceptedRequest, directions, timerRef,
                         timers>>
    /\ UNCHANGED <<lifeVars, tab, boot, flagVars, dashVars, viewVars,
                   clientMarker, sheet, startTrip, rest, slotVars, provVars,
                   reqSocket, reqClient, srvVars>>

\* callDistanceAPI, success: the offer is read again, then the sheet opens.
directionsSucceed ==
    /\ Alive /\ directions > 0
    /\ directions' = directions - 1
    /\ IF currentRequest.id = 0
       THEN /\ fault' = "currentRequest.latitude"
            /\ UNCHANGED <<clientMarker, sheet, slotVars>>
       ELSE /\ clientMarker' = TRUE
            /\ openBottomSheet(currentAcceptedRequest, AcceptHasStartTime)
    /\ UNCHANGED <<lifeVars, tab, boot, flagVars, dashVars, viewVars,
                   currentAcceptedRequest, timerRef, timers, startTrip, rest,
                   provVars, reqVars, srvVars>>

\* callDistanceAPI, failure: no sheet, although the trip is accepted.
directionsFail ==
    /\ Alive /\ directions > 0
    /\ directions' = directions - 1
    /\ UNCHANGED <<fault, lifeVars, tab, boot, flagVars, dashVars, viewVars,
                   currentAcceptedRequest, timerRef, timers, clientMarker,
                   sheet, startTrip, rest, slotVars, provVars, reqVars,
                   srvVars>>

\* onMessage of the sheet: trip_cancelled dismisses it, unless an alert or
\* the reason form is over it, which is then all that the dismiss removes.
sheetOnMessage ==
    /\ Alive /\ wsDelegate = "sheet" /\ reqNet # <<>>
    /\ reqNet' = Tail(reqNet)
    /\ \/ sheet.shown /\ Head(reqNet).type = "trip_cancelled" /\ closeSheet
       \/ UNCHANGED <<sheet, locDelegate, timerRef, timers>>
    /\ UNCHANGED <<fault, lifeVars, tab, boot, flagVars, dashVars, viewVars,
                   currentAcceptedRequest, clientMarker, directions, startTrip,
                   rest, wsDelegate, provVars, reqSocket, reqClient, srvVars>>

\* A message for which no screen has an answer.
dropMessage ==
    /\ Alive
    /\ \/ /\ wsDelegate # "dash" /\ provNet # <<>>
          /\ provNet' = Tail(provNet) /\ UNCHANGED reqNet
       \/ /\ wsDelegate = "none" /\ reqNet # <<>>
          /\ reqNet' = Tail(reqNet) /\ UNCHANGED provNet
    /\ UNCHANGED <<fault, lifeVars, tab, boot, flagVars, dashVars, viewVars,
                   tripVars, sheet, startTrip, rest, slotVars, provSocket,
                   reqSocket, reqClient, srvVars>>

-----------------------------------------------------------------------------
(***************************************************************************)
(* The client sheet and the trip screen                                    *)
(***************************************************************************)

\* A write on the request socket; dropped unless the socket is open.
Write(type, id) ==
    IF reqSocket = "open"
    THEN Len(up) < MaxNet /\ up' = Append(up, [type |-> type, id |-> id])
    ELSE UNCHANGED up

\* cancelRequest of the sheet in the first minute.
CancelRequest ==
    /\ Foreground /\ sheet.shown
    /\ Write("trip_cancelled", sheet.id)
    /\ closeSheet
    /\ UNCHANGED <<fault, lifeVars, tab, boot, flagVars, dashVars, viewVars,
                   currentAcceptedRequest, clientMarker, directions, startTrip,
                   rest, wsDelegate, provVars, reqVars, request, trip>>

\* cancelRequest of the sheet later: reachedDate is only set by
\* notifyWhenProviderHasReached, which nothing calls.
cancelAfterAMinute ==
    /\ Foreground /\ sheet.shown
    /\ fault' = "reachedDate"
    /\ UNCHANGED <<lifeVars, tab, boot, flagVars, dashVars, viewVars,
                   tripVars, sheet, startTrip, rest, slotVars, provVars,
                   reqVars, srvVars>>

\* textFieldEditingChanged with the client's OTP: the trip screen is pushed,
\* then the sheet dismissed.  Whether the tab under both still appears, and
\* takes the location slot from the trip screen, is up to UIKit.
textFieldEditingChanged ==
    /\ Foreground /\ sheet.shown
    /\ Write("reached", sheet.id)
    /\ doesRequestExist' = FALSE
    /\ sheet' = [sheet EXCEPT !.shown = FALSE]
    /\ startTrip' = TripScreen(sheet.id, FALSE)
    /\ \/ locDelegate' = "trip" /\ UNCHANGED <<timerRef, timers>>
       \/ tab /\ viewWillAppear
    /\ UNCHANGED <<fault, lifeVars, tab, boot, showUI, dashVars, viewVars,
                   currentAcceptedRequest, clientMarker, directions, rest,
                   wsDelegate, provVars, reqVars, request, trip>>

\* btnActionPressed: start or end, one REST call at a time.
btnActionPressed ==
    /\ Foreground /\ startTrip.shown /\ ~startTrip.ended /\ rest = "idle"
    /\ rest' = IF startTrip.isTripStarted THEN "ending" ELSE "starting"
    /\ UNCHANGED <<fault, lifeVars, tab, boot, flagVars, dashVars, viewVars,
                   tripVars, sheet, startTrip, slotVars, provVars, reqVars,
                   srvVars>>

\* Mutant: the screen changes whether or not the call succeeded.
startEndSucceeds_IgnoresSuccess ==
    /\ Alive /\ rest # "idle"
    /\ rest' = "idle"
    /\ startTrip' = IF startTrip.isTripStarted
                    THEN [startTrip EXCEPT !.ended = TRUE]
                    ELSE [startTrip EXCEPT !.isTripStarted = TRUE]
    /\ UNCHANGED <<fault, lifeVars, tab, boot, flagVars, dashVars, viewVars,
                   tripVars, sheet, slotVars, provVars, reqVars, srvVars>>

\* changeUIWhenTripStarts, or the rating form after the end.
startEndSucceeds ==
    /\ Alive /\ rest \in {"started", "ended"}
    /\ rest' = "idle"
    /\ startTrip' = IF rest = "started"
                    THEN [startTrip EXCEPT !.isTripStarted = TRUE]
                    ELSE [startTrip EXCEPT !.ended = TRUE]
    /\ UNCHANGED <<fault, lifeVars, tab, boot, flagVars, dashVars, viewVars,
                   tripVars, sheet, slotVars, provVars, reqVars, srvVars>>

startEndFails ==
    /\ Alive /\ rest # "idle"
    /\ rest' = "idle"
    /\ UNCHANGED <<fault, lifeVars, tab, boot, flagVars, dashVars, viewVars,
                   tripVars, sheet, startTrip, slotVars, provVars, reqVars,
                   srvVars>>

\* submitReview, or the back button: the dashboard appears again.
leaveTrip ==
    /\ Foreground /\ startTrip.shown /\ rest = "idle"
    /\ startTrip' = [startTrip EXCEPT !.shown = FALSE]
    /\ viewWillAppear
    /\ UNCHANGED <<fault, lifeVars, tab, boot, flagVars, dashVars, viewVars,
                   currentAcceptedRequest, clientMarker, directions, sheet,
                   rest, wsDelegate, provVars, reqVars, srvVars>>

-----------------------------------------------------------------------------
(***************************************************************************)
(* Life cycle                                                              *)
(***************************************************************************)
didEnterBackground ==
    /\ Foreground
    /\ background' = TRUE
    /\ UNCHANGED <<fault, kills, tab, boot, flagVars, dashVars, viewVars,
                   tripVars, sheet, startTrip, rest, slotVars, provVars,
                   reqVars, srvVars>>

\* showRequestUIAfterTransitionToForeground: neither showRequestUI nor
\* requestDetail is ever reset.
willEnterForeground ==
    /\ Alive /\ background
    /\ background' = FALSE
    /\ IF showUI /\ requestDetail # 0
       THEN showRequestUI(requestDetail)
       ELSE UNCHANGED <<viewVars, fault>>
    /\ UNCHANGED <<kills, tab, boot, flagVars, dashVars, tripVars, sheet,
                   startTrip, rest, slotVars, provVars, reqVars, srvVars>>

\* userNotificationCenter(didReceive): the tap on the notification.
didReceiveNotification ==
    /\ Foreground /\ boot = "ready" /\ requestDetail # 0
    /\ showUI' = TRUE
    /\ tab' = TRUE
    /\ IF tab \/ sheet.shown \/ startTrip.shown
       THEN UNCHANGED <<locDelegate, timerRef, timers>>
       ELSE viewWillAppear
    /\ UNCHANGED <<fault, lifeVars, boot, doesRequestExist, dashVars,
                   viewVars, currentAcceptedRequest, clientMarker, directions,
                   sheet, startTrip, rest, wsDelegate, provVars, reqVars,
                   srvVars>>

\* The process starts again: after a fault, or after a kill.
Relaunch ==
    /\ \/ ~Alive /\ UNCHANGED kills
       \/ Alive /\ kills < MaxKills /\ kills' = kills + 1
    /\ fault' = "none" /\ background' = FALSE
    /\ tab' = TRUE /\ boot' = "home"
    /\ doesRequestExist' = FALSE /\ showUI' = FALSE
    /\ latitude' = FALSE /\ swchStatus' = FALSE /\ requestDetail' = 0
    /\ currentRequest' = NoOffer /\ requestView' = FALSE /\ ring' = FALSE
    /\ currentAcceptedRequest' = 0 /\ timerRef' = FALSE /\ timers' = 0
    /\ clientMarker' = FALSE /\ directions' = 0
    /\ sheet' = NoSheet /\ startTrip' = NoStartTrip /\ rest' = "idle"
    /\ wsDelegate' = "none" /\ locDelegate' = "none"
    /\ provSocket' = "nil" /\ provNet' = <<>>
    /\ reqSocket' = "nil" /\ reqNet' = <<>> /\ reqClient' = 0
    /\ UNCHANGED srvVars

-----------------------------------------------------------------------------
(***************************************************************************)
(* External: clients, other providers and the server                       *)
(***************************************************************************)
appVars == <<fault, lifeVars, tab, boot, flagVars, dashVars, viewVars,
             tripVars, sheet, startTrip, slotVars, provSocket, reqSocket, reqClient>>

Tell(type, id) ==
    IF provSocket = "open" /\ Alive
    THEN /\ Len(provNet) < MaxNet
         /\ provNet' = Append(provNet, [type |-> type, id |-> id])
    ELSE UNCHANGED provNet

TellTrip(type, id) ==
    IF reqSocket = "open" /\ Alive
    THEN /\ Len(reqNet) < MaxNet
         /\ reqNet' = Append(reqNet, [type |-> type, id |-> id])
    ELSE UNCHANGED reqNet

ClientRequests ==
    /\ request.id < MaxRequests /\ trip.status \notin {"accepted", "started"}
    /\ request' = [id |-> request.id + 1, status |-> "open"]
    /\ Tell("requested", request.id + 1)
    /\ UNCHANGED <<appVars, rest, reqNet, up, trip>>

\* The client cancels, or another provider is faster.
RequestGoes(status, type) ==
    /\ request.status = "open"
    /\ request' = [request EXCEPT !.status = status]
    /\ Tell(type, request.id)
    /\ UNCHANGED <<appVars, rest, reqNet, up, trip>>

\* The server reads what the provider wrote.
ServerReads ==
    /\ up # <<>>
    /\ up' = Tail(up)
    /\ LET m == Head(up) IN
       \/ /\ m.type = "trip_accepted"
          /\ request.status = "open" /\ request.id = m.id
          /\ request' = [request EXCEPT !.status = "taken"]
          /\ trip' = [id |-> m.id, status |-> "accepted"]
          /\ TellTrip("trip_accepted", m.id)
       \/ /\ m.type = "trip_cancelled"
          /\ trip.status = "accepted" /\ trip.id = m.id
          /\ trip' = [trip EXCEPT !.status = "cancelled"]
          /\ UNCHANGED <<request, reqNet>>
       \/ /\ m.type = "trip_accepted" =>
                ~(request.status = "open" /\ request.id = m.id)
          /\ m.type = "trip_cancelled" =>
                ~(trip.status = "accepted" /\ trip.id = m.id)
          /\ UNCHANGED <<request, trip, reqNet>>
    /\ UNCHANGED <<appVars, rest, provNet>>

ClientCancelsTrip ==
    /\ trip.status = "accepted"
    /\ trip' = [trip EXCEPT !.status = "cancelled"]
    /\ TellTrip("trip_cancelled", trip.id)
    /\ UNCHANGED <<appVars, rest, provNet, up, request>>

\* The start/end call reaches the server; a repeated one is answered alike.
ServerTakesStartEnd ==
    /\ rest \in {"starting", "ending"}
    /\ trip.id = startTrip.id
    /\ LET to == IF rest = "starting" THEN "started" ELSE "ended" IN
       /\ trip.status \in IF to = "started" THEN {"accepted", "started"}
                          ELSE {"started", "ended"}
       /\ trip' = [trip EXCEPT !.status = to]
       /\ rest' = to
    /\ UNCHANGED <<appVars, provNet, reqNet, up, request>>

-----------------------------------------------------------------------------
LaunchStep ==
    \/ \E success, seen \in BOOLEAN : checkProviderTripExist(success, seen)
    \/ didEnterBackground \/ willEnterForeground \/ didReceiveNotification
    \/ Relaunch

DashboardStep ==
    \/ tracingLocation \/ switchValueChanged \/ btnAcceptRequest
    \/ btnCancelRequest \/ ringFinishes \/ switchTab
    \/ directionsSucceed \/ directionsFail

SocketStep ==
    \/ providerSocketConnects \/ onConnect
    \/ \E error \in {"nil", "57", "other"} :
          requestSocketDisconnects(error) \/ providerSocketDisconnects(error)
    \/ onProviderMessage \/ onRequestMessage \/ sheetOnMessage \/ dropMessage

TripStep ==
    \/ CancelRequest \/ cancelAfterAMinute \/ textFieldEditingChanged
    \/ btnActionPressed \/ startEndSucceeds \/ startEndFails \/ leaveTrip

ServerStep ==
    \/ ClientRequests \/ RequestGoes("cancelled", "cancelled")
    \/ RequestGoes("taken", "trip_accepted")
    \/ ServerReads \/ ClientCancelsTrip \/ ServerTakesStartEnd

Next == LaunchStep \/ DashboardStep \/ SocketStep \/ TripStep \/ ServerStep

Spec == Init /\ [][Next]_vars

\* The ring of a request view runs on while the app is in the foreground: it
\* is an animation of UICircularTimerRing, not a network answer.
Fairness == SF_vars(Foreground /\ ringFinishes)

FairSpec == Spec /\ Fairness

-----------------------------------------------------------------------------
(***************************************************************************)
(* Safety                                                                  *)
(***************************************************************************)

\* A request view has a request behind it and a ring that will close it:
\* btnAcceptRequest unwraps currentRequest["ClientId"].  Cancellations,
\* replacements, late notifications and the ring all change one of the three.
RequestViewBacked == requestView => currentRequest.id # 0 /\ ring

\* However often trips are accepted, recovered, cancelled and left, at most
\* one 30 s location timer runs, `timer' refers to it, so that the next
\* invalidate stops it, and what timerFired unwraps (the request socket, the
\* accepted trip) is there.
OneLocationTimer ==
    /\ timers = IF timerRef THEN 1 ELSE 0
    /\ timers > 0 => currentAcceptedRequest # 0 /\ reqSocket # "nil"

\* Whatever will convert the provider's position (a request on screen or kept
\* for the notification, a route being computed) starts after a location fix,
\* because only an online dashboard hears requests and going online needs one.
PromptsHaveLocation ==
    requestView \/ requestDetail # 0 \/ directions > 0 => latitude

\* The client sheet hears trip_cancelled as long as it is shown: neither
\* another tab, nor a reconnection, nor the switch takes the slot from it.
SheetListens == sheet.shown => wsDelegate = "sheet"

\* The sheet acts for the accepted trip, over a request socket that exists
\* (CancelRequest and the OTP write to it), also when another request has
\* replaced the one on offer in the meantime.
SheetOfAcceptedTrip ==
    sheet.shown => /\ sheet.id # 0 /\ sheet.id = currentAcceptedRequest
                   /\ reqSocket # "nil"

\* The trip screen never runs ahead of the server: "End Trip" is offered only
\* after the server started the trip, the rating form after it ended it, over
\* failed, repeated and unanswered calls and relaunches.
TripScreenFollowsServer ==
    startTrip.shown /\ trip.id = startTrip.id =>
        /\ startTrip.isTripStarted => trip.status \in {"started", "ended"}
        /\ startTrip.ended => trip.status = "ended"

-----------------------------------------------------------------------------
(***************************************************************************)
(* Refinement                                                              *)
(***************************************************************************)

\* What is in front of the provider.
Screen ==
    CASE ~Alive -> "dead"
      [] Alive /\ boot = "home" -> "splash"
      [] Alive /\ boot = "ready" /\ startTrip.shown ->
            IF startTrip.ended THEN "rating"
            ELSE IF startTrip.isTripStarted THEN "running" ELSE "start"
      [] Alive /\ boot = "ready" /\ sheet.shown /\ ~startTrip.shown -> "sheet"
      [] Alive /\ DashVisible /\ requestView -> "offer"
      [] OTHER -> "dashboard"

\* The trip that the screen is about: the one it was opened for, or the one
\* the dashboard would open a sheet for.
TripShown ==
    CASE startTrip.shown -> startTrip.id
      [] sheet.shown /\ ~startTrip.shown -> sheet.id
      [] OTHER -> currentAcceptedRequest

Flow == INSTANCE ProviderFlow WITH
            screen <- Screen, trip <- TripShown, found <- doesRequestExist

\* Whatever the order of messages, routes, taps and launches, the provider
\* sees one trip at a time from its sheet to its rating form, and no trip
\* after a later one: ProviderApp implements ProviderFlow.
RefinesProviderFlow == Flow!Spec

-----------------------------------------------------------------------------
(***************************************************************************)
(* Liveness                                                                *)
(***************************************************************************)

\* A provider who keeps returning to the app does not keep a request on
\* screen forever, however many requests replace each other in it.
RequestViewExpires == []<>Foreground => [](requestView => <>~requestView)

-----------------------------------------------------------------------------
(***************************************************************************)
(* What the code says and does not keep                                    *)
(***************************************************************************)

\* tracingLocation: a currentRequest that is not nil has a position
\* (currentRequest["latitude"]!).  A declined or withdrawn request is [:].
OfferHasPosition == fault # "currentRequest.latitude"

\* onConnect writes the acceptance for the client whose ClientId opened the
\* socket.
AcceptsWhoWasAsked ==
    [][onConnect /\ wsDelegate = "dash" => currentRequest.id = reqClient]_vars

\* A provider who is online and looks at the dashboard is shown requests.
OnlineProviderListens ==
    Foreground /\ DashVisible /\ swchStatus => wsDelegate = "dash"
=============================================================================
