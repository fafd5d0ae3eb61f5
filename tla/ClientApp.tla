------------------------------ MODULE ClientApp ------------------------------
(***************************************************************************)
(* The client's phone: the dashboard, the provider bottom sheet and the    *)
(* trip screen, the single delegate slot of WebSocketManager that decides  *)
(* which of them hears the request socket, and the trip that is recovered  *)
(* after a relaunch.                                                       *)
(*                                                                         *)
(* A force-unwrap or force-cast that fails ends the process: `fault' holds *)
(* the name of the value that was missing, and only Relaunch is enabled.   *)
(*                                                                         *)
(* The server and the provider's phone are not part of this module.  What  *)
(* the client can observe of them (one trip per accepted request, the      *)
(* messages of its life, delivered in order and only over an open socket)  *)
(* is the external section.  Marker captions, the 30 s ETA refresh and the *)
(* menu screens change none of this state and are left out; a dashboard    *)
(* picked in the side menu is the one that is there already.  A second one *)
(* comes with logging out and in again (as the same client) in the same    *)
(* process: the application delegate, the delegate slot, the socket and    *)
(* the calls in flight of the first one outlive it.                        *)
(***************************************************************************)
EXTENDS Naturals, Sequences

CONSTANTS
    MaxTrips,           \* requests the server takes in one behaviour
    MaxNet,             \* messages in flight on the request socket
    MaxKills,           \* times the user or the system kills the app
    AcceptHasStartTime  \* whether a live trip_accepted carries TripStartTime

ASSUME ClientBounds == /\ MaxTrips \in Nat
                       /\ MaxNet \in Nat
                       /\ MaxKills \in Nat
                       /\ AcceptHasStartTime \in BOOLEAN

VARIABLES
    fault,              \* "none", or the value whose force-unwrap failed
    background,         \* UIApplication.applicationState is background
    kills,
    doesRequestExist,   \* AppDelegate flag: a trip was found at launch
    clientExistingTrip, \* the trip found at launch
    lateList,           \* a list call of a dashboard that was signed out of
    boot,               \* how far the dashboard came in viewDidLoad .. list
    rest,               \* the one postRequest call that may be in flight
    viewDisable,        \* the waiting overlay is shown
    timers,             \* pending one-shot 120 s overlay timers
    currentRequest,     \* the dashboard's accepted request
    matrixCalls,        \* distance-matrix calls in flight for an acceptance
    wsDelegate,         \* the screen in WebSocketManager.delegate
    socket,             \* clientproviderRequestSocket
    net,                \* messages on their way to that socket
    sheet,              \* TripProviderDetailViewController
    tripVC,             \* ClientTripViewController
    trip,               \* external: the server's record of the trip
    up                  \* external: trip_cancelled on its way to the server

dashVars   == <<boot, rest, viewDisable, timers, currentRequest, matrixCalls>>
launchVars == <<background, kills, doesRequestExist, clientExistingTrip,
                lateList>>
sockVars   == <<wsDelegate, socket, net>>
srvVars    == <<trip, up>>
vars == <<fault, launchVars, dashVars, sockVars, sheet, tripVC, srvVars>>

-----------------------------------------------------------------------------
(***************************************************************************)
(* Values                                                                  *)
(***************************************************************************)
TripIds   == 0 .. MaxTrips
Statuses  == {"none", "requested", "accepted", "reached", "started", "ended",
              "cancelled"}
\* oldDash: a dashboard of an earlier login, or a trip screen on its stack.
Delegates == {"none", "dash", "oldDash", "sheet", "trip"}
Messages  == [type : {"trip_accepted", "trip_cancelled", "reached",
                      "Trip_Started", "Trip_Ended"},
              trip : TripIds]
Faults    == {"none", "TripStartTime", "presentingViewController",
              "tripStartDate", "clientproviderRequestSocket",
              "navigationController"}

\* currentRequest = [:] is id 0; hasStart: the dictionary has TripStartTime.
Requests  == [id : TripIds, hasStart : BOOLEAN]
NoRequest == [id |-> 0, hasStart |-> FALSE]

Trips     == [id : TripIds, status : Statuses]
NoTrip    == [id |-> 0, status |-> "none"]

Sheets  == [shown : BOOLEAN, request : Requests]
NoSheet == [shown |-> FALSE, request |-> NoRequest]

\* live: the Timer held in `timer' runs; leaked: an earlier Timer, whose
\* reference was overwritten, still runs.
TripVCs  == [shown : BOOLEAN, startDate : BOOLEAN, startTimer : BOOLEAN,
             isTripEnded : BOOLEAN, live : BOOLEAN, leaked : BOOLEAN,
             ended : BOOLEAN]
NoTripVC == [shown |-> FALSE, startDate |-> FALSE, startTimer |-> FALSE,
             isTripEnded |-> FALSE, live |-> FALSE, leaked |-> FALSE,
             ended |-> FALSE]

Alive       == fault = "none"
Foreground  == Alive /\ ~background
DashVisible == boot # "home" /\ ~sheet.shown /\ ~tripVC.shown

TypeOK ==
    /\ fault \in Faults
    /\ background \in BOOLEAN
    /\ kills \in 0 .. MaxKills
    /\ doesRequestExist \in BOOLEAN
    /\ clientExistingTrip \in Trips
    /\ lateList \in BOOLEAN
    /\ boot \in {"home", "locating", "listing", "ready", "failed"}
    /\ rest \in {"idle", "posting", "posted", "cancelling", "cancelled"}
    /\ viewDisable \in BOOLEAN
    /\ timers \in Nat
    /\ currentRequest \in Requests
    /\ matrixCalls \in Nat
    /\ wsDelegate \in Delegates
    /\ socket \in {"nil", "connecting", "open", "closed"}
    /\ net \in Seq(Messages)
    /\ sheet \in Sheets
    /\ tripVC \in TripVCs
    /\ trip \in Trips
    /\ up \in TripIds

Init ==
    /\ fault = "none" /\ background = FALSE /\ kills = 0
    /\ doesRequestExist = FALSE
    /\ clientExistingTrip = NoTrip /\ lateList = FALSE
    /\ boot = "home" /\ rest = "idle"
    /\ viewDisable = FALSE /\ timers = 0
    /\ currentRequest = NoRequest /\ matrixCalls = 0
    /\ wsDelegate = "none" /\ socket = "nil" /\ net = <<>>
    /\ sheet = NoSheet /\ tripVC = NoTripVC
    /\ trip = NoTrip /\ up = 0

-----------------------------------------------------------------------------
(***************************************************************************)
(* Screens                                                                 *)
(***************************************************************************)

\* timerAction of the dashboard: the waiting overlay goes away.
timerAction == viewDisable' = FALSE

\* openBottomSheet with TripProviderDetailViewController.viewDidLoad.  UIKit
\* refuses to present over another presentation (the side menu and its
\* screens, an alert, a sheet) or off screen; the sheet's viewDidLoad reads
\* TripStartTime when a trip was found at launch, and then takes the delegate
\* slot from `listener'.
openBottomSheet(request, listener) ==
    \/ /\ wsDelegate' = listener
       /\ UNCHANGED <<fault, sheet>>
    \/ /\ ~sheet.shown /\ ~tripVC.shown
       /\ doesRequestExist /\ ~request.hasStart
       /\ fault' = "TripStartTime"
       /\ wsDelegate' = listener
       /\ UNCHANGED sheet
    \/ /\ ~sheet.shown /\ ~tripVC.shown
       /\ doesRequestExist => request.hasStart
       /\ sheet' = [shown |-> TRUE, request |-> request]
       /\ wsDelegate' = "sheet"
       /\ UNCHANGED fault

\* ClientTripViewController.viewDidLoad: it takes the delegate slot and, when
\* the trip was found at launch, starts the clock from TripStartTime.
ClientTripViewDidLoad(recovered) ==
    /\ tripVC' = [shown |-> TRUE, startDate |-> recovered,
                  startTimer |-> FALSE, isTripEnded |-> FALSE,
                  live |-> recovered, leaked |-> FALSE, ended |-> FALSE]
    /\ wsDelegate' = "trip"

\* dismiss of the sheet goes to its popup's container: when an alert, the
\* cancellation form or the camera is over the sheet, which the user can bring
\* about at any time, only that is removed and the sheet stays.
dismiss ==
    \E staysShown \in {FALSE, sheet.shown} :
        sheet' = [sheet EXCEPT !.shown = staysShown]

\* The sheet dismisses itself and pushes the trip screen on the navigation
\* controller that presented it; a sheet that is already dismissed has no
\* presentingViewController to cast.
pushTripFromSheet(recovered) ==
    \/ /\ sheet.shown
       /\ dismiss
       /\ ClientTripViewDidLoad(recovered)
       /\ UNCHANGED fault
    \/ /\ ~sheet.shown
       /\ fault' = "presentingViewController"
       /\ UNCHANGED <<sheet, tripVC, wsDelegate>>

\* connectClientProviderRequestSocket: a new WebSocket replaces the old one,
\* and what was in flight on the old one is lost.
connectClientProviderRequestSocket ==
    socket' = "connecting" /\ net' = <<>>

-----------------------------------------------------------------------------
(***************************************************************************)
(* Launch: HomeViewController, then the dashboard                          *)
(***************************************************************************)

\* checkClientTripExist: its callback presents the dashboard and, when the
\* server knows an open trip, remembers it in the app delegate.  A login
\* presents the dashboard without asking: success is then FALSE.
checkClientTripExist(success) ==
    /\ Alive /\ boot = "home"
    /\ boot' = "locating"
    /\ IF success /\ trip.status \in {"accepted", "reached", "started"}
       THEN /\ doesRequestExist' = TRUE
            /\ clientExistingTrip' = trip
       ELSE UNCHANGED <<doesRequestExist, clientExistingTrip>>
    /\ UNCHANGED <<fault, background, kills, lateList, rest, viewDisable,
                   timers, currentRequest, matrixCalls, sockVars, sheet,
                   tripVC, srvVars>>

\* tracingLocation, first fix: the provider list is fetched, once.
tracingLocation ==
    /\ Alive /\ boot = "locating"
    /\ boot' = "listing"
    /\ UNCHANGED <<fault, launchVars, rest, viewDisable, timers,
                   currentRequest, matrixCalls, sockVars, sheet, tripVC,
                   srvVars>>

\* checkIfTripExists: the trip found at launch is shown again.  The server
\* has no StatusCode of its own for `reached', so only `started' is not 6.
checkIfTripExists ==
    IF doesRequestExist
    THEN /\ currentRequest' = [id |-> clientExistingTrip.id, hasStart |-> TRUE]
         /\ connectClientProviderRequestSocket
         /\ IF clientExistingTrip.status # "started"
            THEN /\ openBottomSheet(currentRequest', "dash")
                 /\ timerAction
                 /\ UNCHANGED tripVC
            ELSE /\ ClientTripViewDidLoad(TRUE)
                 /\ UNCHANGED <<fault, sheet, viewDisable>>
    ELSE /\ wsDelegate' = "dash"
         /\ UNCHANGED <<currentRequest, socket, net, fault, sheet, tripVC,
                        viewDisable>>

\* Mutant of getOnlineProviderList: the delegate is set after the recovery.
getOnlineProviderList_DelegateLast ==
    /\ Alive /\ boot = "listing"
    /\ boot' = "ready"
    /\ IF doesRequestExist
       THEN /\ currentRequest' = [id |-> clientExistingTrip.id,
                                  hasStart |-> TRUE]
            /\ connectClientProviderRequestSocket
            /\ sheet' = [shown |-> TRUE, request |-> currentRequest']
       ELSE UNCHANGED <<currentRequest, socket, net, sheet>>
    /\ wsDelegate' = "dash"
    /\ UNCHANGED <<launchVars, rest, timers, matrixCalls, srvVars, fault,
                   viewDisable, tripVC>>

\* getOnlineProviderList, success: the dashboard takes the delegate slot
\* before it looks for a trip, so a screen opened there keeps the slot.
getOnlineProviderList ==
    /\ Alive /\ boot = "listing"
    /\ boot' = "ready"
    /\ checkIfTripExists
    /\ UNCHANGED <<launchVars, rest, timers, matrixCalls, srvVars>>

\* getOnlineProviderList, failure: isFirst is already FALSE, nothing retries.
getOnlineProviderListFails ==
    /\ Alive /\ boot = "listing"
    /\ boot' = "failed"
    /\ UNCHANGED <<fault, launchVars, rest, viewDisable, timers,
                   currentRequest, matrixCalls, sockVars, sheet, tripVC,
                   srvVars>>

\* `Log Out?', YES: the request socket is disconnected and the application
\* is back at its first screen; timers and matrix calls of the dashboard can
\* no longer change what is seen.  The delegate slot keeps its object, the
\* app delegate its flag and its trip, and a list call (or the first fix that
\* makes it) stays on its way.  Bound: one such call at a time.
signOut ==
    /\ Foreground /\ DashVisible /\ rest = "idle"
    /\ boot' = "home"
    /\ \/ boot \in {"locating", "listing"} /\ ~lateList /\ lateList' = TRUE
       \/ boot # "listing" /\ UNCHANGED lateList
    /\ viewDisable' = FALSE /\ timers' = 0
    /\ currentRequest' = NoRequest /\ matrixCalls' = 0
    /\ wsDelegate' = IF wsDelegate = "dash" THEN "oldDash" ELSE wsDelegate
    /\ socket' = IF socket = "open" THEN "closed" ELSE socket
    /\ net' = <<>>
    /\ UNCHANGED <<fault, background, kills, doesRequestExist,
                   clientExistingTrip, rest, sheet, tripVC, srvVars>>

\* The list of a dashboard that was signed out of: getOnlineProviderList on
\* that object.  It takes the slot and recovers a trip that is remembered: it
\* replaces the socket, but its sheet is refused, and its trip screen, if its
\* navigation controller is there at all, comes on a stack nobody sees.
lateListAnswers ==
    /\ Alive /\ lateList
    /\ lateList' = FALSE
    /\ wsDelegate' = "oldDash"
    /\ IF doesRequestExist
       THEN connectClientProviderRequestSocket
       ELSE UNCHANGED <<socket, net>>
    /\ \/ UNCHANGED fault
       \/ /\ doesRequestExist /\ clientExistingTrip.status = "started"
          /\ fault' = "navigationController"
    /\ UNCHANGED <<background, kills, doesRequestExist, clientExistingTrip,
                   dashVars, sheet, tripVC, srvVars>>

lateListFails ==
    /\ Alive /\ lateList
    /\ lateList' = FALSE
    /\ UNCHANGED <<fault, background, kills, doesRequestExist,
                   clientExistingTrip, dashVars, sockVars, sheet, tripVC,
                   srvVars>>

-----------------------------------------------------------------------------
(***************************************************************************)
(* The request: REST calls of the dashboard                                *)
(***************************************************************************)

\* sendRequest / postRequest up to the call; the overlay covers the button
\* while it is shown, the activity view while a call is in flight.
sendRequest ==
    /\ Foreground /\ DashVisible /\ boot = "ready"
    /\ ~viewDisable /\ rest = "idle"
    /\ rest' = "posting"
    /\ UNCHANGED <<fault, launchVars, boot, viewDisable, timers,
                   currentRequest, matrixCalls, sockVars, sheet, tripVC,
                   srvVars>>

\* Mutants of postRequestSucceeds: the new overlay gets no timer...
postRequestSucceeds_NoTimer ==
    /\ Alive /\ rest = "posted"
    /\ rest' = "idle"
    /\ connectClientProviderRequestSocket
    /\ viewDisable' = TRUE
    /\ UNCHANGED <<fault, launchVars, boot, timers, currentRequest,
                   matrixCalls, wsDelegate, sheet, tripVC, srvVars>>

\* ... the request socket is not connected...
postRequestSucceeds_NoSocket ==
    /\ Alive /\ rest = "posted"
    /\ rest' = "idle"
    /\ viewDisable' = TRUE
    /\ timers' = timers + 1
    /\ UNCHANGED <<fault, launchVars, boot, currentRequest, matrixCalls,
                   sockVars, sheet, tripVC, srvVars>>

\* ... and the distance is asked for before there is an acceptance.
postRequestSucceeds_EarlyMatrix ==
    /\ Alive /\ rest = "posted"
    /\ rest' = "idle"
    /\ connectClientProviderRequestSocket
    /\ viewDisable' = TRUE
    /\ timers' = timers + 1
    /\ matrixCalls' = matrixCalls + 1
    /\ UNCHANGED <<fault, launchVars, boot, currentRequest, wsDelegate,
                   sheet, tripVC, srvVars>>

\* postRequest, success: the request socket is connected only now, the
\* overlay is shown and a one-shot timer will remove it.
postRequestSucceeds ==
    /\ Alive /\ rest = "posted"
    /\ rest' = "idle"
    /\ connectClientProviderRequestSocket
    /\ viewDisable' = TRUE
    /\ timers' = timers + 1
    /\ UNCHANGED <<fault, launchVars, boot, currentRequest, matrixCalls,
                   wsDelegate, sheet, tripVC, srvVars>>

\* A request or a cancellation whose answer is an error or never comes.
postRequestFails ==
    /\ Alive /\ rest # "idle"
    /\ rest' = "idle"
    /\ UNCHANGED <<fault, launchVars, boot, viewDisable, timers,
                   currentRequest, matrixCalls, sockVars, sheet, tripVC,
                   srvVars>>

\* cancelRequest, the button on the overlay.
cancelRequest ==
    /\ Foreground /\ DashVisible /\ viewDisable /\ rest = "idle"
    /\ rest' = "cancelling"
    /\ UNCHANGED <<fault, launchVars, boot, viewDisable, timers,
                   currentRequest, matrixCalls, sockVars, sheet, tripVC,
                   srvVars>>

\* cancelRequestThroughWS, success: a write on the request socket, which must
\* exist, and the overlay goes; the 120 s timer is left running.
cancelRequestSucceeds ==
    /\ Alive /\ rest = "cancelled"
    /\ rest' = "idle"
    /\ IF socket = "nil"
       THEN fault' = "clientproviderRequestSocket" /\ UNCHANGED viewDisable
       ELSE timerAction /\ UNCHANGED fault
    /\ UNCHANGED <<launchVars, boot, timers, currentRequest, matrixCalls,
                   sockVars, sheet, tripVC, srvVars>>

\* Mutant of overlayTimerFires: the timer fires only while no acceptance is
\* being worked on, and is otherwise put off.
overlayTimerFires_NotDuringMatrix ==
    /\ Alive /\ timers > 0 /\ matrixCalls = 0
    /\ timers' = timers - 1
    /\ timerAction
    /\ UNCHANGED <<fault, launchVars, boot, rest, currentRequest, matrixCalls,
                   sockVars, sheet, tripVC, srvVars>>

\* One of the 120 s timers fires, whichever request started it.
overlayTimerFires ==
    /\ Alive /\ timers > 0
    /\ timers' = timers - 1
    /\ timerAction
    /\ UNCHANGED <<fault, launchVars, boot, rest, currentRequest, matrixCalls,
                   sockVars, sheet, tripVC, srvVars>>

-----------------------------------------------------------------------------
(***************************************************************************)
(* The request socket                                                      *)
(***************************************************************************)
websocketDidConnect ==
    /\ Alive /\ socket = "connecting"
    /\ socket' = "open"
    /\ UNCHANGED <<fault, launchVars, dashVars, wsDelegate, net, sheet,
                   tripVC, srvVars>>

\* No client screen reconnects in onDisconnect.
websocketDidDisconnect ==
    /\ Alive /\ socket \in {"connecting", "open"}
    /\ socket' = "closed" /\ net' = <<>>
    /\ UNCHANGED <<fault, launchVars, dashVars, wsDelegate, sheet, tripVC,
                   srvVars>>

\* websocketDidReceiveMessage hands the next message to one screen.
Receive(screen) ==
    /\ Alive /\ net # <<>> /\ wsDelegate = screen
    /\ net' = Tail(net)
    /\ UNCHANGED <<background, kills, clientExistingTrip, lateList, boot, rest,
                   timers, socket, srvVars>>

\* Mutant of dashOnMessage: the dashboard also answers `reached'.
dashOnMessage_PushesTrip ==
    /\ Receive("dash")
    /\ IF Head(net).type = "reached"
       THEN ClientTripViewDidLoad(FALSE)
       ELSE UNCHANGED <<tripVC, wsDelegate>>
    /\ UNCHANGED <<fault, doesRequestExist, viewDisable, currentRequest,
                   matrixCalls, sheet>>

\* ClientDashboardViewController.onMessage: only trip_accepted matters; the
\* sheet waits for the distance matrix.
dashOnMessage ==
    /\ Receive("dash")
    /\ IF Head(net).type = "trip_accepted"
       THEN /\ currentRequest' = [id |-> Head(net).trip,
                                  hasStart |-> AcceptHasStartTime]
            /\ matrixCalls' = matrixCalls + 1
       ELSE UNCHANGED <<currentRequest, matrixCalls>>
    /\ UNCHANGED <<fault, doesRequestExist, viewDisable, wsDelegate, sheet,
                   tripVC>>

\* callDistanceMatrixAPI, success: the sheet opens for the dashboard's
\* current request, not for the one the call was made for.
distanceMatrixSucceeds ==
    /\ Alive /\ matrixCalls > 0
    /\ matrixCalls' = matrixCalls - 1
    /\ openBottomSheet(currentRequest, wsDelegate)
    /\ timerAction
    /\ UNCHANGED <<launchVars, boot, rest, timers, currentRequest, socket,
                   net, tripVC, srvVars>>

\* callDistanceMatrixAPI, failure: no sheet, no retry.
distanceMatrixFails ==
    /\ Alive /\ matrixCalls > 0
    /\ matrixCalls' = matrixCalls - 1
    /\ UNCHANGED <<fault, launchVars, boot, rest, viewDisable, timers,
                   currentRequest, sockVars, sheet, tripVC, srvVars>>

\* TripProviderDetailViewController.onMessage.
sheetOnMessage ==
    /\ Receive("sheet")
    /\ \/ /\ Head(net).type = "reached"
          /\ pushTripFromSheet(doesRequestExist)
          /\ UNCHANGED doesRequestExist
       \/ /\ Head(net).type = "trip_cancelled"
          /\ dismiss
          /\ UNCHANGED <<fault, doesRequestExist, tripVC, wsDelegate>>
       \/ /\ Head(net).type = "Trip_Started" /\ doesRequestExist
          /\ doesRequestExist' = FALSE
          /\ pushTripFromSheet(FALSE)
       \/ /\ Head(net).type = "Trip_Started" => ~doesRequestExist
          /\ Head(net).type \notin {"reached", "trip_cancelled"}
          /\ UNCHANGED <<fault, doesRequestExist, sheet, tripVC, wsDelegate>>
    /\ UNCHANGED <<viewDisable, currentRequest, matrixCalls>>

\* A Timer is scheduled; the reference to the one before is overwritten.
ScheduleTripTimer(vc) ==
    [vc EXCEPT !.live = TRUE, !.leaked = vc.leaked \/ vc.live]

\* Mutant of tripOnMessage: Trip_Ended does not reset startTimer.
tripOnMessage_KeepsStartTimer ==
    /\ Receive("trip")
    /\ tripVC' =
         CASE Head(net).type = "Trip_Started" /\ background ->
                [tripVC EXCEPT !.startDate = TRUE, !.startTimer = TRUE]
           [] Head(net).type = "Trip_Started" /\ ~background ->
                ScheduleTripTimer([tripVC EXCEPT !.startDate = TRUE])
           [] Head(net).type = "Trip_Ended" ->
                [tripVC EXCEPT !.live = FALSE, !.ended = TRUE,
                               !.isTripEnded = background \/ @]
           [] OTHER -> tripVC
    /\ UNCHANGED <<fault, doesRequestExist, viewDisable, currentRequest,
                   matrixCalls, wsDelegate, sheet>>

\* ClientTripViewController.onMessage.
tripOnMessage ==
    /\ Receive("trip")
    /\ tripVC' =
         CASE Head(net).type = "Trip_Started" /\ background ->
                [tripVC EXCEPT !.startDate = TRUE, !.startTimer = TRUE]
           [] Head(net).type = "Trip_Started" /\ ~background ->
                ScheduleTripTimer([tripVC EXCEPT !.startDate = TRUE])
           [] Head(net).type = "Trip_Ended" ->
                [tripVC EXCEPT !.startTimer = FALSE, !.live = FALSE,
                               !.isTripEnded = background \/ @,
                               !.ended = TRUE]
           [] OTHER -> tripVC
    /\ UNCHANGED <<fault, doesRequestExist, viewDisable, currentRequest,
                   matrixCalls, wsDelegate, sheet>>

\* No delegate yet, or a dashboard of an earlier login, which UIKit lets
\* present no sheet.
dropMessage ==
    /\ Receive("none") \/ Receive("oldDash")
    /\ UNCHANGED <<fault, doesRequestExist, viewDisable, currentRequest,
                   matrixCalls, wsDelegate, sheet, tripVC>>

-----------------------------------------------------------------------------
(***************************************************************************)
(* The user on the sheet and on the trip screen                            *)
(***************************************************************************)

\* CancelRequest of the sheet (free), when its alert is gone already, or of
\* RequestCancelAlertViewController (charged), whose two nested dismissals may
\* leave the sheet on screen.  A write on a socket that is not open is dropped.
cancelTrip(staysShown) ==
    /\ Foreground /\ sheet.shown
    /\ up' = IF socket = "open" THEN sheet.request.id ELSE up
    /\ sheet' = [sheet EXCEPT !.shown = staysShown]
    /\ UNCHANGED <<fault, launchVars, dashVars, sockVars, tripVC, trip>>

\* submitReview pops the screen whatever the answer is; the review form is
\* only there once the trip has ended.
submitReview ==
    /\ Foreground /\ tripVC.shown /\ ~sheet.shown /\ tripVC.ended
    /\ tripVC' = [tripVC EXCEPT !.shown = FALSE]
    /\ UNCHANGED <<fault, launchVars, dashVars, sockVars, sheet, srvVars>>

\* The navigation bar's back button leaves the trip screen at any time.
backFromTrip ==
    /\ Foreground /\ tripVC.shown /\ ~sheet.shown
    /\ tripVC' = [tripVC EXCEPT !.shown = FALSE]
    /\ UNCHANGED <<fault, launchVars, dashVars, sockVars, sheet, srvVars>>

-----------------------------------------------------------------------------
(***************************************************************************)
(* The application's life cycle                                            *)
(***************************************************************************)
didEnterBackground ==
    /\ Foreground
    /\ background' = TRUE
    /\ UNCHANGED <<fault, kills, doesRequestExist, clientExistingTrip, lateList,
                   dashVars, sockVars, sheet, tripVC, srvVars>>

\* startTimerAfterTransitionToForeground: a clock that Trip_Started could not
\* start in the background starts now; a trip that ended there shows
\* tripEndDate - tripStartDate.
willEnterForeground ==
    /\ Alive /\ background
    /\ background' = FALSE
    /\ \/ /\ tripVC.startTimer
          /\ tripVC' = ScheduleTripTimer([tripVC EXCEPT !.startTimer = FALSE])
          /\ UNCHANGED fault
       \/ /\ ~tripVC.startTimer /\ tripVC.isTripEnded
          /\ tripVC' = [tripVC EXCEPT !.isTripEnded = FALSE]
          /\ fault' = IF tripVC.startDate THEN fault ELSE "tripStartDate"
       \/ /\ ~tripVC.startTimer /\ ~tripVC.isTripEnded
          /\ UNCHANGED <<fault, tripVC>>
    /\ UNCHANGED <<kills, doesRequestExist, clientExistingTrip, lateList,
                   dashVars, sockVars, sheet, srvVars>>

\* The process starts again: after a fault, or after a kill.
Relaunch ==
    /\ \/ ~Alive /\ UNCHANGED kills
       \/ Alive /\ kills < MaxKills /\ kills' = kills + 1
    /\ fault' = "none" /\ background' = FALSE
    /\ doesRequestExist' = FALSE
    /\ clientExistingTrip' = NoTrip /\ lateList' = FALSE
    /\ boot' = "home" /\ rest' = "idle"
    /\ viewDisable' = FALSE /\ timers' = 0
    /\ currentRequest' = NoRequest /\ matrixCalls' = 0
    /\ wsDelegate' = "none" /\ socket' = "nil" /\ net' = <<>>
    /\ sheet' = NoSheet /\ tripVC' = NoTripVC
    /\ UNCHANGED srvVars

-----------------------------------------------------------------------------
(***************************************************************************)
(* External: the server, and through it the provider                       *)
(***************************************************************************)
clientVars == <<fault, launchVars, boot, viewDisable, timers, currentRequest,
                matrixCalls, wsDelegate, socket, sheet, tripVC>>

\* Sent only over an open socket; otherwise the message is lost.
Send(type) ==
    IF socket = "open" /\ Alive
    THEN /\ Len(net) < MaxNet
         /\ net' = Append(net, [type |-> type, trip |-> trip.id])
    ELSE UNCHANGED net

\* The server takes a request unless a trip of this client is under way.
ServerTakesRequest ==
    /\ rest = "posting" /\ trip.id < MaxTrips
    /\ trip.status \notin {"accepted", "reached", "started"}
    /\ trip' = [id |-> trip.id + 1, status |-> "requested"]
    /\ rest' = "posted"
    /\ UNCHANGED <<clientVars, net, up>>

\* Cancelling a request that is already accepted has no effect on the trip.
ServerTakesCancel ==
    /\ rest = "cancelling"
    /\ trip' = IF trip.status = "requested"
               THEN [trip EXCEPT !.status = "cancelled"] ELSE trip
    /\ rest' = "cancelled"
    /\ UNCHANGED <<clientVars, net, up>>

\* A trip_cancelled of the client arrives.
ServerTakesTripCancel ==
    /\ up # 0
    /\ trip' = IF trip.id = up /\ trip.status \in {"accepted", "reached"}
               THEN [trip EXCEPT !.status = "cancelled"] ELSE trip
    /\ up' = 0
    /\ UNCHANGED <<clientVars, net, rest>>

\* The provider's side of the trip moves on, and the client is told.
TripStep(from, to, type) ==
    /\ trip.status = from
    /\ trip' = [trip EXCEPT !.status = to]
    /\ Send(type)
    /\ UNCHANGED <<clientVars, rest, up>>

ProviderStep ==
    \/ TripStep("requested", "accepted", "trip_accepted")
    \/ TripStep("accepted", "cancelled", "trip_cancelled")
    \/ TripStep("accepted", "reached", "reached")
    \/ TripStep("reached", "started", "Trip_Started")
    \/ TripStep("started", "ended", "Trip_Ended")

-----------------------------------------------------------------------------
DashboardStep ==
    \/ \E success \in BOOLEAN : checkClientTripExist(success)
    \/ tracingLocation \/ getOnlineProviderList \/ getOnlineProviderListFails
    \/ signOut \/ lateListAnswers \/ lateListFails
    \/ sendRequest \/ postRequestSucceeds \/ postRequestFails
    \/ cancelRequest \/ cancelRequestSucceeds \/ overlayTimerFires
    \/ distanceMatrixSucceeds \/ distanceMatrixFails

SocketStep ==
    \/ websocketDidConnect \/ websocketDidDisconnect
    \/ dashOnMessage \/ sheetOnMessage \/ tripOnMessage \/ dropMessage

UserStep ==
    \/ \E staysShown \in BOOLEAN : cancelTrip(staysShown)
    \/ submitReview \/ backFromTrip
    \/ didEnterBackground \/ willEnterForeground \/ Relaunch

ServerStep ==
    \/ ServerTakesRequest \/ ServerTakesCancel \/ ServerTakesTripCancel
    \/ ProviderStep

Next == DashboardStep \/ SocketStep \/ UserStep \/ ServerStep

\* A timer of the run loop whose date has passed fires at the latest when the
\* application is in the foreground again, however often it leaves; nothing
\* else is owed by anyone.
Fairness == SF_vars(Foreground /\ overlayTimerFires)

Spec == Init /\ [][Next]_vars
FairSpec == Spec /\ Fairness

-----------------------------------------------------------------------------
(***************************************************************************)
(* Safety                                                                  *)
(***************************************************************************)

\* The waiting overlay, which covers the whole dashboard, never stays without
\* a pending 120 s timer to remove it, whatever earlier requests, their
\* cancellations and their own timers (none is ever invalidated) have done.
OverlayHasTimer == viewDisable => timers > 0

\* The screen the user has in front is the one that hears the request socket:
\* the order of `delegate = self' and checkIfTripExists in
\* getOnlineProviderList, a late sheet or a new dashboard never take the single
\* delegate slot from a sheet or a trip screen that is shown.  There are two
\* exceptions in the code.  The late list of a dashboard of an earlier login
\* takes the slot from whatever is shown.  And a sheet that a dismiss has left
\* up, since something was over it, is deaf above the trip screen it pushed.
VisibleScreenListens ==
    /\ tripVC.shown => wsDelegate \in {"trip", "oldDash"}
    /\ sheet.shown /\ ~tripVC.shown => wsDelegate \in {"sheet", "oldDash"}

\* clientproviderRequestSocket is an implicitly unwrapped optional: wherever
\* a cancellation can be written (the overlay's button, its REST answer, the
\* sheet's button), an earlier step has created the socket, also when the
\* sheet belongs to a trip recovered at launch.
SocketBeforeWrite ==
    \/ viewDisable \/ rest \in {"cancelling", "cancelled"} \/ sheet.shown
    => socket # "nil"

\* The trip was at least accepted (or is over) on the server.
Accepted(id) == /\ id \in 1 .. trip.id
                /\ id = trip.id => trip.status \notin {"none", "requested"}

\* The provider's name, photo and OTP are shown for real trips only: a sheet
\* is never opened for the empty request, nor for a request that no provider
\* has accepted, although it opens for whatever currentRequest holds when the
\* distance matrix answers.
SheetAfterAcceptance == sheet.shown => Accepted(sheet.request.id)

\* A trip whose end its trip screen has heard no longer counts time on it,
\* whether its start or its end came in the background, and coming back to
\* the foreground does not start the clock again.  The screen is the trip's as
\* long as it hears the socket and no sheet was opened for another one.  (A
\* trip recovered at launch is excepted: see the README.)
ClockStopsAtEnd ==
    /\ tripVC.ended /\ wsDelegate = "trip"
    /\ trip.id = sheet.request.id /\ ~doesRequestExist
    => ~tripVC.live /\ ~tripVC.leaked /\ ~tripVC.startTimer

\* What makes the safety invariants inductive: no screen is on top of a
\* dashboard that still loads, calls and messages presuppose the socket, and
\* every trip the client knows of was accepted.
NetAccepted == \A i \in DOMAIN net : Accepted(net[i].trip)

KnownTripsAccepted ==
    /\ trip.status # "none" => trip.id > 0
    /\ currentRequest.id # 0 => Accepted(currentRequest.id)
    /\ matrixCalls > 0 => currentRequest.id # 0
    /\ doesRequestExist => Accepted(clientExistingTrip.id)

NoScreenWhileLoading ==
    boot \in {"home", "locating", "listing"} =>
        /\ ~sheet.shown /\ ~tripVC.shown
        /\ wsDelegate # "dash" /\ matrixCalls = 0
        /\ ~viewDisable /\ rest = "idle"

SocketBeforeTraffic == matrixCalls > 0 \/ net # <<>> => socket # "nil"

IndInv == /\ TypeOK /\ OverlayHasTimer /\ NoScreenWhileLoading
          /\ VisibleScreenListens /\ SocketBeforeTraffic
          /\ SocketBeforeWrite /\ NetAccepted /\ KnownTripsAccepted
          /\ SheetAfterAcceptance

\* Messages arrive in the order of the server's steps: none is older than the
\* request the sheet or the dashboard holds, none tells more than has happened,
\* and no start follows the start or the end of the same trip.
MessagesInOrder ==
    /\ sheet.request.id <= trip.id
    /\ \A i \in DOMAIN net :
          /\ sheet.request.id <= net[i].trip
          /\ currentRequest.id <= net[i].trip
          /\ net[i].trip = trip.id =>
                /\ net[i].type = "Trip_Started" =>
                      trip.status \in {"started", "ended"}
                /\ net[i].type = "Trip_Ended" => trip.status = "ended"
    /\ \A i, j \in DOMAIN net : i < j =>
          /\ net[i].trip <= net[j].trip
          /\ net[i].trip = net[j].trip /\ net[j].type = "Trip_Started" =>
                net[i].type \notin {"Trip_Started", "Trip_Ended"}

\* A start is still to come, from the provider or on the socket.
StartPending ==
    \/ trip.status \in {"requested", "accepted", "reached"}
    \/ \E i \in DOMAIN net : net[i].type = "Trip_Started"

\* One start, one clock: before the start the trip screen has none, and it
\* never holds a clock that runs and one that waits for the foreground.
ClockOfTrip ==
    wsDelegate = "trip" /\ trip.id = sheet.request.id /\ ~doesRequestExist =>
    /\ ~tripVC.leaked
    /\ ~(tripVC.live /\ tripVC.startTimer)
    /\ StartPending \/ tripVC.ended => ~tripVC.live /\ ~tripVC.startTimer
    /\ StartPending => ~tripVC.ended

ClockInv == MessagesInOrder /\ ClockOfTrip

\* What the user sees, a sheet left aside that may be over it.
screen == CASE ~Alive                        -> "dead"
            [] Alive /\ boot = "home"        -> "splash"
            [] Alive /\ tripVC.shown         -> IF tripVC.ended THEN "rating"
                                                ELSE "trip"
            [] OTHER                         -> IF viewDisable THEN "waiting"
                                                ELSE "dashboard"

-----------------------------------------------------------------------------
(***************************************************************************)
(* What a line of the code takes for granted and does not get              *)
(***************************************************************************)

\* `self.presentingViewController as! UINavigationController': a sheet that
\* hears `reached' or `Trip_Started' is still presented.
SheetIsPresented == fault # "presentingViewController"

\* `tripStartDate.timeIntervalSince1970' on an implicitly unwrapped Date: a
\* trip that ended in the background has a start date.
EndedTripHasStartDate == fault # "tripStartDate"

\* An accepted request shows the bottom sheet in the client: while the user
\* waits under the overlay, a dashboard, the only screen that can open the
\* sheet, hears the socket, and not a sheet or a trip screen that is gone.
WaitingDashboardListens ==
    screen = "waiting" /\ ~sheet.shown => wsDelegate \in {"dash", "oldDash"}

-----------------------------------------------------------------------------
(***************************************************************************)
(* Liveness and refinement                                                 *)
(***************************************************************************)

\* A client who keeps coming back to the application is not left under the
\* overlay: the request is accepted, cancelled, or times out.
OverlayCleared ==
    []<>Foreground => (viewDisable /\ Alive ~> ~viewDisable \/ ~Alive)

\* The trip that the launch found, until the sheet hears its start.
FoundTrip == IF doesRequestExist THEN clientExistingTrip.id ELSE 0

Flow == INSTANCE ScreenFlow WITH
            screen <- screen, sheet <- sheet.shown,
            trip <- sheet.request.id, found <- FoundTrip

\* The screens together behave like the abstract screen flow: sheet, trip and
\* rating follow each other, and no sheet is about an earlier trip than the
\* one before it or, while a trip found at launch has not begun, about any
\* other, over late matrix answers, sheets that a dismiss leaves up, logging
\* out and in again and the late lists of the dashboards before.
RefinesScreenFlow == Flow!Spec
=============================================================================
