--------------------------- MODULE ClientAppProofs ---------------------------
(***************************************************************************)
(* The safety of the client's phone for every number of trips, messages in *)
(* flight and kills.  First the types, then IndInv; the invariants of      *)
(* ClientApp follow from it.                                               *)
(***************************************************************************)
EXTENDS ClientApp, SequenceTheorems, TLAPS

\* The values the actions write are of the right type.
LEMMA ValueTypes ==
    /\ NoRequest \in Requests /\ NoSheet \in Sheets /\ NoTripVC \in TripVCs
    /\ NoTrip \in Trips /\ 0 \in TripIds /\ <<>> \in Seq(Messages)
BY ClientBounds DEF NoRequest, Requests, NoSheet, Sheets, NoTripVC, TripVCs,
                    NoTrip, Trips, TripIds, Statuses, Messages

\* Init is well typed.
LEMMA TypeInit == Init => TypeOK
<1>1. 0 \in 0 .. MaxKills /\ 0 \in Nat
  BY ClientBounds
<1>2. QED
  BY <1>1, ValueTypes DEF Init, TypeOK, Faults, Delegates

\* A request built from a known trip, and a sheet that shows it.
LEMMA RequestTypes ==
    /\ \A t \in Trips, b \in BOOLEAN : [id |-> t.id, hasStart |-> b] \in Requests
    /\ \A m \in Messages, b \in BOOLEAN :
          [id |-> m.trip, hasStart |-> b] \in Requests
    /\ \A b \in BOOLEAN, r \in Requests :
          [shown |-> b, request |-> r] \in Sheets
    /\ \A s \in Sheets, b \in BOOLEAN : [s EXCEPT !.shown = b] \in Sheets
    /\ \A s \in Sheets : s.request.id \in TripIds
BY DEF Trips, Requests, Messages, Sheets

\* The states of the trip screen.
LEMMA TripVCTypes ==
    /\ \A b \in BOOLEAN :
          [shown |-> TRUE, startDate |-> b, startTimer |-> FALSE,
           isTripEnded |-> FALSE, live |-> b, leaked |-> FALSE,
           ended |-> FALSE] \in TripVCs
    /\ \A v \in TripVCs : ScheduleTripTimer(v) \in TripVCs
    /\ \A v \in TripVCs, b \in BOOLEAN :
          /\ [v EXCEPT !.shown = b] \in TripVCs
          /\ [v EXCEPT !.startDate = b] \in TripVCs
          /\ [v EXCEPT !.startTimer = b] \in TripVCs
          /\ [v EXCEPT !.isTripEnded = b] \in TripVCs
    /\ \A v \in TripVCs :
          [v EXCEPT !.startDate = TRUE, !.startTimer = TRUE] \in TripVCs
    /\ \A v \in TripVCs, b \in BOOLEAN :
          [v EXCEPT !.startTimer = FALSE, !.live = FALSE,
                    !.isTripEnded = b \/ @, !.ended = TRUE] \in TripVCs
BY DEF TripVCs, ScheduleTripTimer

\* Every step of the dashboard keeps the types.
LEMMA DashboardTypes == ASSUME TypeOK, DashboardStep PROVE TypeOK'
<1> USE ClientBounds, ValueTypes
    DEF TypeOK, launchVars, sockVars, srvVars, timerAction
<1>1. ASSUME NEW success \in BOOLEAN, checkClientTripExist(success)
      PROVE  TypeOK'
  BY <1>1 DEF checkClientTripExist
<1>2. CASE tracingLocation
  BY <1>2 DEF tracingLocation
<1>3. CASE getOnlineProviderList
  <2>1. currentRequest' \in Requests
    BY <1>3, RequestTypes DEF getOnlineProviderList, checkIfTripExists
  <2>2. sheet' \in Sheets /\ wsDelegate' \in Delegates /\ fault' \in Faults
    BY <1>3, <2>1, RequestTypes
    DEF getOnlineProviderList, checkIfTripExists, openBottomSheet,
        ClientTripViewDidLoad, Delegates, Faults
  <2>3. tripVC' \in TripVCs
    BY <1>3, TripVCTypes
    DEF getOnlineProviderList, checkIfTripExists, ClientTripViewDidLoad
  <2>4. QED
    BY <1>3, <2>1, <2>2, <2>3
    DEF getOnlineProviderList, checkIfTripExists,
        connectClientProviderRequestSocket
<1>4. CASE getOnlineProviderListFails
  BY <1>4 DEF getOnlineProviderListFails
<1>5. CASE signOut
  BY <1>5 DEF signOut, Delegates
<1>6. CASE sendRequest
  BY <1>6 DEF sendRequest
<1>7. CASE postRequestSucceeds
  BY <1>7 DEF postRequestSucceeds, connectClientProviderRequestSocket
<1>8. CASE postRequestFails
  BY <1>8 DEF postRequestFails
<1>9. CASE cancelRequest
  BY <1>9 DEF cancelRequest
<1>10. CASE cancelRequestSucceeds
  BY <1>10 DEF cancelRequestSucceeds, Faults
<1>11. CASE overlayTimerFires
  <2>1. timers' \in Nat
    BY <1>11 DEF overlayTimerFires
  <2>2. QED
    BY <1>11, <2>1 DEF overlayTimerFires
<1>12. CASE distanceMatrixSucceeds
  <2>1. sheet' \in Sheets /\ wsDelegate' \in Delegates /\ fault' \in Faults
    BY <1>12, RequestTypes
    DEF distanceMatrixSucceeds, openBottomSheet, Delegates, Faults
  <2>2. matrixCalls' \in Nat
    BY <1>12 DEF distanceMatrixSucceeds
  <2>3. QED
    BY <1>12, <2>1, <2>2 DEF distanceMatrixSucceeds
<1>13. CASE distanceMatrixFails
  BY <1>13 DEF distanceMatrixFails
<1>14. CASE lateListAnswers
  <2>1. wsDelegate' \in Delegates /\ fault' \in Faults
    BY <1>14 DEF lateListAnswers, Delegates, Faults
  <2>2. QED
    BY <1>14, <2>1
    DEF lateListAnswers, connectClientProviderRequestSocket, dashVars
<1>15. CASE lateListFails
  BY <1>15 DEF lateListFails, dashVars
<1>16. QED
  BY <1>1, <1>2, <1>3, <1>4, <1>5, <1>6, <1>7, <1>8, <1>9, <1>10, <1>11,
     <1>12, <1>13, <1>14, <1>15
  DEF DashboardStep

\* Every step of the socket keeps the types.
LEMMA SocketTypes == ASSUME TypeOK, SocketStep PROVE TypeOK'
<1> USE ClientBounds, ValueTypes
    DEF TypeOK, launchVars, dashVars, srvVars
<1>1. CASE websocketDidConnect
  BY <1>1 DEF websocketDidConnect
<1>2. CASE websocketDidDisconnect
  BY <1>2 DEF websocketDidDisconnect
<1>3. ASSUME net # <<>>, net' = Tail(net)
      PROVE  net' \in Seq(Messages) /\ Head(net) \in Messages
  BY <1>3, HeadTailProperties
<1>4. CASE dashOnMessage
  <2>1. currentRequest' \in Requests /\ matrixCalls' \in Nat
    BY <1>3, <1>4, RequestTypes DEF dashOnMessage, Receive
  <2>2. QED
    BY <1>3, <1>4, <2>1 DEF dashOnMessage, Receive
<1>5. CASE sheetOnMessage
  <2>1. /\ sheet' \in Sheets /\ wsDelegate' \in Delegates
        /\ fault' \in Faults /\ doesRequestExist' \in BOOLEAN
    BY <1>5, RequestTypes
    DEF sheetOnMessage, pushTripFromSheet, dismiss, ClientTripViewDidLoad,
        Delegates, Faults, Sheets
  <2>2. tripVC' \in TripVCs
    BY <1>5, TripVCTypes
    DEF sheetOnMessage, pushTripFromSheet, ClientTripViewDidLoad
  <2>3. QED
    BY <1>3, <1>5, <2>1, <2>2 DEF sheetOnMessage, Receive
<1>6. CASE tripOnMessage
  <2>1. tripVC' \in TripVCs
    BY <1>6, TripVCTypes DEF tripOnMessage
  <2>2. QED
    BY <1>3, <1>6, <2>1 DEF tripOnMessage, Receive
<1>7. CASE dropMessage
  BY <1>3, <1>7 DEF dropMessage, Receive
<1>8. QED
  BY <1>1, <1>2, <1>4, <1>5, <1>6, <1>7 DEF SocketStep

\* Every step of the user or of the life cycle keeps the types.
LEMMA UserTypes == ASSUME TypeOK, UserStep PROVE TypeOK'
<1> USE ClientBounds, ValueTypes
    DEF TypeOK, launchVars, dashVars, sockVars, srvVars
<1>1. ASSUME NEW staysShown \in BOOLEAN, cancelTrip(staysShown)
      PROVE  TypeOK'
  BY <1>1, RequestTypes DEF cancelTrip
<1>2. CASE submitReview
  BY <1>2, TripVCTypes DEF submitReview
<1>3. CASE backFromTrip
  BY <1>3, TripVCTypes DEF backFromTrip
<1>4. CASE didEnterBackground
  BY <1>4 DEF didEnterBackground
<1>5. CASE willEnterForeground
  <2>1. tripVC' \in TripVCs
    BY <1>5, TripVCTypes DEF willEnterForeground
  <2>2. fault' \in Faults /\ background' \in BOOLEAN
    BY <1>5 DEF willEnterForeground, Faults
  <2>3. QED
    BY <1>5, <2>1, <2>2 DEF willEnterForeground
<1>6. CASE Relaunch
  <2>1. kills' \in 0 .. MaxKills
    BY <1>6 DEF Relaunch
  <2>2. 0 \in Nat
    OBVIOUS
  <2>3. QED
    BY <1>6, <2>1, <2>2 DEF Relaunch, Faults, Delegates
<1>7. QED
  BY <1>1, <1>2, <1>3, <1>4, <1>5, <1>6 DEF UserStep

\* Every step of the server keeps the types.
LEMMA ServerTypes == ASSUME TypeOK, ServerStep PROVE TypeOK'
<1> USE ClientBounds, ValueTypes
    DEF TypeOK, launchVars, clientVars
<1>1. CASE ServerTakesRequest
  <2>1. trip' \in Trips
    BY <1>1 DEF ServerTakesRequest, Trips, TripIds, Statuses
  <2>2. QED
    BY <1>1, <2>1 DEF ServerTakesRequest
<1>2. CASE ServerTakesCancel
  <2>1. trip' \in Trips
    BY <1>2 DEF ServerTakesCancel, Trips, Statuses
  <2>2. QED
    BY <1>2, <2>1 DEF ServerTakesCancel
<1>3. CASE ServerTakesTripCancel
  <2>1. trip' \in Trips
    BY <1>3 DEF ServerTakesTripCancel, Trips, Statuses
  <2>2. QED
    BY <1>3, <2>1 DEF ServerTakesTripCancel
<1>4. ASSUME NEW from \in Statuses, NEW to \in Statuses,
             NEW type \in {"trip_accepted", "trip_cancelled", "reached",
                           "Trip_Started", "Trip_Ended"},
             TripStep(from, to, type)
      PROVE  TypeOK'
  <2>1. trip' \in Trips
    BY <1>4 DEF TripStep, Trips
  <2>2. [type |-> type, trip |-> trip.id] \in Messages
    BY DEF Trips, Messages
  <2>3. net' \in Seq(Messages)
    <3>1. net' = net \/ net' = Append(net, [type |-> type, trip |-> trip.id])
      BY <1>4 DEF TripStep, Send
    <3>2. QED
      BY <2>2, <3>1, AppendProperties
  <2>4. QED
    BY <1>4, <2>1, <2>3 DEF TripStep
<1>5. CASE ProviderStep
  BY <1>4, <1>5 DEF ProviderStep, Statuses
<1>6. QED
  BY <1>1, <1>2, <1>3, <1>5 DEF ServerStep

\* A stuttering step changes nothing.
LEMMA TypeStutter == ASSUME TypeOK, UNCHANGED vars PROVE TypeOK'
BY DEF TypeOK, vars, launchVars, dashVars, sockVars, srvVars

\* Type correctness of the client's phone: in particular no counter of
\* pending timers or distance calls is decremented below zero, and the
\* server's trip numbers stay within MaxTrips.
THEOREM TypeCorrect == Spec => []TypeOK
<1>1. TypeOK /\ [Next]_vars => TypeOK'
  BY DashboardTypes, SocketTypes, UserTypes, ServerTypes, TypeStutter
  DEF Next
<1>2. QED
  BY <1>1, TypeInit, PTL DEF Spec

-----------------------------------------------------------------------------
\* The inductive invariant without the types.
Safe == /\ OverlayHasTimer /\ NoScreenWhileLoading /\ VisibleScreenListens
        /\ SocketBeforeTraffic /\ SocketBeforeWrite /\ NetAccepted
        /\ KnownTripsAccepted /\ SheetAfterAcceptance

\* Init satisfies the invariants.
LEMMA SafeInit == Init => Safe
BY DEF Init, Safe, OverlayHasTimer, NoScreenWhileLoading, VisibleScreenListens,
       SocketBeforeTraffic, SocketBeforeWrite, NetAccepted,
       KnownTripsAccepted,
       SheetAfterAcceptance, NoRequest, NoTrip, NoSheet, NoTripVC

\* The steps of the dashboard.
LEMMA DashboardSafe == ASSUME TypeOK, TypeOK', Safe, DashboardStep PROVE Safe'
<1> USE DEF Safe, TypeOK, OverlayHasTimer, NoScreenWhileLoading,
    VisibleScreenListens, SocketBeforeTraffic, SocketBeforeWrite,
    NetAccepted, KnownTripsAccepted, SheetAfterAcceptance, Accepted, Requests, Trips,
    TripIds, Sheets, Messages, Alive, Foreground, DashVisible, launchVars,
    sockVars, srvVars, timerAction
<1>1. ASSUME NEW success \in BOOLEAN, checkClientTripExist(success)
      PROVE  Safe'
  BY <1>1 DEF checkClientTripExist
<1>2. CASE tracingLocation
  BY <1>2 DEF tracingLocation
<1>3. CASE getOnlineProviderList
  <2>1. CASE ~doesRequestExist
    BY <1>3, <2>1 DEF getOnlineProviderList, checkIfTripExists
  <2>2. CASE doesRequestExist /\ clientExistingTrip.status # "started"
    BY <1>3, <2>2
    DEF getOnlineProviderList, checkIfTripExists, openBottomSheet,
        connectClientProviderRequestSocket
  <2>3. CASE doesRequestExist /\ clientExistingTrip.status = "started"
    BY <1>3, <2>3
    DEF getOnlineProviderList, checkIfTripExists,
        connectClientProviderRequestSocket, ClientTripViewDidLoad
  <2>4. QED
    BY <2>1, <2>2, <2>3
<1>4. CASE getOnlineProviderListFails
  BY <1>4 DEF getOnlineProviderListFails
<1>5. CASE signOut
  BY <1>5 DEF signOut, NoRequest
<1>6. CASE sendRequest
  BY <1>6 DEF sendRequest
<1>7. CASE postRequestSucceeds
  BY <1>7 DEF postRequestSucceeds, connectClientProviderRequestSocket
<1>8. CASE postRequestFails
  BY <1>8 DEF postRequestFails
<1>9. CASE cancelRequest
  BY <1>9 DEF cancelRequest
<1>10. CASE cancelRequestSucceeds
  BY <1>10 DEF cancelRequestSucceeds
<1>11. CASE overlayTimerFires
  BY <1>11 DEF overlayTimerFires
<1>12. CASE distanceMatrixSucceeds
  BY <1>12 DEF distanceMatrixSucceeds, openBottomSheet
<1>13. CASE distanceMatrixFails
  BY <1>13 DEF distanceMatrixFails
<1>14. CASE lateListAnswers
  <2>1. /\ UNCHANGED <<dashVars, sheet, tripVC, trip, doesRequestExist,
                       clientExistingTrip>>
        /\ wsDelegate' = "oldDash"
        /\ net' = <<>> \/ net' = net
        /\ socket' = "connecting" \/ socket' = socket
    BY <1>14 DEF lateListAnswers, connectClientProviderRequestSocket
  <2>2. SocketBeforeTraffic' /\ SocketBeforeWrite' /\ NetAccepted'
    BY <1>14, <2>1
    DEF lateListAnswers, connectClientProviderRequestSocket, dashVars
  <2>3. QED
    BY <2>1, <2>2 DEF dashVars
<1>15. CASE lateListFails
  BY <1>15 DEF lateListFails, dashVars
<1>16. QED
  BY <1>1, <1>2, <1>3, <1>4, <1>5, <1>6, <1>7, <1>8, <1>9, <1>10, <1>11,
     <1>12, <1>13, <1>14, <1>15
  DEF DashboardStep

\* The first message in flight is about an accepted trip, and so are the rest.
LEMMA ReceiveAccepted ==
    ASSUME TypeOK, NetAccepted, net # <<>>, net' = Tail(net), trip' = trip
    PROVE  /\ Head(net) \in Messages /\ Accepted(Head(net).trip)
           /\ NetAccepted'
<1>1. Head(net) \in Messages /\ Head(net) = net[1] /\ Len(net) \in Nat
      /\ DOMAIN net = 1 .. Len(net) /\ Len(net) # 0
  BY HeadTailProperties, EmptySeq, LenProperties DEF TypeOK
<1>2. Len(net') = Len(net) - 1 /\ DOMAIN net' = 1 .. Len(net')
      /\ \A i \in 1 .. Len(net') : net'[i] = net[i + 1]
  BY HeadTailProperties DEF TypeOK
<1>3. 1 \in DOMAIN net /\ \A i \in DOMAIN net' : i + 1 \in DOMAIN net
  BY <1>1, <1>2
<1>4. \A id : Accepted(id)' <=> Accepted(id)
  BY DEF Accepted
<1>5. QED
  BY <1>1, <1>2, <1>3, <1>4 DEF NetAccepted

\* The steps of the socket.
LEMMA SocketSafe == ASSUME TypeOK, TypeOK', Safe, SocketStep PROVE Safe'
<1> USE DEF Safe, OverlayHasTimer, NoScreenWhileLoading, VisibleScreenListens,
    SocketBeforeTraffic, SocketBeforeWrite, KnownTripsAccepted,
    SheetAfterAcceptance, launchVars, dashVars, srvVars
<1>1. CASE websocketDidConnect
  BY <1>1 DEF websocketDidConnect, NetAccepted, Accepted
<1>2. CASE websocketDidDisconnect
  BY <1>2 DEF websocketDidDisconnect, NetAccepted, Accepted
<1>3. ASSUME trip' = trip
      PROVE  \A id : Accepted(id)' <=> Accepted(id)
  BY <1>3 DEF Accepted
<1>4. CASE dashOnMessage
  <2>1. /\ NetAccepted' /\ Accepted(Head(net).trip) /\ Head(net).trip # 0
        /\ trip' = trip
    BY <1>4, ReceiveAccepted DEF dashOnMessage, Receive, Accepted
  <2>2. KnownTripsAccepted'
    BY <1>3, <1>4, <2>1 DEF dashOnMessage, Receive, TypeOK
  <2>3. QED
    BY <1>3, <1>4, <2>1, <2>2 DEF dashOnMessage, Receive, TypeOK
<1>5. CASE sheetOnMessage
  <2>1. NetAccepted' /\ trip' = trip
    BY <1>5, ReceiveAccepted DEF sheetOnMessage, Receive
  <2>2. QED
    BY <1>3, <1>5, <2>1
    DEF sheetOnMessage, Receive, pushTripFromSheet, dismiss,
        ClientTripViewDidLoad, TypeOK, Sheets
<1>6. CASE tripOnMessage
  <2>1. NetAccepted' /\ trip' = trip
    BY <1>6, ReceiveAccepted DEF tripOnMessage, Receive
  <2>2. tripVC'.shown = tripVC.shown
    BY <1>6 DEF tripOnMessage, ScheduleTripTimer, TypeOK, TripVCs
  <2>3. QED
    BY <1>3, <1>6, <2>1, <2>2 DEF tripOnMessage, Receive
<1>7. CASE dropMessage
  <2>1. NetAccepted' /\ trip' = trip
    BY <1>7, ReceiveAccepted DEF dropMessage, Receive
  <2>2. QED
    BY <1>3, <1>7, <2>1 DEF dropMessage, Receive
<1>8. QED
  BY <1>1, <1>2, <1>4, <1>5, <1>6, <1>7 DEF SocketStep

\* The steps of the user and of the life cycle.
LEMMA UserSafe == ASSUME TypeOK, TypeOK', Safe, UserStep PROVE Safe'
<1> USE DEF Safe, TypeOK, OverlayHasTimer, NoScreenWhileLoading,
    VisibleScreenListens, SocketBeforeTraffic, SocketBeforeWrite,
    NetAccepted, KnownTripsAccepted, SheetAfterAcceptance, Accepted, Requests, Trips,
    TripIds, Sheets, Messages, Alive, Foreground, DashVisible, launchVars,
    dashVars, sockVars, srvVars
<1>1. ASSUME NEW staysShown \in BOOLEAN, cancelTrip(staysShown)
      PROVE  Safe'
  BY <1>1 DEF cancelTrip
<1>2. CASE submitReview
  BY <1>2 DEF submitReview, TripVCs
<1>3. CASE backFromTrip
  BY <1>3 DEF backFromTrip, TripVCs
<1>4. CASE didEnterBackground
  BY <1>4 DEF didEnterBackground
<1>5. CASE willEnterForeground
  <2>1. tripVC'.shown = tripVC.shown
    BY <1>5 DEF willEnterForeground, TripVCs, ScheduleTripTimer
  <2>2. QED
    BY <1>5, <2>1 DEF willEnterForeground
<1>6. CASE Relaunch
  BY <1>6 DEF Relaunch, NoRequest, NoTrip, NoSheet, NoTripVC
<1>7. QED
  BY <1>1, <1>2, <1>3, <1>4, <1>5, <1>6 DEF UserStep

\* A message about the trip of the server joins the others.
LEMMA SendAccepted ==
    ASSUME TypeOK, NetAccepted, NEW type, Send(type), Accepted(trip.id)',
           trip'.id = trip.id, trip'.status \notin {"none", "requested"}
    PROVE  NetAccepted'
<1> DEFINE m == [type |-> type, trip |-> trip.id]
<1>1. \A id : Accepted(id) => Accepted(id)'
  BY DEF Accepted, TypeOK, Trips, TripIds
<1>2. CASE net' = net
  BY <1>1, <1>2 DEF NetAccepted
<1>3. CASE net' = Append(net, m)
  <2>1. /\ Len(net) \in Nat /\ DOMAIN net = 1 .. Len(net)
        /\ DOMAIN net' = 1 .. Len(net) + 1
        /\ \A i \in 1 .. Len(net) : net'[i] = net[i]
        /\ net'[Len(net) + 1] = m
    BY <1>3 DEF TypeOK
  <2>2. \A i \in DOMAIN net' : i \in DOMAIN net \/ i = Len(net) + 1
    BY <2>1
  <2>3. m.trip = trip'.id
    OBVIOUS
  <2>4. QED
    BY <1>1, <2>1, <2>2, <2>3 DEF NetAccepted
<1>4. QED
  BY <1>2, <1>3 DEF Send

\* The steps of the server: a trip that was accepted stays accepted, and only
\* accepted trips are spoken of.
LEMMA ServerSafe == ASSUME TypeOK, TypeOK', Safe, ServerStep PROVE Safe'
<1> USE DEF Safe, OverlayHasTimer, NoScreenWhileLoading, VisibleScreenListens,
    SocketBeforeTraffic, SocketBeforeWrite, KnownTripsAccepted,
    SheetAfterAcceptance, launchVars, clientVars
<1>1. ASSUME \A id : Accepted(id) => Accepted(id)',
             UNCHANGED <<clientVars, net>>,
             rest' \in {"cancelling", "cancelled"} =>
                rest \in {"cancelling", "cancelled"},
             rest = "idle" => rest' = "idle",
             trip'.status # "none" => trip'.id > 0
      PROVE  Safe'
  BY <1>1 DEF NetAccepted
<1>2. CASE ServerTakesRequest
  <2>1. \A id : Accepted(id) => Accepted(id)'
    BY <1>2 DEF ServerTakesRequest, Accepted, TypeOK, Trips, TripIds
  <2>2. QED
    BY <1>1, <1>2, <2>1 DEF ServerTakesRequest, TypeOK, Trips, TripIds
<1>3. CASE ServerTakesCancel
  <2>1. \A id : Accepted(id) => Accepted(id)'
    BY <1>3 DEF ServerTakesCancel, Accepted, TypeOK, Trips, TripIds
  <2>2. QED
    BY <1>1, <1>3, <2>1 DEF ServerTakesCancel, TypeOK, Trips, TripIds
<1>4. CASE ServerTakesTripCancel
  <2>1. \A id : Accepted(id) => Accepted(id)'
    BY <1>4 DEF ServerTakesTripCancel, Accepted, TypeOK, Trips, TripIds
  <2>2. QED
    BY <1>1, <1>4, <2>1 DEF ServerTakesTripCancel, TypeOK, Trips, TripIds
<1>5. ASSUME NEW from \in Statuses \ {"none"},
             NEW to \in Statuses \ {"none", "requested"}, NEW type,
             TripStep(from, to, type)
      PROVE  Safe'
  <2>1. /\ trip'.id = trip.id /\ trip'.id \in Nat /\ trip'.id > 0
        /\ trip'.status = to
    BY <1>5 DEF TripStep, TypeOK, Trips, TripIds
  <2>2. Accepted(trip.id)' /\ \A id : Accepted(id) => Accepted(id)'
    BY <2>1 DEF Accepted, TypeOK, Trips, TripIds
  <2>3. NetAccepted'
    BY <1>5, <2>1, <2>2, SendAccepted DEF TripStep
  <2>4. net' # <<>> => socket' # "nil"
    BY <1>5 DEF TripStep, Send
  <2>5. QED
    BY <1>5, <2>1, <2>2, <2>3, <2>4 DEF TripStep
<1>6. CASE ProviderStep
  BY <1>5, <1>6 DEF ProviderStep, Statuses
<1>7. QED
  BY <1>2, <1>3, <1>4, <1>6 DEF ServerStep

\* A stuttering step changes nothing.
LEMMA SafeStutter == ASSUME Safe, UNCHANGED vars PROVE Safe'
BY DEF Safe, OverlayHasTimer, NoScreenWhileLoading, VisibleScreenListens,
       SocketBeforeTraffic, SocketBeforeWrite, NetAccepted,
       KnownTripsAccepted, SheetAfterAcceptance, Accepted, vars, launchVars,
       dashVars, sockVars, srvVars

\* The inductive invariant holds in every behaviour.
THEOREM Inductive == Spec => []IndInv
<1>1. TypeOK /\ TypeOK' /\ Safe /\ [Next]_vars => Safe'
  BY DashboardSafe, SocketSafe, UserSafe, ServerSafe, SafeStutter DEF Next
<1>2. Spec => []Safe
  BY <1>1, TypeCorrect, SafeInit, PTL DEF Spec
<1>3. TypeOK /\ Safe => IndInv
  BY DEF Safe, IndInv
<1>4. QED
  BY <1>2, <1>3, TypeCorrect, PTL

\* The waiting overlay always has a pending timer that will remove it, although
\* nothing ties a timer to the request it was started for.
THEOREM OverlayIsTimed == Spec => []OverlayHasTimer
<1>1. IndInv => OverlayHasTimer
  BY DEF IndInv
<1>2. QED
  BY <1>1, Inductive, PTL

\* The one delegate slot of the sockets is held by the sheet or the trip screen
\* that is shown, in whatever order lists, matrix answers, dismissals and
\* logins come, or by a dashboard of an earlier login, whose late list is the
\* only thing that takes it from them; a sheet above a trip screen has lost it
\* to that screen.
THEOREM ScreenIsHeard == Spec => []VisibleScreenListens
<1>1. IndInv => VisibleScreenListens
  BY DEF IndInv
<1>2. QED
  BY <1>1, Inductive, PTL

\* Wherever a cancellation can be written, the socket it unwraps exists.
THEOREM SocketIsThere == Spec => []SocketBeforeWrite
<1>1. IndInv => SocketBeforeWrite
  BY DEF IndInv
<1>2. QED
  BY <1>1, Inductive, PTL

\* The sheet only ever shows a trip that a provider has accepted, though it
\* opens for whatever request the dashboard holds when the matrix answers.
THEOREM SheetIsAccepted == Spec => []SheetAfterAcceptance
<1>1. IndInv => SheetAfterAcceptance
  BY DEF IndInv
<1>2. QED
  BY <1>1, Inductive, PTL

-----------------------------------------------------------------------------
(***************************************************************************)
(* The clock of the trip screen                                            *)
(***************************************************************************)

\* Init satisfies the invariants of the clock.
LEMMA ClockInit == Init => ClockInv
BY DEF Init, ClockInv, MessagesInOrder, ClockOfTrip, NoSheet, NoTrip,
       NoRequest

\* The ids an invariant of the messages compares are numbers, and none is
\* above the server's.
LEMMA IdsAreNumbers ==
    ASSUME IndInv
    PROVE  /\ trip.id \in Nat /\ sheet.request.id \in Nat
           /\ currentRequest.id \in Nat /\ currentRequest.id <= trip.id
           /\ \A i \in DOMAIN net : /\ i \in Nat /\ net[i] \in Messages
                                    /\ net[i].trip \in Nat
                                    /\ net[i].trip <= trip.id
<1>1. /\ trip.id \in Nat /\ sheet.request.id \in Nat
      /\ currentRequest.id \in Nat /\ currentRequest.id <= trip.id
  BY ClientBounds
  DEF IndInv, TypeOK, Trips, TripIds, Sheets, Requests, KnownTripsAccepted,
      Accepted
<1>2. ASSUME NEW i \in DOMAIN net
      PROVE  /\ i \in Nat /\ net[i] \in Messages
             /\ net[i].trip \in Nat /\ net[i].trip <= trip.id
  <2>1. net \in Seq(Messages) /\ DOMAIN net = 1 .. Len(net) /\ Len(net) \in Nat
    BY LenProperties DEF IndInv, TypeOK
  <2>2. i \in Nat /\ net[i] \in Messages
    BY <1>2, <2>1, ElementOfSeq
  <2>3. Accepted(net[i].trip)
    BY <1>2 DEF IndInv, NetAccepted
  <2>4. QED
    BY <1>1, <2>2, <2>3 DEF Accepted
<1>3. QED
  BY <1>1, <1>2

\* The messages that remain are those behind the first.
LEMMA TailIndices ==
    ASSUME TypeOK, net # <<>>, net' = Tail(net)
    PROVE  /\ 1 \in DOMAIN net /\ Head(net) = net[1]
           /\ \A i \in DOMAIN net' : /\ i \in Nat \ {0}
                                     /\ i + 1 \in DOMAIN net
                                     /\ net'[i] = net[i + 1]
<1>1. Head(net) = net[1] /\ Len(net) \in Nat
      /\ DOMAIN net = 1 .. Len(net) /\ Len(net) # 0
  BY HeadTailProperties, EmptySeq, LenProperties DEF TypeOK
<1>2. Len(net') = Len(net) - 1 /\ DOMAIN net' = 1 .. Len(net')
      /\ \A i \in 1 .. Len(net') : net'[i] = net[i + 1]
  BY HeadTailProperties DEF TypeOK
<1>3. QED
  BY <1>1, <1>2

\* What a step of the dashboard does to the messages and to the trip screen.
LEMMA DashboardClock ==
    ASSUME TypeOK, NoScreenWhileLoading, DashboardStep
    PROVE  /\ trip' = trip
           /\ sheet'.request.id \in {sheet.request.id, currentRequest'.id}
           /\ \/ net' = <<>>
              \/ net' = net /\ currentRequest' = currentRequest
           /\ \/ wsDelegate' # "trip" \/ doesRequestExist'
              \/ UNCHANGED <<doesRequestExist, wsDelegate, tripVC, sheet>>
<1> USE DEF launchVars, sockVars, srvVars
<1>1. ASSUME NEW success \in BOOLEAN, checkClientTripExist(success)
      PROVE  /\ UNCHANGED <<trip, net, sheet, currentRequest, wsDelegate,
                            tripVC>>
             /\ doesRequestExist' \/ UNCHANGED doesRequestExist
  BY <1>1 DEF checkClientTripExist
<1>2. CASE getOnlineProviderList
  <2>1. CASE ~doesRequestExist
    BY <1>2, <2>1 DEF getOnlineProviderList, checkIfTripExists
  <2>2. CASE doesRequestExist
    BY <1>2, <2>2
    DEF getOnlineProviderList, checkIfTripExists, openBottomSheet,
        ClientTripViewDidLoad, connectClientProviderRequestSocket
  <2>3. QED
    BY <2>1, <2>2
<1>3. CASE signOut \/ lateListAnswers \/ lateListFails
  BY <1>3 DEF signOut, lateListAnswers, lateListFails,
              connectClientProviderRequestSocket, dashVars
<1>4. CASE distanceMatrixSucceeds
  BY <1>4 DEF distanceMatrixSucceeds, openBottomSheet
<1>5. CASE postRequestSucceeds
  BY <1>5 DEF postRequestSucceeds, connectClientProviderRequestSocket
<1>6. CASE \/ tracingLocation \/ getOnlineProviderListFails \/ sendRequest
           \/ postRequestFails \/ cancelRequest \/ cancelRequestSucceeds
           \/ overlayTimerFires \/ distanceMatrixFails
  BY <1>6 DEF tracingLocation, getOnlineProviderListFails, sendRequest,
              postRequestFails, cancelRequest, cancelRequestSucceeds,
              overlayTimerFires, distanceMatrixFails
<1>7. QED
  BY <1>1, <1>2, <1>3, <1>4, <1>5, <1>6 DEF DashboardStep

\* The steps of the dashboard: a new socket starts with no message, and the
\* trip screen keeps its clock, loses the slot or is that of a recovered trip.
LEMMA DashboardKeepsClock ==
    ASSUME IndInv, IndInv', ClockInv, DashboardStep PROVE ClockInv'
<1>1. TypeOK /\ NoScreenWhileLoading
  BY DEF IndInv
<1>2. currentRequest'.id <= trip'.id
  BY ClientBounds
  DEF IndInv, TypeOK, KnownTripsAccepted, Accepted, Requests, Trips, TripIds
<1>3. MessagesInOrder'
  <2>1. CASE net' = <<>>
    BY <1>1, <1>2, <2>1, DashboardClock, IdsAreNumbers
    DEF ClockInv, MessagesInOrder
  <2>2. CASE net' = net /\ currentRequest' = currentRequest
    BY <1>1, <1>2, <2>2, DashboardClock, IdsAreNumbers
    DEF ClockInv, MessagesInOrder
  <2>3. QED
    BY <1>1, <2>1, <2>2, DashboardClock
<1>4. StartPending' => StartPending
  <2>1. trip' = trip /\ (net' = net \/ net' = <<>>)
    BY <1>1, DashboardClock
  <2>2. QED
    BY <2>1 DEF StartPending
<1>5. ClockOfTrip'
  BY <1>1, <1>4, DashboardClock DEF ClockInv, ClockOfTrip
<1>6. QED
  BY <1>3, <1>5 DEF ClockInv

\* A receipt leaves the order of the remaining messages.
LEMMA ReceiptKeepsOrder ==
    ASSUME IndInv, MessagesInOrder, net # <<>>, net' = Tail(net),
           trip' = trip, sheet'.request = sheet.request,
           \/ currentRequest' = currentRequest
           \/ currentRequest'.id = Head(net).trip
    PROVE  /\ MessagesInOrder'
           /\ StartPending' => StartPending
<1>1. /\ 1 \in DOMAIN net /\ Head(net) = net[1]
      /\ \A i \in DOMAIN net' : /\ i \in Nat \ {0}
                                /\ i + 1 \in DOMAIN net
                                /\ net'[i] = net[i + 1]
  BY TailIndices DEF IndInv
<1>2. \A i \in DOMAIN net' : currentRequest'.id <= net'[i].trip
  <2>1. \A i \in DOMAIN net' : /\ currentRequest.id <= net[i + 1].trip
                               /\ 1 < i + 1
    BY <1>1 DEF MessagesInOrder
  <2>2. \A i \in DOMAIN net' : net[1].trip <= net[i + 1].trip
    BY <1>1, <2>1 DEF MessagesInOrder
  <2>3. QED
    BY <1>1, <2>1, <2>2
<1>3. \A i, j \in DOMAIN net' : i < j => i + 1 < j + 1
  BY <1>1
<1>4. MessagesInOrder'
  BY <1>1, <1>2, <1>3 DEF MessagesInOrder
<1>5. StartPending' => StartPending
  BY <1>1 DEF StartPending
<1>6. QED
  BY <1>4, <1>5

\* Once the start or the end of the current trip is received, no start of it
\* is to come.
LEMMA StartReceived ==
    ASSUME IndInv, MessagesInOrder, net # <<>>, net' = Tail(net),
           trip' = trip, trip.id = sheet.request.id,
           Head(net).type \in {"Trip_Started", "Trip_Ended"}
    PROVE  /\ ~StartPending'
           /\ Head(net).type = "Trip_Started" => StartPending
<1>1. /\ 1 \in DOMAIN net /\ Head(net) = net[1]
      /\ \A i \in DOMAIN net' : /\ i \in Nat \ {0}
                                /\ i + 1 \in DOMAIN net
                                /\ net'[i] = net[i + 1]
  BY TailIndices DEF IndInv
<1>2. \A i \in DOMAIN net : net[i].trip = trip.id
  <2>1. \A i \in DOMAIN net : /\ sheet.request.id <= net[i].trip
                              /\ net[i].trip <= trip.id
                              /\ net[i].trip \in Nat
    BY IdsAreNumbers DEF MessagesInOrder
  <2>2. trip.id \in Nat
    BY IdsAreNumbers
  <2>3. QED
    BY <2>1, <2>2
<1>3. trip.status \in {"started", "ended"}
  BY <1>1, <1>2 DEF MessagesInOrder
<1>4. ASSUME NEW i \in DOMAIN net', net'[i].type = "Trip_Started"
      PROVE  FALSE
  <2>1. i + 1 \in DOMAIN net /\ 1 < i + 1 /\ net[i + 1].type = "Trip_Started"
    BY <1>1, <1>4
  <2>2. net[1].trip = net[i + 1].trip
    BY <1>1, <1>2, <2>1
  <2>3. QED
    BY <1>1, <2>1, <2>2 DEF MessagesInOrder
<1>5. QED
  BY <1>1, <1>3, <1>4 DEF StartPending

\* The steps of the socket: the trip screen that opens has no clock, and the
\* start and the end of its trip reach it once.
LEMMA SocketKeepsClock ==
    ASSUME IndInv, IndInv', ClockInv, SocketStep PROVE ClockInv'
<1> USE DEF launchVars, dashVars, srvVars
<1>1. CASE websocketDidConnect
  BY <1>1 DEF websocketDidConnect, ClockInv, MessagesInOrder, ClockOfTrip,
              StartPending
<1>2. CASE websocketDidDisconnect
  BY <1>2 DEF websocketDidDisconnect, ClockInv, MessagesInOrder,
              ClockOfTrip, StartPending
<1>3. CASE dashOnMessage
  <2>1. MessagesInOrder'
    <3>1. /\ net # <<>> /\ net' = Tail(net) /\ trip' = trip /\ sheet' = sheet
          /\ \/ currentRequest' = currentRequest
             \/ currentRequest'.id = Head(net).trip
      BY <1>3 DEF dashOnMessage, Receive
    <3>2. QED
      BY <3>1, ReceiptKeepsOrder DEF ClockInv
  <2>2. wsDelegate' = "dash"
    BY <1>3 DEF dashOnMessage, Receive
  <2>3. QED
    BY <2>1, <2>2 DEF ClockInv, ClockOfTrip
<1>4. CASE sheetOnMessage
  <2>1. sheet'.request = sheet.request
    BY <1>4 DEF sheetOnMessage, pushTripFromSheet, dismiss, IndInv, TypeOK,
                Sheets
  <2>2. MessagesInOrder'
    <3>1. /\ net # <<>> /\ net' = Tail(net) /\ trip' = trip
          /\ currentRequest' = currentRequest
      BY <1>4 DEF sheetOnMessage, Receive
    <3>2. QED
      BY <2>1, <3>1, ReceiptKeepsOrder DEF ClockInv
  <2>3. \/ wsDelegate' # "trip" \/ doesRequestExist'
        \/ /\ ~tripVC'.leaked /\ ~tripVC'.live /\ ~tripVC'.startTimer
           /\ ~tripVC'.ended
    BY <1>4
    DEF sheetOnMessage, Receive, pushTripFromSheet, dismiss,
        ClientTripViewDidLoad
  <2>4. QED
    BY <2>2, <2>3 DEF ClockInv, ClockOfTrip
<1>5. CASE tripOnMessage
  <2>1. MessagesInOrder' /\ (StartPending' => StartPending)
    <3>1. /\ net # <<>> /\ net' = Tail(net) /\ trip' = trip /\ sheet' = sheet
          /\ currentRequest' = currentRequest
      BY <1>5 DEF tripOnMessage, Receive
    <3>2. QED
      BY <3>1, ReceiptKeepsOrder DEF ClockInv
  <2>2. SUFFICES ASSUME wsDelegate' = "trip", ~doesRequestExist',
                        trip'.id = sheet'.request.id
                 PROVE  ClockOfTrip'
    BY <2>1 DEF ClockInv, ClockOfTrip
  <2>3. /\ trip' = trip /\ trip.id = sheet.request.id
        /\ net # <<>> /\ net' = Tail(net)
        /\ ~tripVC.leaked /\ ~(tripVC.live /\ tripVC.startTimer)
        /\ StartPending \/ tripVC.ended => ~tripVC.live /\ ~tripVC.startTimer
        /\ StartPending => ~tripVC.ended
    BY <1>5, <2>2 DEF tripOnMessage, Receive, ClockInv, ClockOfTrip
  <2>4. CASE Head(net).type = "Trip_Started"
    <3>1. ~StartPending' /\ StartPending
      BY <2>3, <2>4, StartReceived DEF ClockInv
    <3>2. /\ ~tripVC'.leaked /\ ~(tripVC'.live /\ tripVC'.startTimer)
          /\ ~tripVC'.ended
      BY <1>5, <2>3, <2>4, <3>1
      DEF tripOnMessage, ScheduleTripTimer, IndInv, TypeOK, TripVCs
    <3>3. QED
      BY <3>1, <3>2 DEF ClockOfTrip
  <2>5. CASE Head(net).type = "Trip_Ended"
    <3>1. ~StartPending'
      BY <2>3, <2>5, StartReceived DEF ClockInv
    <3>2. ~tripVC'.leaked /\ ~tripVC'.live /\ ~tripVC'.startTimer
      BY <1>5, <2>3, <2>5 DEF tripOnMessage, IndInv, TypeOK, TripVCs
    <3>3. QED
      BY <3>1, <3>2 DEF ClockOfTrip
  <2>6. CASE Head(net).type \notin {"Trip_Started", "Trip_Ended"}
    <3>1. tripVC' = tripVC
      BY <1>5, <2>6 DEF tripOnMessage
    <3>2. QED
      BY <2>1, <2>3, <3>1 DEF ClockOfTrip
  <2>7. QED
    BY <2>4, <2>5, <2>6
<1>6. CASE dropMessage
  <2>1. MessagesInOrder'
    <3>1. /\ net # <<>> /\ net' = Tail(net) /\ trip' = trip /\ sheet' = sheet
          /\ currentRequest' = currentRequest
      BY <1>6 DEF dropMessage, Receive
    <3>2. QED
      BY <3>1, ReceiptKeepsOrder DEF ClockInv
  <2>2. wsDelegate' # "trip"
    BY <1>6 DEF dropMessage, Receive
  <2>3. QED
    BY <2>1, <2>2 DEF ClockInv, ClockOfTrip
<1>7. QED
  BY <1>1, <1>2, <1>3, <1>4, <1>5, <1>6 DEF SocketStep

\* The steps of the user and of the life cycle: a clock that waited for the
\* foreground is the only one that starts.
LEMMA UserKeepsClock ==
    ASSUME IndInv, IndInv', ClockInv, UserStep PROVE ClockInv'
<1> USE DEF launchVars, dashVars, sockVars, srvVars
<1>1. ASSUME UNCHANGED <<net, trip, currentRequest, wsDelegate,
                         doesRequestExist>>,
             sheet'.request = sheet.request,
             /\ tripVC'.live = tripVC.live /\ tripVC'.leaked = tripVC.leaked
             /\ tripVC'.startTimer = tripVC.startTimer
             /\ tripVC'.ended = tripVC.ended
      PROVE  ClockInv'
  <2>1. MessagesInOrder' /\ (StartPending' <=> StartPending)
    BY <1>1 DEF ClockInv, MessagesInOrder, StartPending
  <2>2. QED
    BY <1>1, <2>1 DEF ClockInv, ClockOfTrip
<1>2. ASSUME NEW staysShown \in BOOLEAN, cancelTrip(staysShown)
      PROVE  ClockInv'
  BY <1>1, <1>2 DEF cancelTrip, IndInv, TypeOK, Sheets
<1>3. CASE submitReview
  BY <1>1, <1>3 DEF submitReview, IndInv, TypeOK, TripVCs
<1>4. CASE backFromTrip
  BY <1>1, <1>4 DEF backFromTrip, IndInv, TypeOK, TripVCs
<1>5. CASE didEnterBackground
  BY <1>1, <1>5 DEF didEnterBackground
<1>6. CASE willEnterForeground
  <2>1. CASE tripVC.startTimer
    <3>1. /\ tripVC'.live = TRUE /\ tripVC'.startTimer = FALSE
          /\ tripVC'.leaked = (tripVC.leaked \/ tripVC.live)
          /\ tripVC'.ended = tripVC.ended
      BY <1>6, <2>1
      DEF willEnterForeground, ScheduleTripTimer, IndInv, TypeOK, TripVCs
    <3>2. MessagesInOrder' /\ (StartPending' <=> StartPending)
      BY <1>6
      DEF willEnterForeground, ClockInv, MessagesInOrder, StartPending
    <3>3. QED
      BY <1>6, <2>1, <3>1, <3>2 DEF willEnterForeground, ClockInv, ClockOfTrip
  <2>2. CASE ~tripVC.startTimer
    BY <1>1, <1>6, <2>2 DEF willEnterForeground, IndInv, TypeOK, TripVCs
  <2>3. QED
    BY <2>1, <2>2
<1>7. CASE Relaunch
  <2>1. sheet'.request.id = 0 /\ net' = <<>> /\ wsDelegate' = "none"
        /\ trip' = trip
    BY <1>7 DEF Relaunch, NoSheet, NoRequest
  <2>2. QED
    BY <2>1, IdsAreNumbers DEF ClockInv, MessagesInOrder, ClockOfTrip
<1>8. QED
  BY <1>2, <1>3, <1>4, <1>5, <1>6, <1>7 DEF UserStep

\* The provider's side moves the trip on and tells the client: a start only
\* where none was told, an end behind everything.
LEMMA TripStepKeepsOrder ==
    ASSUME IndInv, MessagesInOrder,
           NEW from \in Statuses \ {"none"},
           NEW to \in Statuses \ {"none", "requested"},
           NEW type \in {"trip_accepted", "trip_cancelled", "reached",
                         "Trip_Started", "Trip_Ended"},
           from \in {"requested", "accepted", "reached"}
              \/ (from = "started" /\ to = "ended"),
           type = "Trip_Started" => from = "reached" /\ to = "started",
           type = "Trip_Ended" => from = "started" /\ to = "ended",
           TripStep(from, to, type)
    PROVE  MessagesInOrder'
<1> DEFINE m == [type |-> type, trip |-> trip.id]
<1>1. /\ trip.status = from /\ trip'.status = to /\ trip'.id = trip.id
      /\ sheet' = sheet /\ currentRequest' = currentRequest
      /\ net' = net \/ net' = Append(net, m)
  BY DEF TripStep, Send, clientVars, IndInv, TypeOK, Trips
<1>2. \A i \in DOMAIN net : net[i].trip = trip.id =>
         /\ net[i].type = "Trip_Started" => to = "ended" /\ from = "started"
         /\ net[i].type # "Trip_Ended"
  BY <1>1 DEF MessagesInOrder
<1>3. CASE net' = net
  BY <1>1, <1>2, <1>3 DEF MessagesInOrder
<1>4. CASE net' = Append(net, m)
  <2>1. /\ Len(net) \in Nat /\ DOMAIN net = 1 .. Len(net)
        /\ DOMAIN net' = 1 .. Len(net) + 1
        /\ \A i \in 1 .. Len(net) : net'[i] = net[i]
        /\ net'[Len(net) + 1] = m
    BY <1>4 DEF IndInv, TypeOK
  <2>2. m.type = type /\ m.trip = trip.id
    OBVIOUS
  <2>3. \A i \in DOMAIN net' :
           \/ i \in DOMAIN net /\ net'[i] = net[i]
           \/ i = Len(net) + 1 /\ net'[i].type = type
              /\ net'[i].trip = trip.id
    BY <2>1, <2>2
  <2> HIDE DEF m
  <2>4. ASSUME NEW i \in DOMAIN net'
        PROVE  /\ sheet'.request.id <= net'[i].trip
               /\ currentRequest'.id <= net'[i].trip
               /\ net'[i].trip = trip'.id =>
                    /\ net'[i].type = "Trip_Started" =>
                          trip'.status \in {"started", "ended"}
                    /\ net'[i].type = "Trip_Ended" => trip'.status = "ended"
    <3>1. CASE i \in DOMAIN net /\ net'[i] = net[i]
      BY <1>1, <1>2, <3>1 DEF MessagesInOrder
    <3>2. CASE net'[i].type = type /\ net'[i].trip = trip.id
      <4>1. /\ sheet.request.id <= trip.id /\ currentRequest.id <= trip.id
        BY IdsAreNumbers DEF MessagesInOrder
      <4>2. QED
        BY <1>1, <3>2, <4>1
    <3>3. QED
      BY <2>3, <3>1, <3>2
  <2>5. ASSUME NEW i \in DOMAIN net', NEW j \in DOMAIN net', i < j
        PROVE  /\ net'[i].trip <= net'[j].trip
               /\ net'[i].trip = net'[j].trip /\ net'[j].type = "Trip_Started"
                    => net'[i].type \notin {"Trip_Started", "Trip_Ended"}
    <3>1. i \in DOMAIN net /\ net'[i] = net[i]
      BY <2>1, <2>3, <2>5
    <3>2. CASE j \in DOMAIN net /\ net'[j] = net[j]
      BY <2>5, <3>1, <3>2 DEF MessagesInOrder
    <3>3. CASE net'[j].type = type /\ net'[j].trip = trip.id
      <4>1. net[i].trip <= trip.id
        BY <3>1, IdsAreNumbers
      <4>2. QED
        BY <1>2, <3>1, <3>3, <4>1
    <3>4. QED
      BY <2>3, <3>2, <3>3
  <2>6. sheet'.request.id <= trip'.id
    BY <1>1 DEF MessagesInOrder
  <2>7. QED
    BY <2>4, <2>5, <2>6 DEF MessagesInOrder
<1>5. QED
  BY <1>1, <1>3, <1>4

\* The steps of the server: a new request is not the trip of any screen yet,
\* and what it tells of the current one it tells in order.
LEMMA ServerKeepsClock ==
    ASSUME IndInv, ClockInv, ServerStep PROVE ClockInv'
<1> USE DEF launchVars, clientVars
<1>1. ASSUME MessagesInOrder',
             UNCHANGED <<sheet, tripVC, wsDelegate, doesRequestExist>>,
             trip'.id = trip.id, StartPending' => StartPending
      PROVE  ClockInv'
  BY <1>1 DEF ClockInv, ClockOfTrip
<1>2. CASE ServerTakesRequest
  <2>1. /\ trip'.id = trip.id + 1 /\ sheet' = sheet /\ net' = net
        /\ currentRequest' = currentRequest
    BY <1>2 DEF ServerTakesRequest
  <2>2. /\ trip.id \in Nat /\ sheet.request.id \in Nat
        /\ sheet.request.id <= trip.id
        /\ \A i \in DOMAIN net : net[i].trip \in Nat /\ net[i].trip <= trip.id
    BY IdsAreNumbers DEF ClockInv, MessagesInOrder
  <2>3. /\ trip'.id # sheet'.request.id /\ sheet'.request.id <= trip'.id
        /\ \A i \in DOMAIN net : net[i].trip # trip'.id
    BY <2>1, <2>2
  <2>4. QED
    BY <2>1, <2>3 DEF ClockInv, MessagesInOrder, ClockOfTrip
<1>3. CASE ServerTakesCancel \/ ServerTakesTripCancel
  <2>1. /\ trip'.id = trip.id /\ sheet' = sheet /\ net' = net
        /\ currentRequest' = currentRequest
        /\ \/ trip' = trip
           \/ /\ trip.status \in {"requested", "accepted", "reached"}
              /\ trip'.status = "cancelled"
    BY <1>3 DEF ServerTakesCancel, ServerTakesTripCancel, IndInv, TypeOK, Trips
  <2>2. MessagesInOrder'
    BY <2>1 DEF ClockInv, MessagesInOrder
  <2>3. StartPending' => StartPending
    BY <2>1 DEF StartPending
  <2>4. QED
    BY <1>1, <1>3, <2>1, <2>2, <2>3
    DEF ServerTakesCancel, ServerTakesTripCancel
<1>4. ASSUME NEW from \in Statuses \ {"none"},
             NEW to \in Statuses \ {"none", "requested"},
             NEW type \in {"trip_accepted", "trip_cancelled", "reached",
                           "Trip_Started", "Trip_Ended"},
             from \in {"requested", "accepted", "reached"}
                \/ (from = "started" /\ to = "ended"),
             type = "Trip_Started" => from = "reached" /\ to = "started",
             type = "Trip_Ended" => from = "started" /\ to = "ended",
             TripStep(from, to, type)
      PROVE  ClockInv'
  <2>1. MessagesInOrder'
    BY <1>4, TripStepKeepsOrder DEF ClockInv
  <2>2. StartPending' => StartPending
    <3>1. /\ trip.status = from /\ trip'.status = to
          /\ \/ net' = net
             \/ net' = Append(net, [type |-> type, trip |-> trip.id])
      BY <1>4 DEF TripStep, Send, IndInv, TypeOK, Trips
    <3>2. CASE from = "started"
      <4>1. ASSUME NEW i \in DOMAIN net', net'[i].type = "Trip_Started"
            PROVE  i \in DOMAIN net /\ net'[i] = net[i]
        BY <1>4, <3>1, <3>2, <4>1 DEF IndInv, TypeOK
      <4>2. QED
        BY <1>4, <3>1, <3>2, <4>1 DEF StartPending
    <3>3. CASE from # "started"
      BY <1>4, <3>1, <3>3 DEF StartPending
    <3>4. QED
      BY <3>2, <3>3
  <2>3. QED
    BY <1>1, <1>4, <2>1, <2>2 DEF TripStep, IndInv, TypeOK, Trips
<1>5. CASE ProviderStep
  BY <1>4, <1>5 DEF ProviderStep, Statuses
<1>6. QED
  BY <1>2, <1>3, <1>5 DEF ServerStep

\* A stuttering step changes nothing.
LEMMA ClockStutter == ASSUME ClockInv, UNCHANGED vars PROVE ClockInv'
BY DEF ClockInv, MessagesInOrder, ClockOfTrip, StartPending, vars,
       launchVars, dashVars, sockVars, srvVars

\* The invariant of the clock holds from the first launch on.
LEMMA ClockHolds == Spec => []ClockInv
<1>1. IndInv /\ IndInv' /\ ClockInv /\ [Next]_vars => ClockInv'
  BY DashboardKeepsClock, SocketKeepsClock, UserKeepsClock, ServerKeepsClock,
     ClockStutter DEF Next
<1>2. QED
  BY <1>1, Inductive, ClockInit, PTL DEF Spec

\* The trip screen that has heard the end of its trip counts no more time: one
\* start reaches it, in the foreground or before it, and the end stops what
\* that start began, for every number of trips, messages and kills.
THEOREM ClockIsStopped == Spec => []ClockStopsAtEnd
<1>1. ClockInv => ClockStopsAtEnd
  BY DEF ClockInv, ClockOfTrip, ClockStopsAtEnd
<1>2. QED
  BY <1>1, ClockHolds, PTL

-----------------------------------------------------------------------------
(***************************************************************************)
(* Refinement of ScreenFlow                                                *)
(***************************************************************************)

\* No matrix call is for an earlier trip than the last sheet, and a dashboard
\* that still loads has no request.
SheetOrder ==
    /\ boot \in {"home", "locating", "listing"} => currentRequest = NoRequest
    /\ matrixCalls > 0 => sheet.request.id <= currentRequest.id

\* The trip that is remembered is no earlier one than the last sheet's, and
\* the only one whose request has a start time, which a sheet then needs.
FoundFirst ==
    doesRequestExist =>
        /\ sheet.request.id <= clientExistingTrip.id
        /\ currentRequest.hasStart =>
              currentRequest.id = clientExistingTrip.id

FlowInv == SheetOrder /\ FoundFirst

\* The first launch has had no sheet and no trip.
LEMMA FlowInit == Init => FlowInv
BY DEF Init, FlowInv, SheetOrder, FoundFirst, NoSheet, NoRequest

\* The steps of the dashboard keep it.
LEMMA DashboardKeepsFlow ==
    ASSUME IndInv, ClockInv, FlowInv, DashboardStep PROVE FlowInv'
<1> USE DEF IndInv, TypeOK, NoScreenWhileLoading, FlowInv, SheetOrder,
        FoundFirst, launchVars, sockVars
<1>n. /\ currentRequest.id \in Nat /\ sheet.request.id \in Nat
      /\ trip.id \in Nat /\ sheet.request.id <= trip.id
      /\ clientExistingTrip.id \in Nat
  BY IdsAreNumbers, ClientBounds
  DEF ClockInv, MessagesInOrder, Trips, TripIds
<1>1. ASSUME NEW success \in BOOLEAN, checkClientTripExist(success)
      PROVE  FlowInv'
  BY <1>1, <1>n DEF checkClientTripExist, NoRequest
<1>2. CASE getOnlineProviderList
  <2>1. CASE ~doesRequestExist
    BY <1>2, <2>1 DEF getOnlineProviderList, checkIfTripExists
  <2>2. CASE doesRequestExist
    <3>1. /\ currentRequest'.id = clientExistingTrip.id
          /\ matrixCalls' = 0 /\ boot' = "ready"
          /\ UNCHANGED <<doesRequestExist, clientExistingTrip>>
      BY <1>2, <2>2 DEF getOnlineProviderList, checkIfTripExists
    <3>2. sheet'.request.id \in {sheet.request.id, currentRequest'.id}
      BY DashboardClock
    <3>3. sheet'.request.id <= clientExistingTrip'.id
      BY <1>n, <2>2, <3>1, <3>2
    <3>4. QED
      BY <3>1, <3>3
  <2>3. QED
    BY <2>1, <2>2
<1>3. CASE signOut \/ lateListAnswers \/ lateListFails
  BY <1>3 DEF signOut, lateListAnswers, lateListFails, NoRequest, dashVars
<1>4. CASE distanceMatrixSucceeds
  <2>1. /\ UNCHANGED <<doesRequestExist, clientExistingTrip, boot,
                       currentRequest>>
        /\ matrixCalls > 0
    BY <1>4 DEF distanceMatrixSucceeds
  <2>2. \/ sheet' = sheet
        \/ /\ sheet'.request = currentRequest
           /\ doesRequestExist => currentRequest.hasStart
    BY <1>4 DEF distanceMatrixSucceeds, openBottomSheet
  <2>3. /\ sheet'.request.id <= currentRequest.id
        /\ doesRequestExist => sheet'.request.id <= clientExistingTrip.id
    BY <1>n, <2>1, <2>2
  <2>4. QED
    BY <2>1, <2>3
<1>5. CASE \/ tracingLocation \/ getOnlineProviderListFails \/ sendRequest
           \/ postRequestSucceeds \/ postRequestFails \/ cancelRequest
           \/ cancelRequestSucceeds \/ overlayTimerFires
           \/ distanceMatrixFails
  BY <1>5 DEF tracingLocation, getOnlineProviderListFails, sendRequest,
              postRequestSucceeds, postRequestFails, cancelRequest,
              cancelRequestSucceeds, overlayTimerFires, distanceMatrixFails
<1>6. QED
  BY <1>1, <1>2, <1>3, <1>4, <1>5 DEF DashboardStep

\* The steps of the socket keep it: messages come in the order of trips, and
\* a live acceptance has no start time.
LEMMA SocketKeepsFlow ==
    ASSUME ~AcceptHasStartTime, IndInv, ClockInv, FlowInv, SocketStep
    PROVE  FlowInv'
<1> USE DEF IndInv, TypeOK, NoScreenWhileLoading, FlowInv, SheetOrder,
        FoundFirst, launchVars, dashVars
<1>1. CASE dashOnMessage
  <2>1. 1 \in DOMAIN net /\ Head(net) = net[1]
    BY <1>1, TailIndices DEF dashOnMessage, Receive
  <2>2. sheet.request.id <= Head(net).trip
    BY <2>1 DEF ClockInv, MessagesInOrder
  <2>3. /\ boot \notin {"home", "locating", "listing"}
        /\ UNCHANGED <<boot, sheet, doesRequestExist, clientExistingTrip>>
    BY <1>1 DEF dashOnMessage, Receive
  <2>4. \/ /\ currentRequest'.id = Head(net).trip
           /\ currentRequest'.hasStart = FALSE
        \/ UNCHANGED <<currentRequest, matrixCalls>>
    BY <1>1 DEF dashOnMessage
  <2>5. QED
    BY <2>2, <2>3, <2>4
<1>2. CASE sheetOnMessage
  <2>1. sheet'.request = sheet.request
    BY <1>2 DEF sheetOnMessage, pushTripFromSheet, dismiss, Sheets
  <2>2. /\ UNCHANGED <<boot, currentRequest, matrixCalls, clientExistingTrip>>
        /\ doesRequestExist' \in {doesRequestExist, FALSE}
    BY <1>2 DEF sheetOnMessage, Receive
  <2>3. sheet'.request.id = sheet.request.id
        /\ currentRequest'.id = currentRequest.id
        /\ currentRequest'.hasStart = currentRequest.hasStart
        /\ clientExistingTrip'.id = clientExistingTrip.id
    BY <2>1, <2>2
  <2>4. SheetOrder'
    BY <2>2, <2>3
  <2>5. FoundFirst'
    BY <2>2, <2>3
  <2>6. QED
    BY <2>4, <2>5
<1>3. CASE tripOnMessage \/ dropMessage
  BY <1>3 DEF tripOnMessage, dropMessage, Receive
<1>4. CASE websocketDidConnect \/ websocketDidDisconnect
  BY <1>4 DEF websocketDidConnect, websocketDidDisconnect
<1>5. QED
  BY <1>1, <1>2, <1>3, <1>4 DEF SocketStep

\* The steps of the user and of the life cycle keep it.
LEMMA UserKeepsFlow ==
    ASSUME IndInv, FlowInv, UserStep PROVE FlowInv'
<1> USE DEF IndInv, TypeOK, FlowInv, SheetOrder, FoundFirst, launchVars,
        dashVars, sockVars
<1>1. ASSUME NEW staysShown \in BOOLEAN, cancelTrip(staysShown)
      PROVE  FlowInv'
  BY <1>1 DEF cancelTrip, Sheets
<1>2. CASE submitReview \/ backFromTrip \/ didEnterBackground
  BY <1>2 DEF submitReview, backFromTrip, didEnterBackground
<1>3. CASE willEnterForeground
  BY <1>3 DEF willEnterForeground
<1>4. CASE Relaunch
  BY <1>4 DEF Relaunch, NoSheet, NoRequest
<1>5. QED
  BY <1>1, <1>2, <1>3, <1>4 DEF UserStep

\* The server and stuttering touch nothing of it.
LEMMA ServerKeepsFlow ==
    ASSUME FlowInv, ServerStep \/ UNCHANGED vars PROVE FlowInv'
<1>1. UNCHANGED <<boot, sheet, matrixCalls, currentRequest, doesRequestExist,
                  clientExistingTrip, wsDelegate>>
  BY DEF ServerStep, ServerTakesRequest, ServerTakesCancel,
         ServerTakesTripCancel, ProviderStep, TripStep, clientVars, vars,
         launchVars, dashVars, sockVars
<1>2. QED
  BY <1>1 DEF FlowInv, SheetOrder, FoundFirst

\* It holds from the first launch on.
LEMMA FlowHolds == ASSUME ~AcceptHasStartTime PROVE Spec => []FlowInv
<1>1. IndInv /\ ClockInv /\ FlowInv /\ [Next]_vars => FlowInv'
  BY DashboardKeepsFlow, SocketKeepsFlow, UserKeepsFlow, ServerKeepsFlow
  DEF Next
<1>2. QED
  BY <1>1, FlowInit, Inductive, ClockHolds, PTL DEF Spec

ViewVars == <<screen, sheet.shown, sheet.request.id, FoundTrip>>

\* What is on screen, case by case, before and after a step.
ScreenFacts ==
    /\ ~Alive => screen = "dead"
    /\ Alive /\ boot = "home" => screen = "splash"
    /\ Alive /\ boot # "home" /\ tripVC.shown =>
          screen = IF tripVC.ended THEN "rating" ELSE "trip"
    /\ Alive /\ boot # "home" /\ ~tripVC.shown =>
          screen = IF viewDisable THEN "waiting" ELSE "dashboard"

\* The case distinction of screen is as its facts say.
LEMMA ScreenIs == NoScreenWhileLoading => ScreenFacts
BY DEF NoScreenWhileLoading, ScreenFacts, screen

\* The same after a step.
LEMMA ScreenIsNext == NoScreenWhileLoading' => ScreenFacts'
BY DEF NoScreenWhileLoading, ScreenFacts, screen

\* The trip found at launch, while the flag of the app delegate is set.
FoundFacts ==
    /\ doesRequestExist =>
          FoundTrip = clientExistingTrip.id /\ FoundTrip \in Nat \ {0}
    /\ ~doesRequestExist => FoundTrip = 0

\* A trip found was accepted, and so is not number 0.
LEMMA FoundIs == IndInv => FoundFacts
BY IdsAreNumbers DEF FoundFacts, FoundTrip, IndInv, KnownTripsAccepted,
                     Accepted

\* The same after a step.
LEMMA FoundIsNext == IndInv' => FoundFacts'
<1>1. SUFFICES ASSUME IndInv' PROVE FoundFacts'
  OBVIOUS
<1>2. trip'.id \in Nat
  BY <1>1, ClientBounds DEF IndInv, TypeOK, Trips, TripIds
<1>3. QED
  BY <1>1, <1>2 DEF FoundFacts, FoundTrip, IndInv, KnownTripsAccepted,
                    Accepted

\* The sheet that a step opens is that of an accepted trip.
LEMMA ShownSheetIsTrips ==
    ASSUME IndInv', sheet'.shown PROVE sheet'.request.id \in Nat \ {0}
BY ClientBounds DEF IndInv, TypeOK, Trips, TripIds, SheetAfterAcceptance,
                    Accepted

\* A step that keeps the flag and the sheet keeps the numbers in view.
LEMMA NumbersKept ==
    ASSUME UNCHANGED <<doesRequestExist, clientExistingTrip>>,
           sheet'.request = sheet.request
    PROVE  UNCHANGED <<sheet.request.id, FoundTrip>>
BY DEF FoundTrip

\* What the flow of a step starts from, and ends in.
FlowFacts == ScreenFacts /\ FoundFacts

\* The steps of the dashboard are steps of the screen flow.
LEMMA DashboardFlow ==
    ASSUME IndInv, IndInv', FlowInv, FlowFacts, FlowFacts', DashboardStep
    PROVE  [Flow!Next]_ViewVars
<1> USE DEF ViewVars, IndInv, TypeOK, NoScreenWhileLoading, FlowFacts, ScreenFacts,
        Alive, Foreground, DashVisible, launchVars, sockVars, timerAction,
        Flow!Next, Flow!Screens, Flow!Dashboards
<1>1. ASSUME NEW success \in BOOLEAN, checkClientTripExist(success)
      PROVE  Flow!OpenDashboard
  <2>1. FoundTrip' \in Nat
    BY DEF FoundFacts
  <2>2. QED
    BY <1>1, <2>1 DEF checkClientTripExist, Flow!OpenDashboard
<1>2. CASE getOnlineProviderList
  <2>1. UNCHANGED FoundTrip
    BY <1>2 DEF getOnlineProviderList, FoundTrip
  <2>2. CASE ~doesRequestExist
    BY <1>2, <2>1, <2>2 DEF getOnlineProviderList, checkIfTripExists
  <2>3. CASE doesRequestExist /\ clientExistingTrip.status # "started"
    <3>1. screen = "dashboard" /\ screen' = "dashboard" /\ ~sheet.shown
      BY <1>2, <2>3
      DEF getOnlineProviderList, checkIfTripExists, openBottomSheet
    <3>2. CASE sheet' = sheet
      BY <2>1, <3>1, <3>2
    <3>3. CASE sheet' # sheet
      <4>1. sheet'.shown /\ sheet'.request.id = clientExistingTrip.id
        BY <1>2, <2>3, <3>3
        DEF getOnlineProviderList, checkIfTripExists, openBottomSheet
      <4>2. /\ sheet'.request.id = FoundTrip
            /\ sheet'.request.id \in Nat \ {0}
            /\ sheet'.request.id >= sheet.request.id
        BY <2>3, <4>1, IdsAreNumbers DEF FoundFacts, FlowInv, FoundFirst
      <4>3. QED
        BY <2>1, <3>1, <4>1, <4>2 DEF Flow!ShowSheet
    <3>4. QED
      BY <3>2, <3>3
  <2>4. CASE doesRequestExist /\ clientExistingTrip.status = "started"
    <3>1. tripVC'.shown /\ ~tripVC'.ended /\ UNCHANGED <<fault, sheet>>
      BY <1>2, <2>4
      DEF getOnlineProviderList, checkIfTripExists, ClientTripViewDidLoad
    <3>2. screen = "dashboard" /\ screen' = "trip" /\ ~sheet.shown
      BY <1>2, <3>1 DEF getOnlineProviderList
    <3>3. QED
      BY <2>1, <2>4, <3>1, <3>2 DEF FoundFacts, Flow!RecoverTrip
  <2>5. QED
    BY <2>2, <2>3, <2>4
<1>3. CASE distanceMatrixSucceeds
  <2>1. UNCHANGED FoundTrip
    BY <1>3 DEF distanceMatrixSucceeds, FoundTrip
  <2>2. CASE UNCHANGED sheet
    BY <1>3, <2>1, <2>2
    DEF distanceMatrixSucceeds, openBottomSheet, Flow!ReturnToDashboard,
        Flow!Crash
  <2>3. CASE /\ ~sheet.shown /\ ~tripVC.shown /\ UNCHANGED fault
             /\ doesRequestExist => currentRequest.hasStart
             /\ sheet' = [shown |-> TRUE, request |-> currentRequest]
    <3>1. screen \in Flow!Dashboards /\ screen' = "dashboard" /\ sheet'.shown
      BY <1>3, <2>3 DEF distanceMatrixSucceeds
    <3>2. sheet'.request.id \in Nat \ {0}
      BY <2>3, ShownSheetIsTrips
    <3>3. /\ sheet'.request.id = currentRequest.id
          /\ sheet'.request.id >= sheet.request.id
      BY <1>3, <2>3, IdsAreNumbers
      DEF distanceMatrixSucceeds, FlowInv, SheetOrder
    <3>4. FoundTrip # 0 => sheet'.request.id = FoundTrip
      BY <2>3, <3>3 DEF FoundFacts, FlowInv, FoundFirst
    <3>5. QED
      BY <2>1, <2>3, <3>1, <3>2, <3>3, <3>4 DEF Flow!ShowSheet
  <2>4. QED
    BY <1>3, <2>2, <2>3 DEF distanceMatrixSucceeds, openBottomSheet
<1>4. ASSUME UNCHANGED <<doesRequestExist, clientExistingTrip, sheet>>,
             \/ signOut \/ postRequestSucceeds \/ cancelRequestSucceeds
             \/ overlayTimerFires \/ lateListAnswers \/ lateListFails
      PROVE  [Flow!Next]_ViewVars
  <2>1. UNCHANGED <<sheet.shown, sheet.request.id, FoundTrip>>
    BY <1>4, NumbersKept
  <2>2. CASE signOut
    BY <2>1, <2>2 DEF signOut, Flow!SignOut
  <2>3. CASE postRequestSucceeds
    BY <2>1, <2>3 DEF postRequestSucceeds, Flow!ReturnToDashboard
  <2>4. CASE cancelRequestSucceeds
    BY <2>1, <2>4
    DEF cancelRequestSucceeds, Flow!ReturnToDashboard, Flow!Crash
  <2>5. CASE overlayTimerFires
    BY <2>1, <2>5 DEF overlayTimerFires, Flow!ReturnToDashboard
  <2>6. CASE lateListAnswers \/ lateListFails
    BY <2>1, <2>6 DEF lateListAnswers, lateListFails, dashVars, Flow!Crash
  <2>7. QED
    BY <1>4, <2>2, <2>3, <2>4, <2>5, <2>6
<1>5. CASE \/ tracingLocation \/ getOnlineProviderListFails \/ sendRequest
           \/ postRequestFails \/ cancelRequest \/ distanceMatrixFails
  <2>1. UNCHANGED <<doesRequestExist, clientExistingTrip, sheet, fault, tripVC,
                    viewDisable>>
        /\ (boot' = "home" <=> boot = "home")
    BY <1>5 DEF tracingLocation, getOnlineProviderListFails, sendRequest,
                postRequestFails, cancelRequest, distanceMatrixFails
  <2>2. UNCHANGED <<sheet.request.id, FoundTrip>>
    BY <2>1, NumbersKept
  <2>3. QED
    BY <2>1, <2>2
<1>6. CASE \/ signOut \/ postRequestSucceeds \/ cancelRequestSucceeds
           \/ overlayTimerFires \/ lateListAnswers \/ lateListFails
  <2>1. UNCHANGED <<doesRequestExist, clientExistingTrip, sheet>>
    BY <1>6 DEF signOut, postRequestSucceeds, cancelRequestSucceeds,
                overlayTimerFires, lateListAnswers, lateListFails
  <2>2. QED
    BY <1>4, <1>6, <2>1
<1>7. QED
  BY <1>1, <1>2, <1>3, <1>5, <1>6 DEF DashboardStep

\* The steps of the socket are steps of the screen flow.
LEMMA SocketFlow ==
    ASSUME IndInv, IndInv', FlowFacts, FlowFacts', SocketStep
    PROVE  [Flow!Next]_ViewVars
<1> USE DEF ViewVars, IndInv, TypeOK, NoScreenWhileLoading, FlowFacts, ScreenFacts,
        Alive, launchVars, dashVars, Flow!Next, Flow!Screens, Flow!Dashboards
<1>1. CASE sheetOnMessage
  <2>1. /\ boot' = boot /\ Alive
        /\ UNCHANGED <<clientExistingTrip, viewDisable>>
    BY <1>1 DEF sheetOnMessage, Receive
  <2>2. sheet'.request.id = sheet.request.id
    BY <1>1 DEF sheetOnMessage, pushTripFromSheet, dismiss, Sheets
  <2>3. FoundTrip' \in {FoundTrip, 0}
        /\ (UNCHANGED doesRequestExist => UNCHANGED FoundTrip)
    <3>1. doesRequestExist' \in {doesRequestExist, FALSE}
      BY <1>1 DEF sheetOnMessage
    <3>2. FoundTrip' = IF doesRequestExist' THEN clientExistingTrip.id ELSE 0
      BY <2>1 DEF FoundTrip
    <3>3. QED
      BY <3>1, <3>2 DEF FoundTrip
  <2>4. ASSUME NEW recovered \in BOOLEAN, pushTripFromSheet(recovered)
        PROVE  Flow!BeginTrip \/ Flow!Crash
    <3>1. CASE sheet.shown
      <4>1. /\ fault' = fault /\ sheet'.shown \in BOOLEAN
            /\ tripVC'.shown = TRUE /\ tripVC'.ended = FALSE
        BY <2>4, <3>1 DEF pushTripFromSheet, ClientTripViewDidLoad, Sheets
      <4>2. ~tripVC.shown
        BY <1>1 DEF sheetOnMessage, Receive, VisibleScreenListens
      <4>3. screen \in Flow!Dashboards /\ screen' = "trip"
        BY <2>1, <3>1, <4>1, <4>2
      <4>4. QED
        BY <2>2, <2>3, <3>1, <4>1, <4>3 DEF Flow!BeginTrip
    <3>2. CASE ~sheet.shown
      <4>1. screen # "dead" /\ screen' = "dead" /\ sheet' = sheet
        BY <2>1, <2>4, <3>2 DEF pushTripFromSheet
      <4>2. QED
        BY <2>2, <2>3, <4>1 DEF Flow!Crash
    <3>3. QED
      BY <3>1, <3>2
  <2>5. ASSUME dismiss, UNCHANGED <<fault, doesRequestExist, tripVC>>
        PROVE  [Flow!Next]_ViewVars
    <3>1. sheet'.shown \in {sheet.shown, FALSE} /\ UNCHANGED screen
      BY <2>1, <2>5 DEF dismiss, Sheets
    <3>2. QED
      BY <2>2, <2>3, <2>5, <3>1 DEF Sheets, Flow!CloseSheet
  <2>6. ASSUME UNCHANGED <<fault, doesRequestExist, sheet, tripVC>>
        PROVE  [Flow!Next]_ViewVars
    BY <2>1, <2>2, <2>3, <2>6
  <2>7. QED
    BY <1>1, <2>4, <2>5, <2>6 DEF sheetOnMessage
<1>2. ASSUME UNCHANGED <<doesRequestExist, clientExistingTrip, sheet>>,
             \/ tripOnMessage \/ dashOnMessage \/ dropMessage
             \/ websocketDidConnect \/ websocketDidDisconnect
      PROVE  [Flow!Next]_ViewVars
  <2>1. UNCHANGED <<sheet.shown, sheet.request.id, FoundTrip>>
    BY <1>2, NumbersKept
  <2>2. CASE tripOnMessage
    <3>1. /\ tripVC'.shown = tripVC.shown
          /\ tripVC'.ended = tripVC.ended \/ tripVC'.ended = TRUE
      BY <2>2 DEF tripOnMessage, ScheduleTripTimer, TripVCs
    <3>2. QED
      BY <2>1, <2>2, <3>1 DEF tripOnMessage, Receive, TripVCs, Flow!RateTrip
  <2>3. CASE dashOnMessage \/ dropMessage
    BY <2>1, <2>3 DEF dashOnMessage, dropMessage, Receive
  <2>4. CASE websocketDidConnect \/ websocketDidDisconnect
    BY <2>1, <2>4 DEF websocketDidConnect, websocketDidDisconnect
  <2>5. QED
    BY <1>2, <2>2, <2>3, <2>4
<1>3. CASE \/ tripOnMessage \/ dashOnMessage \/ dropMessage
           \/ websocketDidConnect \/ websocketDidDisconnect
  <2>1. UNCHANGED <<doesRequestExist, clientExistingTrip, sheet>>
    BY <1>3 DEF tripOnMessage, dashOnMessage, dropMessage, Receive,
                websocketDidConnect, websocketDidDisconnect
  <2>2. QED
    BY <1>2, <1>3, <2>1
<1>4. QED
  BY <1>1, <1>3 DEF SocketStep

\* The steps of the user and of the life cycle are steps of the screen flow.
LEMMA UserFlow ==
    ASSUME IndInv, IndInv', FlowFacts, FlowFacts', UserStep
    PROVE  [Flow!Next]_ViewVars
<1> USE DEF ViewVars, IndInv, TypeOK, NoScreenWhileLoading, FlowFacts, ScreenFacts,
        Alive, Foreground, launchVars, dashVars, sockVars, Flow!Next,
        Flow!Screens, Flow!Dashboards
<1>1. ASSUME NEW staysShown \in BOOLEAN, cancelTrip(staysShown)
      PROVE  [Flow!Next]_ViewVars
  <2>1. UNCHANGED <<sheet.request.id, FoundTrip>>
    BY <1>1, NumbersKept DEF cancelTrip, Sheets
  <2>2. sheet.shown /\ sheet'.shown \in BOOLEAN /\ UNCHANGED screen
    BY <1>1 DEF cancelTrip, Sheets
  <2>3. QED
    BY <2>1, <2>2 DEF Flow!CloseSheet
<1>2. CASE submitReview \/ backFromTrip
  <2>1. UNCHANGED <<sheet.shown, sheet.request.id, FoundTrip>> /\ ~sheet.shown
    BY <1>2, NumbersKept DEF submitReview, backFromTrip
  <2>2. QED
    BY <1>2, <2>1
    DEF submitReview, backFromTrip, TripVCs, Flow!ReturnToDashboard
<1>3. CASE willEnterForeground
  <2>1. UNCHANGED <<sheet.shown, sheet.request.id, FoundTrip>>
    BY <1>3, NumbersKept DEF willEnterForeground
  <2>2. tripVC'.shown = tripVC.shown /\ tripVC'.ended = tripVC.ended
    BY <1>3 DEF willEnterForeground, ScheduleTripTimer, TripVCs
  <2>3. QED
    BY <1>3, <2>1, <2>2 DEF willEnterForeground, Flow!Crash
<1>4. CASE didEnterBackground
  <2>1. UNCHANGED <<sheet.shown, sheet.request.id, FoundTrip>>
    BY <1>4, NumbersKept DEF didEnterBackground
  <2>2. QED
    BY <1>4, <2>1 DEF didEnterBackground
<1>5. CASE Relaunch
  <2>1. sheet'.request.id = 0 /\ FoundTrip' = 0 /\ ~sheet'.shown
    BY <1>5 DEF Relaunch, NoSheet, NoRequest, FoundTrip
  <2>2. QED
    BY <1>5, <2>1 DEF Relaunch, Flow!Launch
<1>6. QED
  BY <1>1, <1>2, <1>3, <1>4, <1>5 DEF UserStep

\* The server changes no screen.
LEMMA ServerFlow ==
    ASSUME ServerStep PROVE UNCHANGED ViewVars
<1>1. UNCHANGED clientVars
  BY DEF ServerStep, ServerTakesRequest, ServerTakesCancel,
         ServerTakesTripCancel, ProviderStep, TripStep
<1>2. QED
  BY <1>1 DEF clientVars, launchVars, screen, Alive, ViewVars, FoundTrip

\* The dashboard, the sheet and the trip screen, with every interleaving of
\* messages, answers, timers, taps, logins and crashes, implement the screen
\* flow, provided that only a trip found at launch has a TripStartTime: a trip
\* is only entered through the sheet or a recovery, a sheet left over it begins
\* no other, a rating only comes through a trip, no sheet is about an earlier
\* trip than the one before it, and none about another while the trip found at
\* launch is remembered.
THEOREM Refinement ==
    ASSUME ~AcceptHasStartTime PROVE Spec => RefinesScreenFlow
<1>1. Init => Flow!Init
  BY DEF Init, Flow!Init, screen, Alive, NoSheet, NoTripVC, NoRequest,
         FoundTrip
<1>2. IndInv /\ IndInv' /\ FlowInv /\ [Next]_vars => [Flow!Next]_ViewVars
  <2>1. SUFFICES ASSUME IndInv, IndInv', FlowInv, [Next]_vars
                 PROVE  [Flow!Next]_ViewVars
    OBVIOUS
  <2>2. FlowFacts /\ FlowFacts'
    BY <2>1, ScreenIs, ScreenIsNext, FoundIs, FoundIsNext
    DEF IndInv, FlowFacts
  <2>3. CASE Next
    BY <2>1, <2>2, <2>3, DashboardFlow, SocketFlow, UserFlow, ServerFlow
    DEF Next
  <2>4. CASE UNCHANGED vars
    BY <2>4 DEF vars, launchVars, dashVars, screen, Alive, ViewVars,
                FoundTrip
  <2>5. QED
    BY <2>1, <2>3, <2>4
<1>3. QED
  BY <1>1, <1>2, Inductive, FlowHolds, PTL
  DEF Spec, RefinesScreenFlow, ViewVars, Flow!Spec, Flow!vars
=============================================================================
