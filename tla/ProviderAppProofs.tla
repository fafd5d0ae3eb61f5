-------------------------- MODULE ProviderAppProofs --------------------------
(***************************************************************************)
(* The safety of the provider's phone for every number of requests,        *)
(* messages in flight and kills.  First the types, then IndInv; the        *)
(* invariants of ProviderApp follow from it.                               *)
(***************************************************************************)
EXTENDS ProviderApp, SequenceTheorems, TLAPS

Sheets     == [shown : BOOLEAN, id : Ids]
StartTrips == [shown : BOOLEAN, id : Ids, isTripStarted : BOOLEAN,
               ended : BOOLEAN]
Requests   == [id : Ids, status : {"none", "open", "taken", "cancelled"}]
Trips      == [id : Ids, status : {"none", "accepted", "started", "ended",
                                   "cancelled"}]
Rests      == {"idle", "starting", "started", "ending", "ended"}
WsDelegates  == {"none", "dash", "sheet"}
LocDelegates == {"none", "dash", "sheet", "trip"}
Boots      == {"home", "ready"}

\* The `timer' of the dashboard refers to the only location timer that runs.
TimerKnown ==
    timerRef \in BOOLEAN /\ (timerRef => timers = 1) /\ (~timerRef => timers = 0)

\* TypeOK, and the `timer' of the dashboard refers to the only timer that
\* runs: without that invalidate could leave fewer than zero.
TypeInv ==
    /\ fault \in Faults
    /\ background \in BOOLEAN /\ kills \in 0 .. MaxKills
    /\ tab \in BOOLEAN /\ boot \in Boots
    /\ doesRequestExist \in BOOLEAN /\ showUI \in BOOLEAN
    /\ latitude \in BOOLEAN /\ swchStatus \in BOOLEAN
    /\ currentRequest \in Offers
    /\ requestView \in BOOLEAN /\ ring \in BOOLEAN
    /\ requestDetail \in Ids /\ currentAcceptedRequest \in Ids
    /\ TimerKnown
    /\ clientMarker \in BOOLEAN /\ directions \in Nat
    /\ sheet \in Sheets /\ startTrip \in StartTrips /\ rest \in Rests
    /\ wsDelegate \in WsDelegates /\ locDelegate \in LocDelegates
    /\ provSocket \in Sockets /\ provNet \in Seq(ProvMessages)
    /\ reqSocket \in Sockets /\ reqNet \in Seq(ReqMessages)
    /\ reqClient \in Ids
    /\ up \in Seq(UpMessages)
    /\ request \in Requests /\ trip \in Trips

\* The types stated per variable are at least those of TypeOK.
LEMMA TypeInvImplies == TypeInv => TypeOK
BY DEF TypeInv, TypeOK, TimerKnown, Sheets, StartTrips, Requests, Trips, Rests,
       WsDelegates, LocDelegates, Boots

-----------------------------------------------------------------------------
(***************************************************************************)
(* The values the actions write                                            *)
(***************************************************************************)
LEMMA IdTypes == 0 \in Ids /\ Ids \subseteq Nat
BY ProviderBounds DEF Ids

\* The empty records and queues the actions write are of the right type.
LEMMA ValueTypes ==
    /\ NoOffer \in Offers /\ NoSheet \in Sheets /\ NoStartTrip \in StartTrips
    /\ [id |-> 0, status |-> "none"] \in Requests
    /\ [id |-> 0, status |-> "none"] \in Trips
    /\ <<>> \in Seq(ProvMessages) /\ <<>> \in Seq(ReqMessages)
    /\ <<>> \in Seq(UpMessages)
BY IdTypes DEF NoOffer, Offers, NoSheet, Sheets, NoStartTrip, StartTrips,
               Requests, Trips

\* Offers, sheets and trip screens stay such when a field is written.
LEMMA RecordTypes ==
    /\ \A id \in Ids : Offer(id) \in Offers
    /\ \A c \in Offers : c.id \in Ids
    /\ \A id \in Ids : [shown |-> TRUE, id |-> id] \in Sheets
    /\ \A s \in Sheets : s.id \in Ids /\ s.shown \in BOOLEAN
    /\ \A s \in Sheets, b \in BOOLEAN : [s EXCEPT !.shown = b] \in Sheets
    /\ \A id \in Ids, b \in BOOLEAN :
          [shown |-> TRUE, id |-> id, isTripStarted |-> b, ended |-> FALSE]
             \in StartTrips
    /\ \A s \in StartTrips, b \in BOOLEAN :
          /\ [s EXCEPT !.shown = b] \in StartTrips
          /\ [s EXCEPT !.isTripStarted = b] \in StartTrips
          /\ [s EXCEPT !.ended = b] \in StartTrips
    /\ \A t \in Trips : t.id \in Ids
BY DEF Offer, Offers, Sheets, StartTrips, Trips

\* The head and the tail of a queue.
LEMMA ReadTypes ==
    /\ \A net \in Seq(ProvMessages) : net # <<>> =>
          Head(net).id \in Ids /\ Tail(net) \in Seq(ProvMessages)
    /\ \A net \in Seq(ReqMessages) : net # <<>> =>
          Head(net).id \in Ids /\ Tail(net) \in Seq(ReqMessages)
    /\ \A net \in Seq(UpMessages) : net # <<>> =>
          Head(net).id \in Ids /\ Tail(net) \in Seq(UpMessages)
<1>1. /\ \A m \in ProvMessages : m.id \in Ids
      /\ \A m \in ReqMessages : m.id \in Ids
      /\ \A m \in UpMessages : m.id \in Ids
  BY DEF ProvMessages, ReqMessages, UpMessages
<1>2. QED
  BY <1>1, HeadTailProperties

\* A queue after a write.
LEMMA WriteTypes ==
    ASSUME NEW id \in Ids
    PROVE  /\ \A net \in Seq(ProvMessages),
                 type \in {"requested", "cancelled", "trip_accepted"} :
                 Append(net, [type |-> type, id |-> id]) \in Seq(ProvMessages)
           /\ \A net \in Seq(ReqMessages),
                 type \in {"trip_accepted", "trip_cancelled"} :
                 Append(net, [type |-> type, id |-> id]) \in Seq(ReqMessages)
           /\ \A net \in Seq(UpMessages),
                 type \in {"trip_accepted", "trip_cancelled", "reached"} :
                 Append(net, [type |-> type, id |-> id]) \in Seq(UpMessages)
BY DEF ProvMessages, ReqMessages, UpMessages

\* The pieces of the dashboard that move the location timer.
LEMMA TimerTypes ==
    ASSUME TimerKnown
    PROVE  /\ invalidateTimer => TimerKnown'
           /\ scheduleTimer => TimerKnown'
           /\ UNCHANGED <<timerRef, timers>> => TimerKnown'
           /\ viewWillAppear => TimerKnown' /\ locDelegate' \in LocDelegates
<1>1. (IF timerRef THEN 1 - 1 ELSE 0) = 0 /\ 0 + 1 = 1
  OBVIOUS
<1>2. Invalidated = 0
  BY DEF TimerKnown, Invalidated
<1>3. invalidateTimer => TimerKnown'
  BY <1>2, Zenon DEF invalidateTimer, TimerKnown
<1>4. scheduleTimer => TimerKnown'
  BY <1>1, <1>2, Zenon DEF scheduleTimer, TimerKnown
<1>5. UNCHANGED <<timerRef, timers>> => TimerKnown'
  BY DEF TimerKnown
<1>6. viewWillAppear => TimerKnown'
  BY <1>3, <1>5 DEF viewWillAppear
<1>7. QED
  BY <1>3, <1>4, <1>5, <1>6 DEF viewWillAppear, LocDelegates

\* A stopped timer, as after a launch.
LEMMA NoTimer == timerRef = FALSE /\ timers = 0 => TimerKnown
BY Zenon DEF TimerKnown

\* Init is well typed.
LEMMA TypeInit == Init => TypeInv
<1>1. Init => TimerKnown
  BY NoTimer DEF Init
<1>2. Init => kills \in 0 .. MaxKills /\ directions \in Nat
  BY ProviderBounds DEF Init
<1>3. QED
  BY <1>1, <1>2, IdTypes, ValueTypes
  DEF Init, TypeInv, Faults, Sockets, Rests, WsDelegates, LocDelegates, Boots

\* The steps of the launch and of the life cycle keep the types.
LEMMA LaunchTypes == ASSUME TypeInv, LaunchStep PROVE TypeInv'
<1> USE IdTypes, ProviderBounds
        DEF lifeVars, flagVars, dashVars, viewVars, tripVars, provVars, reqVars,
            slotVars, srvVars, TypeInv
<1>1. ASSUME NEW success \in BOOLEAN, NEW seen \in BOOLEAN,
             checkProviderTripExist(success, seen)
      PROVE  TypeInv'
  <2>1. TimerKnown'
    BY <1>1, TimerTypes DEF checkProviderTripExist
  <2>2. trip.id \in Ids
    BY RecordTypes
  <2>3. doesRequestExist' \in BOOLEAN
    BY <1>1, Zenon DEF checkProviderTripExist
  <2>4. sheet' \in Sheets /\ startTrip' \in StartTrips
    BY <1>1, <2>2, RecordTypes
    DEF checkProviderTripExist, pushStartTrip, TripScreen, openBottomSheet
  <2>5. /\ fault' \in Faults /\ wsDelegate' \in WsDelegates
        /\ locDelegate' \in LocDelegates
    BY <1>1
    DEF checkProviderTripExist, pushStartTrip, TripScreen, openBottomSheet, Faults,
        WsDelegates, LocDelegates
  <2>6. /\ currentAcceptedRequest' \in Ids /\ reqSocket' \in Sockets
        /\ reqNet' \in Seq(ReqMessages) /\ reqClient' \in Ids
    BY <1>1, <2>2, ValueTypes
    DEF checkProviderTripExist, connectClientProviderRequestSocket, Sockets
  <2>7. QED
    BY <1>1, <2>1, <2>3, <2>4, <2>5, <2>6 DEF checkProviderTripExist, Boots
<1>2. CASE didEnterBackground
  BY <1>2, TimerTypes DEF didEnterBackground
<1>3. CASE willEnterForeground
  <2>1. currentRequest' \in Offers /\ fault' \in Faults
    BY <1>3, RecordTypes DEF willEnterForeground, showRequestUI, Faults
  <2>2. TimerKnown'
    BY <1>3, TimerTypes DEF willEnterForeground
  <2>3. QED
    BY <1>3, <2>1, <2>2 DEF willEnterForeground, showRequestUI
<1>4. CASE didReceiveNotification
  <2>1. TimerKnown' /\ locDelegate' \in LocDelegates
    BY <1>4, TimerTypes DEF didReceiveNotification
  <2>2. QED
    BY <1>4, <2>1 DEF didReceiveNotification
<1>5. CASE Relaunch
  <2>1. TimerKnown'
    BY <1>5, Zenon DEF Relaunch, TimerKnown
  <2>2. kills' \in 0 .. MaxKills /\ directions' \in Nat
    BY <1>5 DEF Relaunch
  <2>3. QED
    BY <1>5, <2>1, <2>2, ValueTypes
    DEF Relaunch, Faults, Sockets, Rests, WsDelegates, LocDelegates, Boots
<1>6. QED
  BY <1>1, <1>2, <1>3, <1>4, <1>5 DEF LaunchStep

\* The sheet and the slots it takes, when openBottomSheet is called for an id.
LEMMA SheetTypes ==
    ASSUME TypeInv, NEW id \in Ids, NEW hasStart \in BOOLEAN,
           openBottomSheet(id, hasStart)
    PROVE  /\ sheet' \in Sheets /\ fault' \in Faults
           /\ wsDelegate' \in WsDelegates /\ locDelegate' \in LocDelegates
BY RecordTypes
DEF openBottomSheet, TypeInv, slotVars, Faults, WsDelegates, LocDelegates

\* The socket, the slot and the timer after the switch or a reconnection.
LEMMA SwitchTypes ==
    ASSUME TypeInv, NEW isOn \in BOOLEAN,
           requestSocketToChangeStatusOrLocation(isOn)
    PROVE  /\ provSocket' \in Sockets /\ provNet' \in Seq(ProvMessages)
           /\ wsDelegate' \in WsDelegates /\ TimerKnown'
BY TimerTypes, ValueTypes
DEF requestSocketToChangeStatusOrLocation, TypeInv, Sockets, WsDelegates

\* The steps of the dashboard keep the types.
LEMMA DashboardTypes == ASSUME TypeInv, DashboardStep PROVE TypeInv'
<1> USE IdTypes, TimerTypes
        DEF lifeVars, flagVars, dashVars, viewVars, tripVars, provVars, reqVars,
            slotVars, srvVars, TypeInv
<1>1. CASE tracingLocation
  BY <1>1 DEF tracingLocation, Faults
<1>2. CASE switchValueChanged
  <2>1. swchStatus' \in BOOLEAN /\ (~swchStatus) \in BOOLEAN
    BY <1>2, Zenon DEF switchValueChanged
  <2>2. requestSocketToChangeStatusOrLocation(~swchStatus)
    BY <1>2, Zenon DEF switchValueChanged
  <2>3. /\ provSocket' \in Sockets /\ provNet' \in Seq(ProvMessages)
        /\ wsDelegate' \in WsDelegates /\ TimerKnown'
    BY <2>1, <2>2, SwitchTypes, Zenon
  <2>4. QED
    BY <1>2, <2>1, <2>3, Zenon DEF switchValueChanged
<1>3. CASE btnAcceptRequest
  <2>1. currentRequest.id \in Ids
    BY RecordTypes
  <2>2. /\ reqSocket' \in Sockets /\ reqNet' \in Seq(ReqMessages)
        /\ reqClient' \in Ids /\ fault' \in Faults
        /\ requestView' \in BOOLEAN
    BY <1>3, <2>1, ValueTypes
    DEF btnAcceptRequest, connectClientProviderRequestSocket, Faults, Sockets
  <2>3. QED
    BY <1>3, <2>2 DEF btnAcceptRequest
<1>4. CASE btnCancelRequest
  BY <1>4, RecordTypes DEF btnCancelRequest, cancelRequest
<1>5. CASE ringFinishes
  BY <1>5 DEF ringFinishes
<1>6. CASE switchTab
  <2>1. tab' \in BOOLEAN
    BY <1>6, Zenon DEF switchTab
  <2>2. TimerKnown' /\ locDelegate' \in LocDelegates
    BY <1>6, Zenon DEF switchTab
  <2>3. QED
    BY <1>6, <2>1, <2>2, Zenon DEF switchTab
<1>7. CASE directionsSucceed
  <2>1. directions' \in Nat
    BY <1>7 DEF directionsSucceed
  <2>2. /\ sheet' \in Sheets /\ fault' \in Faults
        /\ wsDelegate' \in WsDelegates /\ locDelegate' \in LocDelegates
    BY <1>7, SheetTypes, ProviderBounds DEF directionsSucceed, Faults
  <2>3. QED
    BY <1>7, <2>1, <2>2 DEF directionsSucceed
<1>8. CASE directionsFail
  BY <1>8 DEF directionsFail
<1>9. QED
  BY <1>1, <1>2, <1>3, <1>4, <1>5, <1>6, <1>7, <1>8 DEF DashboardStep

\* The steps of the two sockets keep the types.
LEMMA SocketTypes == ASSUME TypeInv, SocketStep PROVE TypeInv'
<1> USE IdTypes, TimerTypes, ValueTypes
        DEF lifeVars, flagVars, dashVars, viewVars, tripVars, provVars, reqVars,
            slotVars, srvVars, TypeInv
<1>1. CASE providerSocketConnects
  BY <1>1 DEF providerSocketConnects, Sockets
<1>2. CASE onConnect
  <2>1. currentRequest.id \in Ids
    BY RecordTypes
  <2>2. up' \in Seq(UpMessages)
    BY <1>2, <2>1, WriteTypes DEF onConnect
  <2>3. QED
    BY <1>2, <2>2 DEF onConnect, Faults, Sockets
<1>d. ASSUME NEW error \in {"nil", "57", "other"}, DashOnDisconnect(error)
      PROVE  /\ fault' \in Faults /\ wsDelegate' \in WsDelegates
             /\ provSocket' \in Sockets /\ provNet' \in Seq(ProvMessages)
             /\ TimerKnown'
  <2>1. \/ fault' = "error" /\ UNCHANGED <<provVars, wsDelegate, timerRef, timers>>
        \/ requestSocketToChangeStatusOrLocation(swchStatus) /\ UNCHANGED fault
        \/ UNCHANGED <<fault, provVars, wsDelegate, timerRef, timers>>
    BY <1>d, Zenon DEF DashOnDisconnect
  <2>2. QED
    BY <2>1, SwitchTypes DEF Faults
<1>3. ASSUME NEW error \in {"nil", "57", "other"},
             requestSocketDisconnects(error)
      PROVE  TypeInv'
  <2>1. DashOnDisconnect(error)
    BY <1>3 DEF requestSocketDisconnects
  <2>2. QED
    BY <1>d, <1>3, <2>1 DEF requestSocketDisconnects, Sockets
<1>4. ASSUME NEW error \in {"nil", "57", "other"},
             providerSocketDisconnects(error)
      PROVE  TypeInv'
  <2>1. /\ fault' \in Faults /\ wsDelegate' \in WsDelegates
        /\ provSocket' \in Sockets /\ provNet' \in Seq(ProvMessages)
        /\ TimerKnown'
    <3>1. CASE DashOnDisconnect(error)
      BY <1>d, <3>1
    <3>2. CASE ~DashOnDisconnect(error)
      BY <1>4, <3>2 DEF providerSocketDisconnects, Faults, Sockets
    <3>3. QED
      BY <3>1, <3>2
  <2>2. QED
    BY <1>4, <2>1 DEF providerSocketDisconnects
<1>5. CASE onProviderMessage
  <2>1. Head(provNet).id \in Ids /\ provNet' \in Seq(ProvMessages)
    BY <1>5, ReadTypes DEF onProviderMessage
  <2>2. /\ currentRequest' \in Offers /\ requestDetail' \in Ids
        /\ requestView' \in BOOLEAN /\ ring' \in BOOLEAN /\ fault' \in Faults
    BY <1>5, <2>1, RecordTypes
    DEF onProviderMessage, showRequestUI, cancelRequest, Faults
  <2>3. QED
    BY <1>5, <2>1, <2>2 DEF onProviderMessage
<1>6. CASE onRequestMessage
  <2>1. Head(reqNet).id \in Ids /\ reqNet' \in Seq(ReqMessages)
    BY <1>6, ReadTypes DEF onRequestMessage
  <2>2. /\ currentAcceptedRequest' \in Ids /\ fault' \in Faults
        /\ directions' \in Nat /\ TimerKnown'
    BY <1>6, <2>1 DEF onRequestMessage, Faults
  <2>3. QED
    BY <1>6, <2>1, <2>2 DEF onRequestMessage
<1>7. CASE sheetOnMessage
  <2>1. reqNet' \in Seq(ReqMessages)
    BY <1>7, ReadTypes DEF sheetOnMessage
  <2>2. sheet' \in Sheets
    BY <1>7, RecordTypes DEF sheetOnMessage, closeSheet
  <2>3. QED
    BY <1>7, <2>1, <2>2 DEF sheetOnMessage, closeSheet
<1>8. CASE dropMessage
  BY <1>8, ReadTypes DEF dropMessage
<1>9. QED
  BY <1>1, <1>2, <1>3, <1>4, <1>5, <1>6, <1>7, <1>8 DEF SocketStep

\* The steps of the sheet and of the trip screen keep the types.
LEMMA TripTypes == ASSUME TypeInv, TripStep PROVE TypeInv'
<1> USE IdTypes, TimerTypes
        DEF lifeVars, flagVars, dashVars, viewVars, tripVars, provVars, reqVars,
            slotVars, srvVars, TypeInv
<1>s. sheet.id \in Ids /\ [sheet EXCEPT !.shown = FALSE] \in Sheets
  BY RecordTypes
<1>w. /\ Write("trip_cancelled", sheet.id) => up' \in Seq(UpMessages)
      /\ Write("reached", sheet.id) => up' \in Seq(UpMessages)
  BY <1>s, WriteTypes DEF Write
<1>1. CASE CancelRequest
  BY <1>1, <1>s, <1>w DEF CancelRequest, closeSheet
<1>2. CASE cancelAfterAMinute
  BY <1>2 DEF cancelAfterAMinute, Faults
<1>3. CASE textFieldEditingChanged
  <2>1. startTrip' \in StartTrips /\ locDelegate' \in LocDelegates
    BY <1>3, <1>s, RecordTypes
    DEF textFieldEditingChanged, TripScreen, LocDelegates
  <2>2. QED
    BY <1>3, <1>s, <1>w, <2>1 DEF textFieldEditingChanged
<1>4. CASE btnActionPressed
  BY <1>4 DEF btnActionPressed, Rests
<1>5. CASE startEndSucceeds
  BY <1>5, RecordTypes DEF startEndSucceeds, Rests
<1>6. CASE startEndFails
  BY <1>6 DEF startEndFails, Rests
<1>7. CASE leaveTrip
  BY <1>7, RecordTypes DEF leaveTrip
<1>8. QED
  BY <1>1, <1>2, <1>3, <1>4, <1>5, <1>6, <1>7 DEF TripStep

\* The steps of the server keep the types.
LEMMA ServerTypes == ASSUME TypeInv, ServerStep PROVE TypeInv'
<1> USE IdTypes, TimerTypes, ProviderBounds
        DEF lifeVars, flagVars, dashVars, viewVars, tripVars, slotVars, appVars,
            TypeInv
<1>t. ASSUME NEW id \in Ids
      PROVE  /\ \A type \in {"requested", "cancelled", "trip_accepted"} :
                   Tell(type, id) => provNet' \in Seq(ProvMessages)
             /\ \A type \in {"trip_accepted", "trip_cancelled"} :
                   TellTrip(type, id) => reqNet' \in Seq(ReqMessages)
  BY WriteTypes DEF Tell, TellTrip
<1>r. request.id \in Ids /\ trip.id \in Ids
  BY DEF Requests, Trips
<1>1. CASE ClientRequests
  <2>1. request.id + 1 \in Ids
    BY <1>1, <1>r DEF ClientRequests, Ids
  <2>2. request' \in Requests
    BY <1>1, <2>1 DEF ClientRequests, Requests
  <2>3. provNet' \in Seq(ProvMessages)
    BY <1>1, <1>t, <2>1 DEF ClientRequests
  <2>4. QED
    BY <1>1, <2>2, <2>3 DEF ClientRequests
<1>2. ASSUME NEW status \in {"cancelled", "taken"},
             NEW type \in {"cancelled", "trip_accepted"},
             RequestGoes(status, type)
      PROVE  TypeInv'
  <2>1. request' \in Requests
    BY <1>2 DEF RequestGoes, Requests
  <2>2. provNet' \in Seq(ProvMessages)
    BY <1>2, <1>t, <1>r DEF RequestGoes
  <2>3. QED
    BY <1>2, <2>1, <2>2 DEF RequestGoes
<1>3. CASE ServerReads
  <2>1. Head(up).id \in Ids /\ up' \in Seq(UpMessages)
    BY <1>3, ReadTypes DEF ServerReads
  <2>2. request' \in Requests /\ trip' \in Trips
    <3>1. /\ [request EXCEPT !.status = "taken"] \in Requests
          /\ [trip EXCEPT !.status = "cancelled"] \in Trips
          /\ [id |-> Head(up).id, status |-> "accepted"] \in Trips
      BY <2>1 DEF Requests, Trips
    <3>2. QED
      BY <1>3, <3>1 DEF ServerReads
  <2>3. reqNet' \in Seq(ReqMessages)
    BY <1>3, <1>t, <2>1 DEF ServerReads
  <2>4. QED
    BY <1>3, <2>1, <2>2, <2>3 DEF ServerReads
<1>4. CASE ClientCancelsTrip
  <2>1. trip' \in Trips
    BY <1>4 DEF ClientCancelsTrip, Trips
  <2>2. reqNet' \in Seq(ReqMessages)
    BY <1>4, <1>t, <1>r DEF ClientCancelsTrip
  <2>3. QED
    BY <1>4, <2>1, <2>2 DEF ClientCancelsTrip
<1>5. CASE ServerTakesStartEnd
  <2>1. trip' \in Trips /\ rest' \in Rests
    BY <1>5 DEF ServerTakesStartEnd, Trips, Rests
  <2>2. QED
    BY <1>5, <2>1 DEF ServerTakesStartEnd
<1>6. QED
  BY <1>1, <1>2, <1>3, <1>4, <1>5 DEF ServerStep

\* A stuttering step changes nothing.
LEMMA TypeStutter == ASSUME TypeInv, UNCHANGED vars PROVE TypeInv'
BY TimerTypes
DEF vars, lifeVars, flagVars, dashVars, viewVars, tripVars, provVars, reqVars,
    slotVars, srvVars, TypeInv

\* Every step keeps the types.
LEMMA TypeStep == TypeInv /\ [Next]_vars => TypeInv'
BY LaunchTypes, DashboardTypes, SocketTypes, TripTypes, ServerTypes,
   TypeStutter
DEF Next

\* The types hold in every behaviour.
LEMMA TypesHold == Spec => []TypeInv
BY TypeInit, TypeStep, PTL DEF Spec

\* Type correctness of the provider's phone: in particular no count of
\* running timers or pending routes falls below zero, and request numbers
\* stay within MaxRequests.
THEOREM TypeCorrect == Spec => []TypeOK
BY TypesHold, TypeInvImplies, PTL

-----------------------------------------------------------------------------
(***************************************************************************)
(* The inductive invariant                                                 *)
(***************************************************************************)

\* A process that has not reached the dashboard shows none of its screens,
\* listens to nothing and waits for no route.
HomeIsEmpty ==
    boot = "home" =>
        /\ ~sheet.shown /\ ~startTrip.shown /\ directions = 0
        /\ wsDelegate = "none" /\ locDelegate = "none"

\* Whoever listens as the dashboard has gone online, hence has a location.
DashIsLocated == wsDelegate = "dash" => latitude

\* One of the two screens over the dashboard at a time, and a call of the
\* trip screen keeps it on screen until it is answered.
OneScreenOnTop ==
    /\ ~(sheet.shown /\ startTrip.shown)
    /\ rest # "idle" => startTrip.shown

\* The route is computed for an accepted trip, over a socket that exists.
RouteOfAcceptedTrip ==
    directions > 0 => currentAcceptedRequest # 0 /\ reqSocket # "nil"

\* What is in flight names a request; what the request socket brings names
\* a trip the server has had.
ProvIds(net)    == \A i \in 1 .. Len(net) : net[i].id # 0
TripIds(net, n) == \A i \in 1 .. Len(net) : net[i].id # 0 /\ net[i].id <= n
FlightHasIds ==
    /\ ProvIds(provNet) /\ TripIds(reqNet, trip.id)
    /\ reqNet # <<>> => reqSocket # "nil"

\* The phone knows no trip later than the server's.
PhoneBehindServer ==
    /\ currentAcceptedRequest <= trip.id
    /\ startTrip.shown => startTrip.id <= trip.id

\* A trip has a number, and a request that is still open a later one.
RequestAfterTrip ==
    /\ trip.status # "none" => trip.id # 0
    /\ trip.id <= request.id
    /\ request.status = "open" => trip.id < request.id

\* An answered start or end call has been taken by the server.
AnswerFollowsServer ==
    trip.id = startTrip.id =>
        /\ rest = "started" => trip.status \in {"started", "ended"}
        /\ rest = "ended" => trip.status = "ended"

Safe ==
    /\ RequestViewBacked /\ OneLocationTimer /\ PromptsHaveLocation
    /\ SheetListens /\ SheetOfAcceptedTrip /\ TripScreenFollowsServer
    /\ HomeIsEmpty /\ DashIsLocated /\ OneScreenOnTop /\ RouteOfAcceptedTrip
    /\ FlightHasIds /\ PhoneBehindServer /\ RequestAfterTrip
    /\ AnswerFollowsServer

\* Queues that are emptied, read, written, or outlive a trip.
LEMMA FlightEmpty == ProvIds(<<>>) /\ \A n \in Nat : TripIds(<<>>, n)
BY DEF ProvIds, TripIds

\* What is read from the provider socket names a request, and so does the rest.
LEMMA ProvRead ==
    ASSUME NEW net \in Seq(ProvMessages), net # <<>>, ProvIds(net)
    PROVE  Head(net).id # 0 /\ ProvIds(Tail(net))
BY DEF ProvIds

\* What is read from the request socket names a trip the server has, and so
\* does the rest.
LEMMA TripRead ==
    ASSUME NEW net \in Seq(ReqMessages), net # <<>>, NEW n \in Nat,
           TripIds(net, n)
    PROVE  Head(net).id # 0 /\ Head(net).id <= n /\ TripIds(Tail(net), n)
BY DEF TripIds

\* A message about a request joins the provider socket.
LEMMA ProvWrite ==
    ASSUME NEW net \in Seq(ProvMessages), ProvIds(net),
           NEW type \in {"requested", "cancelled", "trip_accepted"},
           NEW id \in Ids, id # 0
    PROVE  ProvIds(Append(net, [type |-> type, id |-> id]))
<1>1. [type |-> type, id |-> id] \in ProvMessages
  BY DEF ProvMessages
<1>2. QED
  BY <1>1, AppendProperties DEF ProvIds

\* A message about a trip of the server joins the request socket.
LEMMA TripWrite ==
    ASSUME NEW net \in Seq(ReqMessages), NEW n \in Nat, TripIds(net, n),
           NEW type \in {"trip_accepted", "trip_cancelled"},
           NEW id \in Ids, id # 0, id <= n
    PROVE  TripIds(Append(net, [type |-> type, id |-> id]), n)
<1>1. [type |-> type, id |-> id] \in ReqMessages
  BY DEF ReqMessages
<1>2. QED
  BY <1>1, AppendProperties DEF TripIds

\* Trips the server had, it still has when it has taken later ones.
LEMMA TripLater ==
    ASSUME NEW net \in Seq(ReqMessages), NEW n \in Nat, NEW k \in Nat, n <= k,
           TripIds(net, n)
    PROVE  TripIds(net, k)
<1>1. \A i \in 1 .. Len(net) : net[i].id \in Nat
  <2>1. \A m \in ReqMessages : m.id \in Nat
    BY IdTypes DEF ReqMessages
  <2>2. QED
    BY <2>1, ElementOfSeq
<1>2. QED
  BY <1>1 DEF TripIds

\* The invariant holds before the first launch.
LEMMA SafeInit == Init => Safe
<1>1. Init => FlightHasIds
  BY FlightEmpty DEF Init, FlightHasIds
<1>2. QED
  BY <1>1
  DEF Init, Safe, RequestViewBacked, OneLocationTimer, PromptsHaveLocation,
      SheetListens, SheetOfAcceptedTrip, TripScreenFollowsServer, HomeIsEmpty,
      DashIsLocated, OneScreenOnTop, RouteOfAcceptedTrip, PhoneBehindServer,
      RequestAfterTrip, AnswerFollowsServer, NoOffer, NoSheet, NoStartTrip

\* The ids of the requests and trips are numbers.
LEMMA NatIds ==
    ASSUME TypeInv
    PROVE  /\ trip.id \in Nat /\ request.id \in Nat /\ sheet.id \in Nat
           /\ startTrip.id \in Nat /\ currentRequest.id \in Nat
           /\ currentAcceptedRequest \in Nat /\ requestDetail \in Nat
<1>1. /\ trip.id \in Ids /\ request.id \in Ids /\ sheet.id \in Ids
      /\ startTrip.id \in Ids /\ currentRequest.id \in Ids
      /\ currentAcceptedRequest \in Ids /\ requestDetail \in Ids
  BY DEF TypeInv, Trips, Requests, Sheets, StartTrips, Offers
<1>2. QED
  BY <1>1, IdTypes

\* The steps of the launch and of the life cycle keep the invariant.
LEMMA LaunchSafe ==
    ASSUME TypeInv, TypeInv', Safe, LaunchStep
    PROVE  Safe'
<1> USE NatIds
    DEF lifeVars, flagVars, dashVars, viewVars, tripVars, provVars, reqVars,
        slotVars, srvVars, Safe, RequestViewBacked, OneLocationTimer,
        PromptsHaveLocation, SheetListens, SheetOfAcceptedTrip,
        TripScreenFollowsServer, HomeIsEmpty, DashIsLocated, OneScreenOnTop,
        RouteOfAcceptedTrip, PhoneBehindServer, RequestAfterTrip,
        AnswerFollowsServer, TypeInv, FlightHasIds, TimerKnown,
        Sheets, StartTrips, Trips, Requests, Offers
<1>1. ASSUME NEW success \in BOOLEAN, NEW seen \in BOOLEAN,
             checkProviderTripExist(success, seen)
      PROVE  Safe'
  BY <1>1, FlightEmpty
  DEF checkProviderTripExist, scheduleTimer, Invalidated, pushStartTrip, TripScreen,
      openBottomSheet, connectClientProviderRequestSocket, Boots
<1>2. CASE didEnterBackground
  BY <1>2 DEF didEnterBackground
<1>3. CASE willEnterForeground
  BY <1>3 DEF willEnterForeground, showRequestUI, Offer
<1>4. CASE didReceiveNotification
  BY <1>4 DEF didReceiveNotification, viewWillAppear, invalidateTimer, Invalidated
<1>5. CASE Relaunch
  <2>1. FlightHasIds'
    BY <1>5, FlightEmpty DEF Relaunch
  <2>2. RequestAfterTrip' /\ PhoneBehindServer' /\ AnswerFollowsServer'
    <3>1. trip.id \in Nat /\ 0 <= trip.id
      BY NatIds
    <3>2. ~startTrip'.shown
      BY <1>5 DEF Relaunch, NoStartTrip
    <3>3. QED
      BY <1>5, <3>1, <3>2 DEF Relaunch
  <2>3. /\ ~sheet'.shown /\ ~startTrip'.shown
        /\ ~requestView' /\ ~timerRef' /\ timers' = 0
    <3>1. ~NoSheet.shown /\ ~NoStartTrip.shown
      BY DEF NoSheet, NoStartTrip
    <3>2. QED
      BY <1>5, <3>1 DEF Relaunch
  <2>4. QED
    BY <1>5, <2>1, <2>2, <2>3 DEF Relaunch
<1>6. QED
  BY <1>1, <1>2, <1>3, <1>4, <1>5 DEF LaunchStep

\* The steps of the dashboard keep the invariant.
LEMMA DashboardSafe ==
    ASSUME TypeInv, TypeInv', Safe, DashboardStep
    PROVE  Safe'
<1> USE NatIds
    DEF lifeVars, flagVars, dashVars, viewVars, tripVars, provVars, reqVars,
        slotVars, srvVars, Safe, RequestViewBacked, OneLocationTimer,
        PromptsHaveLocation, SheetListens, SheetOfAcceptedTrip,
        TripScreenFollowsServer, HomeIsEmpty, DashIsLocated, OneScreenOnTop,
        RouteOfAcceptedTrip, PhoneBehindServer, RequestAfterTrip,
        AnswerFollowsServer, TypeInv, FlightHasIds, TimerKnown,
        Sheets, StartTrips, Trips, Requests, Offers
<1>1. CASE tracingLocation
  BY <1>1 DEF tracingLocation
<1>2. CASE switchValueChanged
  BY <1>2, FlightEmpty
  DEF switchValueChanged, requestSocketToChangeStatusOrLocation,
      invalidateTimer, Invalidated, DashVisible
<1>3. CASE btnAcceptRequest
  BY <1>3, FlightEmpty
  DEF btnAcceptRequest, connectClientProviderRequestSocket
<1>4. CASE btnCancelRequest
  BY <1>4 DEF btnCancelRequest, cancelRequest
<1>5. CASE ringFinishes
  BY <1>5 DEF ringFinishes
<1>6. CASE switchTab
  BY <1>6 DEF switchTab, viewWillAppear, invalidateTimer, Invalidated
<1>7. CASE directionsSucceed
  BY <1>7 DEF directionsSucceed, openBottomSheet
<1>8. CASE directionsFail
  BY <1>8 DEF directionsFail
<1>9. QED
  BY <1>1, <1>2, <1>3, <1>4, <1>5, <1>6, <1>7, <1>8 DEF DashboardStep

\* The steps of the two sockets keep the invariant.
LEMMA SocketSafe ==
    ASSUME TypeInv, TypeInv', Safe, SocketStep
    PROVE  Safe'
<1> USE NatIds
    DEF lifeVars, flagVars, dashVars, viewVars, tripVars, provVars, reqVars,
        slotVars, srvVars, Safe, RequestViewBacked, OneLocationTimer,
        PromptsHaveLocation, SheetListens, SheetOfAcceptedTrip,
        TripScreenFollowsServer, HomeIsEmpty, DashIsLocated, OneScreenOnTop,
        RouteOfAcceptedTrip, PhoneBehindServer, RequestAfterTrip,
        AnswerFollowsServer, TypeInv, FlightHasIds, TimerKnown,
        Sheets, StartTrips, Trips, Requests, Offers
<1>1. CASE providerSocketConnects
  BY <1>1 DEF providerSocketConnects
<1>2. CASE onConnect
  BY <1>2 DEF onConnect
<1>d. ASSUME NEW error \in {"nil", "57", "other"}, DashOnDisconnect(error)
      PROVE  \/ UNCHANGED <<provVars, wsDelegate, timerRef, timers>>
             \/ /\ wsDelegate = "dash"
                /\ requestSocketToChangeStatusOrLocation(swchStatus)
  BY <1>d, Zenon DEF DashOnDisconnect
<1>3. ASSUME NEW error \in {"nil", "57", "other"},
             requestSocketDisconnects(error)
      PROVE  Safe'
  <2>1. \/ UNCHANGED <<provVars, wsDelegate, timerRef, timers>>
        \/ /\ wsDelegate = "dash"
           /\ requestSocketToChangeStatusOrLocation(swchStatus)
    BY <1>d, <1>3 DEF requestSocketDisconnects
  <2>2. QED
    BY <1>3, <2>1, FlightEmpty
    DEF requestSocketDisconnects, requestSocketToChangeStatusOrLocation,
        invalidateTimer, Invalidated
<1>4. ASSUME NEW error \in {"nil", "57", "other"},
             providerSocketDisconnects(error)
      PROVE  Safe'
  <2>1. CASE wsDelegate = "dash" /\ error = "57" /\ swchStatus
    <3>1. DashOnDisconnect(error)
      BY <1>4, <2>1 DEF providerSocketDisconnects
    <3>2. \/ UNCHANGED <<provVars, wsDelegate, timerRef, timers>>
          \/ /\ provNet' = <<>> /\ wsDelegate' = "dash"
             /\ UNCHANGED <<timerRef, timers>>
      BY <1>d, <2>1, <3>1 DEF requestSocketToChangeStatusOrLocation
    <3>3. QED
      BY <1>4, <2>1, <3>2, FlightEmpty DEF providerSocketDisconnects
  <2>2. CASE ~(wsDelegate = "dash" /\ error = "57" /\ swchStatus)
    BY <1>4, <2>2, FlightEmpty
    DEF providerSocketDisconnects, invalidateTimer, Invalidated
  <2>3. QED
    BY <2>1, <2>2
<1>5. CASE onProviderMessage
  <2>1. Head(provNet).id # 0 /\ ProvIds(provNet')
    BY <1>5, ProvRead DEF onProviderMessage
  <2>2. QED
    BY <1>5, <2>1 DEF onProviderMessage, showRequestUI, cancelRequest, Offer
<1>6. CASE onRequestMessage
  <2>1. /\ Head(reqNet).id # 0 /\ Head(reqNet).id <= trip.id
        /\ TripIds(reqNet', trip.id)
    BY <1>6, TripRead DEF onRequestMessage
  <2>2. QED
    BY <1>6, <2>1 DEF onRequestMessage, scheduleTimer, Invalidated
<1>7. CASE sheetOnMessage
  <2>1. TripIds(reqNet', trip.id)
    BY <1>7, TripRead DEF sheetOnMessage
  <2>2. QED
    BY <1>7, <2>1
    DEF sheetOnMessage, closeSheet, viewWillAppear, invalidateTimer, Invalidated
<1>8. CASE dropMessage
  <2>1. CASE provNet # <<>> /\ provNet' = Tail(provNet) /\ UNCHANGED reqNet
    BY <1>8, <2>1, ProvRead DEF dropMessage
  <2>2. CASE reqNet # <<>> /\ reqNet' = Tail(reqNet) /\ UNCHANGED provNet
    BY <1>8, <2>2, TripRead DEF dropMessage
  <2>3. QED
    BY <1>8, <2>1, <2>2 DEF dropMessage
<1>9. QED
  BY <1>1, <1>2, <1>3, <1>4, <1>5, <1>6, <1>7, <1>8 DEF SocketStep

\* The steps of the sheet and of the trip screen keep the invariant.
LEMMA TripSafe ==
    ASSUME TypeInv, TypeInv', Safe, TripStep
    PROVE  Safe'
<1> USE NatIds
    DEF lifeVars, flagVars, dashVars, viewVars, tripVars, provVars, reqVars,
        slotVars, srvVars, Safe, RequestViewBacked, OneLocationTimer,
        PromptsHaveLocation, SheetListens, SheetOfAcceptedTrip,
        TripScreenFollowsServer, HomeIsEmpty, DashIsLocated, OneScreenOnTop,
        RouteOfAcceptedTrip, PhoneBehindServer, RequestAfterTrip,
        AnswerFollowsServer, TypeInv, FlightHasIds, TimerKnown,
        Sheets, StartTrips, Trips, Requests, Offers
<1>1. CASE CancelRequest
  BY <1>1
  DEF CancelRequest, closeSheet, viewWillAppear, invalidateTimer, Invalidated
<1>2. CASE cancelAfterAMinute
  BY <1>2 DEF cancelAfterAMinute
<1>3. CASE textFieldEditingChanged
  BY <1>3
  DEF textFieldEditingChanged, TripScreen, viewWillAppear, invalidateTimer,
      Invalidated
<1>4. CASE btnActionPressed
  BY <1>4 DEF btnActionPressed
<1>5. CASE startEndSucceeds
  BY <1>5 DEF startEndSucceeds
<1>6. CASE startEndFails
  BY <1>6 DEF startEndFails
<1>7. CASE leaveTrip
  BY <1>7 DEF leaveTrip, viewWillAppear, invalidateTimer, Invalidated
<1>8. QED
  BY <1>1, <1>2, <1>3, <1>4, <1>5, <1>6, <1>7 DEF TripStep

\* The steps of the server keep the invariant.
LEMMA ServerSafe ==
    ASSUME TypeInv, TypeInv', Safe, ServerStep
    PROVE  Safe'
<1> USE NatIds
    DEF lifeVars, flagVars, dashVars, viewVars, tripVars, provVars, reqVars,
        slotVars, appVars, Safe, RequestViewBacked, OneLocationTimer,
        PromptsHaveLocation, SheetListens, SheetOfAcceptedTrip,
        TripScreenFollowsServer, HomeIsEmpty, DashIsLocated, OneScreenOnTop,
        RouteOfAcceptedTrip, PhoneBehindServer, RequestAfterTrip,
        AnswerFollowsServer, TypeInv, FlightHasIds, TimerKnown,
        Sheets, StartTrips, Trips, Requests, Offers
<1>p. ASSUME NEW id \in Ids, id # 0,
             NEW type \in {"requested", "cancelled", "trip_accepted"},
             Tell(type, id)
      PROVE  ProvIds(provNet')
  <2>1. ProvIds(Append(provNet, [type |-> type, id |-> id]))
    BY <1>p, ProvWrite
  <2>2. QED
    BY <1>p, <2>1 DEF Tell
<1>t. ASSUME NEW id \in Ids, id # 0, NEW n \in Nat, id <= n,
             NEW type \in {"trip_accepted", "trip_cancelled"},
             TripIds(reqNet, n), TellTrip(type, id)
      PROVE  TripIds(reqNet', n) /\ (reqNet' # <<>> => reqSocket # "nil")
  <2>1. CASE reqSocket = "open" /\ Alive
    <3>1. reqNet' = Append(reqNet, [type |-> type, id |-> id])
      BY <1>t, <2>1 DEF TellTrip
    <3>2. TripIds(Append(reqNet, [type |-> type, id |-> id]), n)
      BY <1>t, TripWrite
    <3>3. QED
      BY <2>1, <3>1, <3>2
  <2>2. CASE ~(reqSocket = "open" /\ Alive)
    BY <1>t, <2>2 DEF TellTrip
  <2>3. QED
    BY <2>1, <2>2
<1>1. CASE ClientRequests
  <2>1. request.id + 1 \in Ids /\ request.id + 1 # 0
    BY <1>1 DEF ClientRequests, Ids
  <2>2. ProvIds(provNet')
    BY <1>1, <1>p, <2>1 DEF ClientRequests
  <2>3. QED
    BY <1>1, <2>2 DEF ClientRequests
<1>2. ASSUME NEW status \in {"cancelled", "taken"},
             NEW type \in {"cancelled", "trip_accepted"},
             RequestGoes(status, type)
      PROVE  Safe'
  <2>1. ProvIds(provNet')
    BY <1>2, <1>p DEF RequestGoes
  <2>2. QED
    BY <1>2, <2>1 DEF RequestGoes
<1>3. CASE ServerReads
  <2>1. Head(up).id \in Ids
    BY <1>3, ReadTypes DEF ServerReads
  <2>2. CASE UNCHANGED <<request, trip, reqNet>>
    BY <1>3, <2>2 DEF ServerReads
  <2>3. CASE /\ trip.status = "accepted" /\ UNCHANGED <<request, reqNet>>
             /\ trip' = [trip EXCEPT !.status = "cancelled"]
    BY <1>3, <2>3 DEF ServerReads
  <2>4. CASE /\ request.status = "open" /\ request.id = Head(up).id
             /\ request' = [request EXCEPT !.status = "taken"]
             /\ trip' = [id |-> Head(up).id, status |-> "accepted"]
             /\ TellTrip("trip_accepted", Head(up).id)
    <3>1. trip.id < request.id /\ trip'.id = request.id /\ request.id # 0
      BY <2>4
    <3>2. TripIds(reqNet, request.id)
      BY <3>1, TripLater
    <3>3. TripIds(reqNet', trip'.id) /\ (reqNet' # <<>> => reqSocket # "nil")
      <4>1. request.id \in Ids /\ request.id \in Nat /\ request.id <= request.id
        BY <2>1, <2>4
      <4>2. TellTrip("trip_accepted", request.id)
        BY <2>4
      <4>3. TripIds(reqNet', request.id) /\ (reqNet' # <<>> => reqSocket # "nil")
        BY <1>t, <3>1, <3>2, <4>1, <4>2
      <4>4. QED
        BY <3>1, <4>3
    <3>4. QED
      BY <1>3, <2>4, <3>1, <3>3 DEF ServerReads
  <2>5. QED
    BY <1>3, <2>2, <2>3, <2>4 DEF ServerReads
<1>4. CASE ClientCancelsTrip
  <2>1. FlightHasIds'
    BY <1>4, <1>t DEF ClientCancelsTrip
  <2>2. QED
    BY <1>4, <2>1 DEF ClientCancelsTrip
<1>5. CASE ServerTakesStartEnd
  BY <1>5 DEF ServerTakesStartEnd
<1>6. QED
  BY <1>1, <1>2, <1>3, <1>4, <1>5 DEF ServerStep

\* A stuttering step changes nothing.
LEMMA SafeStutter == ASSUME Safe, UNCHANGED vars PROVE Safe'
BY DEF vars, lifeVars, flagVars, dashVars, viewVars, tripVars, provVars,
       reqVars, slotVars, srvVars, Safe, RequestViewBacked, OneLocationTimer,
       PromptsHaveLocation, SheetListens, SheetOfAcceptedTrip,
       TripScreenFollowsServer, HomeIsEmpty, DashIsLocated, OneScreenOnTop,
       RouteOfAcceptedTrip, PhoneBehindServer, RequestAfterTrip,
       AnswerFollowsServer, FlightHasIds

-----------------------------------------------------------------------------
(***************************************************************************)
(* The theorems                                                            *)
(***************************************************************************)

\* The invariant is preserved by whatever the phone, its user and the server
\* do, and holds from the first launch on.
THEOREM Inductive == Spec => [](TypeInv /\ Safe)
<1>1. TypeInv /\ Safe /\ [Next]_vars => (TypeInv /\ Safe)'
  BY TypeStep, LaunchSafe, DashboardSafe, SocketSafe, TripSafe, ServerSafe,
     SafeStutter
  DEF Next
<1>2. QED
  BY <1>1, TypeInit, SafeInit, PTL DEF Spec

\* btnAcceptRequest finds a request behind the view it is pressed on, and the
\* view has a ring that will close it.
THEOREM RequestViewIsBacked == Spec => []RequestViewBacked
<1>1. Safe => RequestViewBacked
  BY DEF Safe
<1>2. QED
  BY <1>1, Inductive, PTL

\* scheduleTimer and invalidate never lose a running location timer, and
\* timerFired finds the accepted trip and the request socket it unwraps.
THEOREM TimerIsOne == Spec => []OneLocationTimer
<1>1. Safe => OneLocationTimer
  BY DEF Safe
<1>2. QED
  BY <1>1, Inductive, PTL

\* showRequestUI, the notification and callDistanceAPI find the position they
\* convert.
THEOREM PromptsAreLocated == Spec => []PromptsHaveLocation
<1>1. Safe => PromptsHaveLocation
  BY DEF Safe
<1>2. QED
  BY <1>1, Inductive, PTL

\* A shown client sheet is the delegate of the socket that brings
\* trip_cancelled, after every reconnection.
THEOREM SheetIsListening == Spec => []SheetListens
<1>1. Safe => SheetListens
  BY DEF Safe
<1>2. QED
  BY <1>1, Inductive, PTL

\* What the client sheet cancels or starts is the accepted trip, over a
\* socket that exists.
THEOREM SheetIsOfTrip == Spec => []SheetOfAcceptedTrip
<1>1. Safe => SheetOfAcceptedTrip
  BY DEF Safe
<1>2. QED
  BY <1>1, Inductive, PTL

\* The trip screen offers the end, and the rating, only of a trip that the
\* server has started, and ended.
THEOREM TripScreenIsBehind == Spec => []TripScreenFollowsServer
<1>1. Safe => TripScreenFollowsServer
  BY DEF Safe
<1>2. QED
  BY <1>1, Inductive, PTL

-----------------------------------------------------------------------------
(***************************************************************************)
(* What the phone shows of a trip, step by step                            *)
(***************************************************************************)

\* A process that has not reached the dashboard knows no position, no trip.
HomeIsNew == boot = "home" => ~latitude /\ currentAcceptedRequest = 0

\* The trip on the trip screen stays the accepted one: the dashboard, which
\* would accept another one, does not hear the request socket meanwhile.
TripScreenOfAccepted ==
    startTrip.shown =>
        startTrip.id = currentAcceptedRequest /\ wsDelegate # "dash"

\* Only a start is called for, and answered, before the start, only an end
\* after it.
CallOfScreen ==
    rest # "idle" =>
        /\ ~startTrip.ended
        /\ startTrip.isTripStarted <=> rest \in {"ending", "ended"}

\* The acceptances on their way are in the order of their trips, and about
\* later trips than n.
AcceptancesInOrder(net, n) ==
    /\ \A i \in 1 .. Len(net) : net[i].type = "trip_accepted" => n < net[i].id
    /\ \A i, j \in 1 .. Len(net) :
          /\ i < j
          /\ net[i].type = "trip_accepted" /\ net[j].type = "trip_accepted"
          => net[i].id < net[j].id

FlowInv == /\ HomeIsNew /\ TripScreenOfAccepted /\ CallOfScreen
           /\ AcceptancesInOrder(reqNet, currentAcceptedRequest)

\* An empty queue brings no acceptance.
LEMMA OrderEmpty == \A n \in Nat : AcceptancesInOrder(<<>>, n)
BY DEF AcceptancesInOrder

\* What remains after a read is later than what was read.
LEMMA OrderRead ==
    ASSUME NEW net \in Seq(ReqMessages), net # <<>>, NEW n \in Nat,
           AcceptancesInOrder(net, n)
    PROVE  /\ AcceptancesInOrder(Tail(net), n)
           /\ Head(net).type = "trip_accepted" =>
                 /\ n < Head(net).id
                 /\ AcceptancesInOrder(Tail(net), Head(net).id)
<1>1. /\ Len(Tail(net)) = Len(net) - 1 /\ Len(net) \in Nat /\ Len(net) >= 1
      /\ Head(net) = net[1]
      /\ \A i \in 1 .. Len(net) - 1 : Tail(net)[i] = net[i + 1]
  OBVIOUS
<1>2. QED
  BY <1>1 DEF AcceptancesInOrder

\* A message that is no acceptance, or one of a later trip than any before,
\* joins the queue.
LEMMA OrderWrite ==
    ASSUME NEW net \in Seq(ReqMessages), NEW n \in Nat, NEW k \in Nat,
           AcceptancesInOrder(net, n), TripIds(net, k),
           NEW type \in {"trip_accepted", "trip_cancelled"}, NEW id \in Ids,
           type = "trip_accepted" => n < id /\ k < id
    PROVE  AcceptancesInOrder(Append(net, [type |-> type, id |-> id]), n)
<1> DEFINE m == [type |-> type, id |-> id]
<1>1. /\ Len(Append(net, m)) = Len(net) + 1 /\ Len(net) \in Nat
      /\ \A i \in 1 .. Len(net) : Append(net, m)[i] = net[i]
      /\ Append(net, m)[Len(net) + 1] = m
  <2>1. m \in ReqMessages
    BY DEF ReqMessages
  <2>2. QED
    BY <2>1, AppendProperties
<1>2. m.type = type /\ m.id = id /\ id \in Nat
  BY IdTypes
<1>3. \A i \in 1 .. Len(net) : net[i].id \in Nat
  <2>1. \A c \in ReqMessages : c.id \in Nat
    BY IdTypes DEF ReqMessages
  <2>2. QED
    BY <2>1, ElementOfSeq
<1> HIDE DEF m
<1>4. \A i \in 1 .. Len(net) : net[i].id <= k
  BY DEF TripIds
<1>5. AcceptancesInOrder(Append(net, m), n)
  BY <1>1, <1>2, <1>3, <1>4 DEF AcceptancesInOrder
<1>6. QED
  BY <1>5 DEF m

\* The first launch begins with nothing.
LEMMA FlowInit == Init => FlowInv
BY OrderEmpty
DEF Init, FlowInv, HomeIsNew, TripScreenOfAccepted, CallOfScreen, NoStartTrip

\* A step that moves neither screen, slot, trip nor queue keeps it.
LEMMA FlowFrame ==
    ASSUME FlowInv, boot' = boot, latitude' = latitude \/ boot = "ready",
           currentAcceptedRequest' = currentAcceptedRequest,
           startTrip' = startTrip, rest' = rest, reqNet' = reqNet,
           wsDelegate' = wsDelegate \/ ~startTrip.shown \/ wsDelegate' # "dash"
    PROVE  FlowInv'
BY DEF FlowInv, HomeIsNew, TripScreenOfAccepted, CallOfScreen

\* The steps of the launch and of the life cycle keep it.
LEMMA LaunchKeepsFlow ==
    ASSUME TypeInv, Safe, FlowInv, LaunchStep
    PROVE  FlowInv'
<1> USE DEF lifeVars, flagVars, dashVars, viewVars, tripVars, provVars, reqVars,
            slotVars, srvVars
<1>1. ASSUME NEW success \in BOOLEAN, NEW seen \in BOOLEAN,
             checkProviderTripExist(success, seen)
      PROVE  FlowInv'
  <2>1. boot = "home" /\ boot' = "ready" /\ ~latitude /\ ~startTrip.shown
    BY <1>1 DEF checkProviderTripExist, FlowInv, HomeIsNew, Safe, HomeIsEmpty
  <2>2. rest = "idle" /\ rest' = "idle" /\ wsDelegate = "none"
    BY <1>1, <2>1
    DEF checkProviderTripExist, Safe, HomeIsEmpty, OneScreenOnTop
  <2>3. AcceptancesInOrder(reqNet', currentAcceptedRequest')
    <3>1. CASE doesRequestExist' /\ seen
      BY <1>1, <3>1, OrderEmpty, NatIds
      DEF checkProviderTripExist, connectClientProviderRequestSocket
    <3>2. CASE ~(doesRequestExist' /\ seen)
      BY <1>1, <3>2 DEF checkProviderTripExist, FlowInv
    <3>3. QED
      BY <3>1, <3>2
  <2>4. TripScreenOfAccepted'
    <3>1. CASE startTrip' = startTrip
      BY <2>1, <3>1 DEF TripScreenOfAccepted
    <3>2. CASE startTrip' # startTrip
      <4>1. doesRequestExist' /\ seen /\ trip.status # "accepted"
        BY <1>1, <3>2 DEF checkProviderTripExist
      <4>2. /\ currentAcceptedRequest' = trip.id
            /\ pushStartTrip(trip.id, TRUE) /\ wsDelegate' = wsDelegate
        BY <1>1, <4>1 DEF checkProviderTripExist
      <4>3. QED
        BY <2>2, <4>2 DEF pushStartTrip, TripScreen, TripScreenOfAccepted
    <3>3. QED
      BY <3>1, <3>2
  <2>5. QED
    BY <2>1, <2>2, <2>3, <2>4 DEF FlowInv, HomeIsNew, CallOfScreen
<1>2. CASE didEnterBackground
  BY <1>2, FlowFrame DEF didEnterBackground
<1>3. CASE willEnterForeground
  BY <1>3, FlowFrame DEF willEnterForeground
<1>4. CASE didReceiveNotification
  BY <1>4, FlowFrame DEF didReceiveNotification
<1>5. CASE Relaunch
  BY <1>5, OrderEmpty
  DEF Relaunch, FlowInv, HomeIsNew, TripScreenOfAccepted, CallOfScreen,
      NoStartTrip
<1>6. QED
  BY <1>1, <1>2, <1>3, <1>4, <1>5 DEF LaunchStep

\* The steps of the dashboard keep it.
LEMMA DashboardKeepsFlow ==
    ASSUME TypeInv, Safe, FlowInv, DashboardStep
    PROVE  FlowInv'
<1> USE DEF lifeVars, flagVars, dashVars, viewVars, tripVars, provVars, reqVars,
            slotVars, srvVars
<1>b. boot \in Boots
  BY DEF TypeInv
<1>1. CASE tracingLocation
  <2>1. boot = "ready"
    BY <1>1, <1>b DEF tracingLocation, Safe, HomeIsEmpty, Boots
  <2>2. QED
    BY <1>1, <2>1, FlowFrame DEF tracingLocation
<1>2. CASE switchValueChanged
  <2>1. ~startTrip.shown
    BY <1>2 DEF switchValueChanged, DashVisible
  <2>2. QED
    BY <1>2, <2>1, FlowFrame DEF switchValueChanged
<1>3. CASE btnAcceptRequest
  <2>1. AcceptancesInOrder(reqNet', currentAcceptedRequest')
    BY <1>3, OrderEmpty, NatIds
    DEF btnAcceptRequest, connectClientProviderRequestSocket, FlowInv
  <2>2. QED
    BY <1>3, <2>1
    DEF btnAcceptRequest, FlowInv, HomeIsNew, TripScreenOfAccepted,
        CallOfScreen
<1>4. CASE btnCancelRequest \/ ringFinishes \/ switchTab \/ directionsFail
  BY <1>4, FlowFrame
  DEF btnCancelRequest, ringFinishes, switchTab, directionsFail
<1>5. CASE directionsSucceed
  <2>1. wsDelegate' = wsDelegate \/ wsDelegate' = "sheet"
    BY <1>5 DEF directionsSucceed, openBottomSheet
  <2>2. QED
    BY <1>5, <2>1, FlowFrame DEF directionsSucceed
<1>6. QED
  BY <1>1, <1>2, <1>3, <1>4, <1>5 DEF DashboardStep

\* The steps of the two sockets keep it: each reads acceptances in order, and
\* only a dashboard without trip screen reconnects.
LEMMA SocketKeepsFlow ==
    ASSUME TypeInv, Safe, FlowInv, SocketStep
    PROVE  FlowInv'
<1> USE DEF lifeVars, flagVars, dashVars, viewVars, tripVars, provVars, reqVars,
            slotVars, srvVars
<1>n. reqNet \in Seq(ReqMessages) /\ currentAcceptedRequest \in Nat
  BY NatIds DEF TypeInv
<1>h. ASSUME wsDelegate = "dash"
      PROVE  boot # "home" /\ ~startTrip.shown
  BY <1>h DEF Safe, HomeIsEmpty, FlowInv, TripScreenOfAccepted
<1>1. CASE providerSocketConnects \/ onConnect \/ onProviderMessage
  BY <1>1, FlowFrame DEF providerSocketConnects, onConnect, onProviderMessage
<1>d. ASSUME NEW error \in {"nil", "57", "other"}, DashOnDisconnect(error)
      PROVE  wsDelegate' = wsDelegate \/ wsDelegate = "dash"
  BY <1>d DEF DashOnDisconnect
<1>2. ASSUME NEW error \in {"nil", "57", "other"},
             requestSocketDisconnects(error)
      PROVE  FlowInv'
  <2>1. wsDelegate' = wsDelegate \/ wsDelegate = "dash"
    BY <1>2, <1>d DEF requestSocketDisconnects
  <2>2. AcceptancesInOrder(reqNet', currentAcceptedRequest')
    BY <1>2, <1>n, OrderEmpty DEF requestSocketDisconnects
  <2>3. QED
    BY <1>2, <1>h, <2>1, <2>2
    DEF requestSocketDisconnects, FlowInv, HomeIsNew, TripScreenOfAccepted,
        CallOfScreen
<1>3. ASSUME NEW error \in {"nil", "57", "other"},
             providerSocketDisconnects(error)
      PROVE  FlowInv'
  <2>1. wsDelegate' = wsDelegate \/ wsDelegate = "dash"
    BY <1>3, <1>d DEF providerSocketDisconnects
  <2>2. QED
    BY <1>3, <1>h, <2>1, FlowFrame DEF providerSocketDisconnects
<1>4. CASE onRequestMessage
  <2>1. AcceptancesInOrder(reqNet', currentAcceptedRequest')
    BY <1>4, <1>n, OrderRead DEF onRequestMessage, FlowInv
  <2>2. QED
    BY <1>4, <1>h, <2>1
    DEF onRequestMessage, FlowInv, HomeIsNew, TripScreenOfAccepted,
        CallOfScreen
<1>5. CASE sheetOnMessage \/ dropMessage
  <2>1. AcceptancesInOrder(reqNet', currentAcceptedRequest')
    BY <1>5, <1>n, OrderRead DEF sheetOnMessage, dropMessage, FlowInv
  <2>2. QED
    BY <1>5, <2>1
    DEF sheetOnMessage, dropMessage, closeSheet, FlowInv, HomeIsNew,
        TripScreenOfAccepted, CallOfScreen
<1>6. QED
  BY <1>1, <1>2, <1>3, <1>4, <1>5 DEF SocketStep

\* The steps of the sheet and of the trip screen keep it.
LEMMA TripKeepsFlow ==
    ASSUME TypeInv, Safe, FlowInv, TripStep
    PROVE  FlowInv'
<1> USE DEF lifeVars, flagVars, dashVars, viewVars, tripVars, provVars, reqVars,
            slotVars, srvVars
<1>s. startTrip \in StartTrips /\ rest \in Rests
  BY DEF TypeInv
<1>1. CASE CancelRequest \/ cancelAfterAMinute
  BY <1>1, FlowFrame DEF CancelRequest, cancelAfterAMinute, closeSheet
<1>2. CASE textFieldEditingChanged
  <2>1. /\ sheet.id = currentAcceptedRequest /\ wsDelegate = "sheet"
        /\ rest = "idle"
    BY <1>2
    DEF textFieldEditingChanged, Safe, SheetOfAcceptedTrip, SheetListens,
        OneScreenOnTop
  <2>2. QED
    BY <1>2, <2>1
    DEF textFieldEditingChanged, TripScreen, FlowInv, HomeIsNew,
        TripScreenOfAccepted, CallOfScreen
<1>3. CASE btnActionPressed
  BY <1>3, <1>s
  DEF btnActionPressed, FlowInv, HomeIsNew, TripScreenOfAccepted, CallOfScreen
<1>4. CASE startEndSucceeds
  BY <1>4, <1>s
  DEF startEndSucceeds, StartTrips, FlowInv, HomeIsNew, TripScreenOfAccepted,
      CallOfScreen
<1>5. CASE startEndFails
  BY <1>5
  DEF startEndFails, FlowInv, HomeIsNew, TripScreenOfAccepted, CallOfScreen
<1>6. CASE leaveTrip
  BY <1>6, <1>s
  DEF leaveTrip, StartTrips, FlowInv, HomeIsNew, TripScreenOfAccepted,
      CallOfScreen
<1>7. QED
  BY <1>1, <1>2, <1>3, <1>4, <1>5, <1>6 DEF TripStep

\* The steps of the server keep it: it accepts trips in the order of requests.
LEMMA ServerKeepsFlow ==
    ASSUME TypeInv, TypeInv', Safe, FlowInv, ServerStep
    PROVE  FlowInv'
<1> USE DEF lifeVars, flagVars, dashVars, viewVars, tripVars, slotVars, appVars
<1>n. /\ reqNet \in Seq(ReqMessages) /\ currentAcceptedRequest \in Nat
      /\ trip.id \in Nat /\ trip.id \in Ids
      /\ request.id \in Nat /\ request.id \in Ids
      /\ TripIds(reqNet, trip.id) /\ currentAcceptedRequest <= trip.id
  BY NatIds DEF TypeInv, Trips, Requests, Safe, FlightHasIds, PhoneBehindServer
<1>o. AcceptancesInOrder(reqNet, currentAcceptedRequest)
  BY DEF FlowInv
<1>1. ASSUME AcceptancesInOrder(reqNet', currentAcceptedRequest),
             UNCHANGED appVars, UNCHANGED rest
      PROVE  FlowInv'
  BY <1>1 DEF FlowInv, HomeIsNew, TripScreenOfAccepted, CallOfScreen
<1>2. CASE \/ ClientRequests \/ RequestGoes("cancelled", "cancelled")
           \/ RequestGoes("taken", "trip_accepted")
  BY <1>1, <1>2, <1>o DEF ClientRequests, RequestGoes
<1>3. CASE ServerReads
  <2>1. CASE UNCHANGED reqNet
    BY <1>1, <1>3, <1>o, <2>1 DEF ServerReads
  <2>2. CASE /\ request.status = "open" /\ request.id = Head(up).id
             /\ TellTrip("trip_accepted", Head(up).id)
    <3>1. trip.id < request.id /\ currentAcceptedRequest < request.id
      BY <1>n, <2>2 DEF Safe, RequestAfterTrip
    <3>2. AcceptancesInOrder(
             Append(reqNet, [type |-> "trip_accepted", id |-> request.id]),
             currentAcceptedRequest)
      BY <1>n, <1>o, <3>1, OrderWrite
    <3>3. AcceptancesInOrder(reqNet', currentAcceptedRequest)
      BY <1>o, <2>2, <3>2 DEF TellTrip
    <3>4. QED
      BY <1>1, <1>3, <3>3 DEF ServerReads
  <2>3. QED
    BY <1>3, <2>1, <2>2 DEF ServerReads
<1>4. CASE ClientCancelsTrip
  <2>1. AcceptancesInOrder(
           Append(reqNet, [type |-> "trip_cancelled", id |-> trip.id]),
           currentAcceptedRequest)
    BY <1>n, <1>o, OrderWrite
  <2>2. AcceptancesInOrder(reqNet', currentAcceptedRequest)
    BY <1>4, <1>o, <2>1 DEF ClientCancelsTrip, TellTrip
  <2>3. QED
    BY <1>1, <1>4, <2>2 DEF ClientCancelsTrip
<1>5. CASE ServerTakesStartEnd
  <2>1. /\ rest \in {"starting", "ending"}
        /\ rest' = IF rest = "starting" THEN "started" ELSE "ended"
        /\ UNCHANGED appVars /\ UNCHANGED reqNet
    BY <1>5 DEF ServerTakesStartEnd
  <2>2. QED
    BY <2>1 DEF FlowInv, HomeIsNew, TripScreenOfAccepted, CallOfScreen
<1>6. QED
  BY <1>2, <1>3, <1>4, <1>5 DEF ServerStep

\* A stuttering step changes nothing.
LEMMA FlowStutter == ASSUME FlowInv, UNCHANGED vars PROVE FlowInv'
BY FlowFrame
DEF vars, lifeVars, flagVars, dashVars, viewVars, tripVars, slotVars, reqVars

\* Together with the invariant it is preserved, and holds from the first
\* launch on.
LEMMA FlowHolds == Spec => []FlowInv
<1>1. TypeInv /\ TypeInv' /\ Safe /\ FlowInv /\ [Next]_vars => FlowInv'
  BY LaunchKeepsFlow, DashboardKeepsFlow, SocketKeepsFlow, TripKeepsFlow,
     ServerKeepsFlow, FlowStutter
  DEF Next
<1>2. QED
  BY <1>1, FlowInit, Inductive, PTL DEF Spec

\* What Screen and TripShown say: the trip on screen is the accepted one.
ViewFacts ==
    /\ ~Alive => Screen = "dead"
    /\ Alive /\ boot = "home" => Screen = "splash"
    /\ Alive /\ boot = "ready" /\ startTrip.shown =>
          Screen = IF startTrip.ended THEN "rating"
                   ELSE IF startTrip.isTripStarted THEN "running" ELSE "start"
    /\ Alive /\ boot = "ready" /\ sheet.shown /\ ~startTrip.shown =>
          Screen = "sheet"
    /\ Alive /\ boot = "ready" /\ ~sheet.shown /\ ~startTrip.shown =>
          Screen = IF tab /\ requestView THEN "offer" ELSE "dashboard"
    /\ TripShown = currentAcceptedRequest

\* The two case distinctions are as these facts say.
LEMMA ViewIs == Safe /\ FlowInv => ViewFacts
<1>1. ASSUME Safe, FlowInv
      PROVE  TripShown = currentAcceptedRequest
  BY <1>1
  DEF TripShown, Safe, SheetOfAcceptedTrip, FlowInv, TripScreenOfAccepted
<1>2. QED
  BY <1>1 DEF ViewFacts, Screen, DashVisible

\* The same after a step.
LEMMA ViewIsNext == Safe' /\ FlowInv' => ViewFacts'
<1>1. ASSUME Safe', FlowInv'
      PROVE  TripShown' = currentAcceptedRequest'
  BY <1>1
  DEF TripShown, Safe, SheetOfAcceptedTrip, FlowInv, TripScreenOfAccepted
<1>2. QED
  BY <1>1 DEF ViewFacts, Screen, DashVisible

ViewVars == <<Screen, TripShown, doesRequestExist>>

\* A step that changes nothing of what is shown.
LEMMA ViewSame ==
    ASSUME UNCHANGED <<fault, boot, sheet, startTrip, tab, requestView,
                       currentAcceptedRequest, doesRequestExist>>
    PROVE  UNCHANGED ViewVars
<1>1. Screen' = Screen
  BY DEF Screen, Alive, DashVisible
<1>2. TripShown' = TripShown
  BY DEF TripShown
<1>3. QED
  BY <1>1, <1>2 DEF ViewVars

\* A step that ends the process.
LEMMA ViewEnds ==
    ASSUME TypeInv', ViewFacts, ViewFacts', TypeInv, Alive, ~Alive',
           currentAcceptedRequest <= currentAcceptedRequest',
           boot \in Boots
    PROVE  Flow!Next
<1>1. Screen' = "dead" /\ Screen # "dead"
  BY DEF ViewFacts, Boots
<1>2. TripShown' \in Nat /\ TripShown' >= TripShown
  <2>1. currentAcceptedRequest \in Nat /\ currentAcceptedRequest' \in Nat
    BY IdTypes DEF TypeInv
  <2>2. QED
    BY <2>1 DEF ViewFacts
<1>3. doesRequestExist' \in BOOLEAN
  BY DEF TypeInv
<1>4. QED
  BY <1>1, <1>2, <1>3 DEF Flow!Next, Flow!Crash

\* A step of a dashboard that nothing covers, to itself.
LEMMA ViewOffers ==
    ASSUME ViewFacts, ViewFacts', Alive, Alive', boot = "ready",
           ~sheet.shown, ~startTrip.shown,
           UNCHANGED <<boot, sheet, startTrip, currentAcceptedRequest,
                       doesRequestExist>>
    PROVE  Flow!Next
BY DEF ViewFacts, Flow!Next, Flow!ChangeOffer, Flow!Dashboards

\* A step of the prompts, the tab or the process itself: behind another
\* screen it is not seen.
LEMMA ViewPrompts ==
    ASSUME TypeInv, TypeInv', ViewFacts, ViewFacts', Alive,
           UNCHANGED <<boot, sheet, startTrip, currentAcceptedRequest,
                       doesRequestExist>>
    PROVE  [Flow!Next]_ViewVars
<1>b. boot \in Boots
  BY DEF TypeInv
<1>1. CASE ~Alive'
  <2>1. currentAcceptedRequest <= currentAcceptedRequest'
    BY IdTypes DEF TypeInv
  <2>2. QED
    BY <1>1, <1>b, <2>1, ViewEnds
<1>2. CASE Alive' /\ boot = "ready" /\ ~sheet.shown /\ ~startTrip.shown
  BY <1>2, ViewOffers
<1>3. CASE Alive' /\ ~(boot = "ready" /\ ~sheet.shown /\ ~startTrip.shown)
  <2>1. Screen' = Screen
    BY <1>3, <1>b DEF ViewFacts, Boots
  <2>2. TripShown' = TripShown
    BY DEF ViewFacts
  <2>3. QED
    BY <2>1, <2>2 DEF ViewVars
<1>4. QED
  BY <1>1, <1>2, <1>3

\* The steps of the launch and of the life cycle are steps of the flow.
LEMMA LaunchFlows ==
    ASSUME TypeInv, TypeInv', Safe, FlowInv, ViewFacts, ViewFacts', LaunchStep
    PROVE  [Flow!Next]_ViewVars
<1> USE DEF lifeVars, flagVars, dashVars, viewVars, tripVars, provVars, reqVars,
            slotVars, srvVars
<1>1. ASSUME NEW success \in BOOLEAN, NEW seen \in BOOLEAN,
             checkProviderTripExist(success, seen)
      PROVE  [Flow!Next]_ViewVars
  <2>1. /\ Alive /\ boot = "home" /\ boot' = "ready" /\ ~latitude
        /\ ~startTrip.shown /\ ~sheet.shown /\ currentAcceptedRequest = 0
        /\ requestView' = FALSE
    BY <1>1
    DEF checkProviderTripExist, FlowInv, HomeIsNew, Safe, HomeIsEmpty,
        PromptsHaveLocation, TypeInv
  <2>2. Screen = "splash" /\ TripShown = 0
    BY <2>1 DEF ViewFacts
  <2>3. CASE ~Alive'
    <3>1. currentAcceptedRequest <= currentAcceptedRequest'
      BY <2>1, IdTypes DEF TypeInv
    <3>2. QED
      BY <2>1, <2>3, <3>1, ViewEnds DEF Boots
  <2>4. CASE Alive' /\ doesRequestExist' /\ seen
    <3>1. trip.status # "accepted"
      BY <1>1, <2>1, <2>4
      DEF checkProviderTripExist, openBottomSheet, Alive
    <3>2. /\ trip.status = "started" /\ trip.id # 0
          /\ currentAcceptedRequest' = trip.id /\ pushStartTrip(trip.id, TRUE)
      BY <1>1, <2>4, <3>1
      DEF checkProviderTripExist, Safe, RequestAfterTrip
    <3>3. Screen' = "running" /\ TripShown' = trip.id
      BY <2>1, <2>4, <3>2 DEF ViewFacts, pushStartTrip, TripScreen
    <3>4. trip.id \in Nat \ {0}
      BY <3>2, NatIds
    <3>5. QED
      BY <2>2, <2>4, <3>3, <3>4
      DEF Flow!Next, Flow!RecoverTrip, TypeInv
  <2>5. CASE Alive' /\ ~(doesRequestExist' /\ seen)
    <3>1. UNCHANGED <<currentAcceptedRequest, sheet, startTrip>>
      BY <1>1, <2>5 DEF checkProviderTripExist
    <3>2. Screen' = "dashboard" /\ TripShown' = 0
      BY <2>1, <2>5, <3>1 DEF ViewFacts
    <3>3. QED
      BY <2>2, <3>2 DEF Flow!Next, Flow!OpenDashboard, TypeInv
  <2>6. QED
    BY <2>3, <2>4, <2>5
<1>2. CASE didEnterBackground
  BY <1>2, ViewPrompts DEF didEnterBackground, Foreground
<1>3. CASE willEnterForeground
  BY <1>3, ViewPrompts DEF willEnterForeground
<1>4. CASE didReceiveNotification
  BY <1>4, ViewPrompts DEF didReceiveNotification, Foreground
<1>5. CASE Relaunch
  <2>1. Screen' = "splash" /\ TripShown' = 0 /\ doesRequestExist' = FALSE
    BY <1>5 DEF Relaunch, ViewFacts, Alive
  <2>2. QED
    BY <2>1 DEF Flow!Next, Flow!Launch
<1>6. QED
  BY <1>1, <1>2, <1>3, <1>4, <1>5 DEF LaunchStep

\* The steps of the dashboard are steps of the flow: a route that arrives
\* opens a sheet only over the dashboard itself.
LEMMA DashboardFlows ==
    ASSUME TypeInv, TypeInv', Safe, ViewFacts, ViewFacts', DashboardStep
    PROVE  [Flow!Next]_ViewVars
<1> USE DEF lifeVars, flagVars, dashVars, viewVars, tripVars, provVars, reqVars,
            slotVars, srvVars
<1>1. CASE tracingLocation
  BY <1>1, ViewPrompts DEF tracingLocation
<1>2. CASE switchValueChanged
  BY <1>2, ViewSame DEF switchValueChanged
<1>3. CASE btnAcceptRequest \/ btnCancelRequest
  BY <1>3, ViewPrompts DEF btnAcceptRequest, btnCancelRequest, Foreground
<1>4. CASE ringFinishes \/ switchTab
  BY <1>4, ViewPrompts DEF ringFinishes, switchTab, Foreground
<1>5. CASE directionsSucceed
  <2>1. /\ Alive /\ boot = "ready" /\ currentAcceptedRequest # 0
        /\ UNCHANGED <<boot, startTrip, tab, requestView,
                       currentAcceptedRequest, doesRequestExist>>
    BY <1>5
    DEF directionsSucceed, Safe, HomeIsEmpty, RouteOfAcceptedTrip, TypeInv,
        Boots
  <2>2. \/ UNCHANGED sheet
        \/ /\ ~sheet.shown /\ ~startTrip.shown /\ fault' = fault
           /\ sheet' = [shown |-> TRUE, id |-> currentAcceptedRequest]
    BY <1>5 DEF directionsSucceed, openBottomSheet
  <2>3. CASE UNCHANGED sheet
    BY <2>1, <2>3, ViewPrompts
  <2>4. CASE /\ ~sheet.shown /\ ~startTrip.shown /\ fault' = fault
             /\ sheet' = [shown |-> TRUE, id |-> currentAcceptedRequest]
    <3>1. Screen \in {"dashboard", "offer"} /\ Screen' = "sheet"
      BY <2>1, <2>4 DEF ViewFacts, Alive
    <3>2. TripShown' = TripShown /\ TripShown # 0
      BY <2>1 DEF ViewFacts
    <3>3. QED
      BY <2>1, <3>1, <3>2 DEF Flow!Next, Flow!ShowSheet, Flow!Dashboards
  <2>5. QED
    BY <2>2, <2>3, <2>4
<1>6. CASE directionsFail
  BY <1>6, ViewSame DEF directionsFail
<1>7. QED
  BY <1>1, <1>2, <1>3, <1>4, <1>5, <1>6 DEF DashboardStep

\* The steps of the two sockets are steps of the flow: the acceptance that is
\* heard is of a later trip, and is only heard by the dashboard.
LEMMA SocketFlows ==
    ASSUME TypeInv, TypeInv', Safe, FlowInv, ViewFacts, ViewFacts', SocketStep
    PROVE  [Flow!Next]_ViewVars
<1> USE DEF lifeVars, flagVars, dashVars, viewVars, tripVars, provVars, reqVars,
            slotVars, srvVars
<1>b. boot \in Boots
  BY DEF TypeInv
<1>1. CASE providerSocketConnects \/ dropMessage
  BY <1>1, ViewSame DEF providerSocketConnects, dropMessage
<1>2. CASE onConnect \/ onProviderMessage
  BY <1>2, ViewPrompts DEF onConnect, onProviderMessage
<1>3. ASSUME NEW error \in {"nil", "57", "other"},
             \/ requestSocketDisconnects(error)
             \/ providerSocketDisconnects(error)
      PROVE  [Flow!Next]_ViewVars
  BY <1>3, ViewPrompts DEF requestSocketDisconnects, providerSocketDisconnects
<1>4. CASE onRequestMessage
  <2>1. /\ Alive /\ boot = "ready" /\ ~sheet.shown /\ ~startTrip.shown
        /\ UNCHANGED <<boot, sheet, startTrip, tab, requestView,
                       doesRequestExist>>
    BY <1>4, <1>b
    DEF onRequestMessage, Safe, HomeIsEmpty, SheetListens, FlowInv,
        TripScreenOfAccepted, Boots
  <2>2. \/ UNCHANGED currentAcceptedRequest
        \/ currentAcceptedRequest < currentAcceptedRequest'
    <3>1. reqNet \in Seq(ReqMessages) /\ currentAcceptedRequest \in Nat
      BY NatIds DEF TypeInv
    <3>2. Head(reqNet).type = "trip_accepted" =>
             currentAcceptedRequest < Head(reqNet).id
      BY <1>4, <3>1, OrderRead DEF onRequestMessage, FlowInv
    <3>3. QED
      BY <1>4, <3>2 DEF onRequestMessage
  <2>3. CASE UNCHANGED currentAcceptedRequest
    BY <2>1, <2>3, ViewPrompts
  <2>4. CASE currentAcceptedRequest < currentAcceptedRequest'
    <3>1. currentAcceptedRequest \in Nat /\ currentAcceptedRequest' \in Nat
      BY IdTypes DEF TypeInv
    <3>2. CASE ~Alive'
      BY <1>b, <2>1, <2>4, <3>1, <3>2, ViewEnds
    <3>3. CASE Alive'
      <4>1. Screen' = Screen /\ Screen \in {"dashboard", "offer"}
        BY <2>1, <3>3 DEF ViewFacts
      <4>2. TripShown' \in Nat /\ TripShown' > TripShown
        BY <2>4, <3>1 DEF ViewFacts
      <4>3. QED
        BY <2>1, <4>1, <4>2 DEF Flow!Next, Flow!GiveTrip, Flow!Dashboards
    <3>4. QED
      BY <3>2, <3>3
  <2>5. QED
    BY <2>2, <2>3, <2>4
<1>5. CASE sheetOnMessage
  <2>1. /\ Alive /\ sheet \in Sheets
        /\ UNCHANGED <<fault, boot, startTrip, tab, requestView,
                       currentAcceptedRequest, doesRequestExist>>
        /\ \/ sheet'.shown = sheet.shown
           \/ sheet.shown /\ ~sheet'.shown
    BY <1>5 DEF sheetOnMessage, closeSheet, TypeInv, Sheets
  <2>2. TripShown' = TripShown
    BY <2>1 DEF ViewFacts
  <2>3. CASE sheet'.shown = sheet.shown
    <3>1. Screen' = Screen
      BY <1>b, <2>1, <2>3 DEF ViewFacts, Alive, Boots
    <3>2. QED
      BY <2>1, <2>2, <3>1 DEF ViewVars
  <2>4. CASE sheet.shown /\ ~sheet'.shown
    <3>1. boot = "ready" /\ ~startTrip.shown
      BY <1>b, <2>4 DEF Safe, HomeIsEmpty, OneScreenOnTop, Boots
    <3>2. Screen = "sheet" /\ Screen' \in {"dashboard", "offer"}
      BY <2>1, <2>4, <3>1 DEF ViewFacts, Alive
    <3>3. QED
      BY <2>1, <2>2, <3>2
      DEF Flow!Next, Flow!ReturnToDashboard, Flow!TripScreens, Flow!Dashboards
  <2>5. QED
    BY <2>1, <2>3, <2>4
<1>6. QED
  BY <1>1, <1>2, <1>3, <1>4, <1>5 DEF SocketStep

\* The steps of the sheet and of the trip screen are steps of the flow.
LEMMA TripFlows ==
    ASSUME TypeInv, TypeInv', Safe, FlowInv, ViewFacts, ViewFacts', TripStep
    PROVE  [Flow!Next]_ViewVars
<1> USE DEF lifeVars, flagVars, dashVars, viewVars, tripVars, provVars, reqVars,
            slotVars, srvVars
<1>b. boot \in Boots /\ sheet \in Sheets /\ startTrip \in StartTrips
  BY DEF TypeInv
<1>s. ASSUME sheet.shown
      PROVE  boot = "ready" /\ ~startTrip.shown
  BY <1>b, <1>s DEF Safe, HomeIsEmpty, OneScreenOnTop, Boots
<1>t. ASSUME startTrip.shown
      PROVE  boot = "ready" /\ ~sheet.shown
  BY <1>b, <1>t DEF Safe, HomeIsEmpty, OneScreenOnTop, Boots
<1>1. CASE CancelRequest
  <2>1. /\ Screen = "sheet" /\ Screen' \in {"dashboard", "offer"}
        /\ TripShown' = TripShown
    BY <1>1, <1>b, <1>s
    DEF CancelRequest, closeSheet, Foreground, Alive, Sheets, ViewFacts
  <2>2. QED
    BY <1>1, <2>1
    DEF CancelRequest, closeSheet, Flow!Next, Flow!ReturnToDashboard, Flow!TripScreens,
        Flow!Dashboards
<1>2. CASE cancelAfterAMinute
  BY <1>2, ViewPrompts DEF cancelAfterAMinute, Foreground
<1>3. CASE textFieldEditingChanged
  <2>1. Screen = "sheet" /\ Screen' = "start" /\ TripShown' = TripShown
    BY <1>3, <1>b, <1>s
    DEF textFieldEditingChanged, TripScreen, Foreground, Alive, Sheets,
        ViewFacts
  <2>2. QED
    BY <1>3, <2>1 DEF textFieldEditingChanged, Flow!Next, Flow!EnterCode
<1>4. CASE btnActionPressed \/ startEndFails
  BY <1>4, ViewSame DEF btnActionPressed, startEndFails
<1>5. CASE startEndSucceeds
  <2>1. /\ Alive /\ startTrip.shown /\ ~startTrip.ended
        /\ rest \in {"started", "ended"}
        /\ startTrip.isTripStarted <=> rest = "ended"
        /\ UNCHANGED <<fault, boot, sheet, tab, requestView,
                       currentAcceptedRequest, doesRequestExist>>
    BY <1>5 DEF startEndSucceeds, Safe, OneScreenOnTop, FlowInv, CallOfScreen
  <2>2. TripShown' = TripShown
    BY <2>1 DEF ViewFacts
  <2>3. CASE rest = "started"
    <3>1. /\ startTrip'.shown /\ startTrip'.isTripStarted
          /\ ~startTrip'.ended
      BY <1>5, <1>b, <2>1, <2>3 DEF startEndSucceeds, StartTrips
    <3>2. Screen = "start" /\ Screen' = "running"
      BY <1>t, <2>1, <2>3, <3>1 DEF ViewFacts, Alive
    <3>3. QED
      BY <2>1, <2>2, <3>2 DEF Flow!Next, Flow!StartTrip
  <2>4. CASE rest = "ended"
    <3>1. startTrip'.shown /\ startTrip'.ended
      BY <1>5, <1>b, <2>1, <2>4 DEF startEndSucceeds, StartTrips
    <3>2. Screen = "running" /\ Screen' = "rating"
      BY <1>t, <2>1, <2>4, <3>1 DEF ViewFacts, Alive
    <3>3. QED
      BY <2>1, <2>2, <3>2 DEF Flow!Next, Flow!EndTrip
  <2>5. QED
    BY <2>1, <2>3, <2>4
<1>6. CASE leaveTrip
  <2>1. /\ Alive /\ startTrip.shown /\ ~startTrip'.shown
        /\ UNCHANGED <<fault, boot, sheet, tab, requestView,
                       currentAcceptedRequest, doesRequestExist>>
    BY <1>6, <1>b DEF leaveTrip, StartTrips, Foreground
  <2>2. /\ Screen \in {"start", "running", "rating"}
        /\ Screen' \in {"dashboard", "offer"} /\ TripShown' = TripShown
    BY <1>t, <2>1 DEF ViewFacts, Alive
  <2>3. QED
    BY <2>1, <2>2
    DEF Flow!Next, Flow!ReturnToDashboard, Flow!TripScreens, Flow!Dashboards
<1>7. QED
  BY <1>1, <1>2, <1>3, <1>4, <1>5, <1>6 DEF TripStep

\* The server does nothing that the provider sees at once.
LEMMA ServerFlows == ASSUME ServerStep PROVE UNCHANGED ViewVars
<1>1. UNCHANGED appVars
  BY DEF ServerStep, ClientRequests, RequestGoes, ServerReads,
         ClientCancelsTrip, ServerTakesStartEnd
<1>2. QED
  BY <1>1, ViewSame
  DEF appVars, lifeVars, flagVars, dashVars, viewVars, tripVars

\* Every behaviour of the provider's phone is one of ProviderFlow: one trip at
\* a time from its sheet to its rating form, and only later trips after it,
\* for every number of requests, of messages in flight and of kills.
THEOREM FlowRefinement == Spec => RefinesProviderFlow
<1>1. Init => Flow!Init
  BY DEF Init, Flow!Init, Screen, TripShown, Alive, NoSheet, NoStartTrip
<1>2. /\ TypeInv /\ Safe /\ FlowInv /\ (TypeInv /\ Safe /\ FlowInv)'
      /\ [Next]_vars
      => [Flow!Next]_ViewVars
  <2>1. ASSUME TypeInv, Safe, FlowInv, (TypeInv /\ Safe /\ FlowInv)',
               [Next]_vars
        PROVE  [Flow!Next]_ViewVars
    <3>1. ViewFacts /\ ViewFacts'
      BY <2>1, ViewIs, ViewIsNext
    <3>2. CASE LaunchStep \/ DashboardStep \/ SocketStep \/ TripStep
      BY <2>1, <3>1, <3>2, LaunchFlows, DashboardFlows, SocketFlows, TripFlows
    <3>3. CASE ServerStep
      BY <3>3, ServerFlows
    <3>4. CASE UNCHANGED vars
      BY <3>4, ViewSame
      DEF vars, lifeVars, flagVars, viewVars, tripVars
    <3>5. QED
      BY <2>1, <3>2, <3>3, <3>4 DEF Next
  <2>2. QED
    BY <2>1
<1>3. QED
  BY <1>1, <1>2, Inductive, FlowHolds, PTL
  DEF Spec, RefinesProviderFlow, ViewVars, Flow!Spec, Flow!vars
=============================================================================
