-------------------------- MODULE TripSystemProofs --------------------------
(***************************************************************************)
(* Proofs about TripSystem: type correctness, and that no trip starts      *)
(* whose OTP the client's phone has not shown, for any number of trips,    *)
(* messages in flight and relaunches.                                      *)
(***************************************************************************)
EXTENDS TripSystem, SequenceTheorems, TLAPS

ClientType ==
    [stage : ClientStages, id : Ids, left : BOOLEAN,
     slot : {"dash", "oldDash", "sheet", "trip"}, late : BOOLEAN,
     open : BOOLEAN, posted : BOOLEAN,
     recovered : BOOLEAN, found : Ids, begun : BOOLEAN, lapse : BOOLEAN]
ProviderType ==
    [stage : ProviderStages, id : Ids, asked : BOOLEAN,
     slot : {"none", "dash", "sheet"},
     socket : {"down", "connecting", "open"},
     rest : {"idle", "starting", "started", "ending", "ended"},
     lapse : BOOLEAN]

\* A queue of the model.
Queue(net) == net \in Seq(Messages) /\ Len(net) <= MaxNet

\* TypeOK, with one conjunct per variable.
TypeInv ==
    /\ trip \in [id : Ids, status : Statuses] /\ reached \in BOOLEAN
    /\ cl \in ClientType /\ pv \in ProviderType
    /\ Queue(toC) /\ Queue(toP) /\ Queue(fromC) /\ Queue(fromP)
    /\ otpShown \subseteq Ids /\ restarts \in 0 .. MaxRestarts

\* The types stated per variable are those of TypeOK.
LEMMA TypeInvIsTypeOK == TypeInv <=> TypeOK
BY DEF TypeInv, TypeOK, Queue, ClientType, ProviderType

\* The head and the tail of a queue, and a queue with room after a write.
LEMMA QueueRead ==
    ASSUME NEW net, Queue(net), net # <<>>
    PROVE  Head(net) \in Messages /\ Queue(Tail(net))
BY SystemBounds DEF Queue

\* A message joins a queue that has room for it.
LEMMA QueueWrite ==
    ASSUME NEW net, Queue(net), Len(net) < MaxNet, NEW m \in Messages
    PROVE  Queue(Append(net, m))
BY SystemBounds DEF Queue

\* A queue that was lost is a queue.
LEMMA QueueEmpty == Queue(<<>>)
BY SystemBounds DEF Queue

\* ClientHears, arm by arm.
LEMMA ClientHearsIs ==
    ASSUME NEW m, NEW over
    PROVE  LET next == ClientHears(m, over) IN
           \/ /\ cl.slot = "dash" /\ m.type = "trip_accepted"
              /\ next = [cl EXCEPT !.stage = "matching", !.id = m.id]
           \/ /\ cl.slot = "sheet" /\ cl.stage = "sheet" /\ m.type = "reached"
              /\ next = [cl EXCEPT !.stage = IF cl.recovered THEN "running"
                                             ELSE "trip",
                                   !.slot = "trip", !.left = over,
                                   !.lapse = @ \/ over]
           \/ /\ cl.slot = "sheet" /\ cl.stage = "sheet"
              /\ m.type = "trip_cancelled"
              /\ next = [cl EXCEPT !.stage = IF over THEN @ ELSE "dashboard",
                                   !.lapse = @ \/ over]
           \/ /\ cl.slot = "sheet" /\ cl.stage = "sheet"
              /\ m.type = "Trip_Started" /\ cl.recovered
              /\ next = [cl EXCEPT !.stage = "trip", !.slot = "trip",
                                   !.left = over, !.recovered = FALSE,
                                   !.found = 0, !.begun = FALSE,
                                   !.lapse = TRUE]
           \/ /\ cl.slot = "trip" /\ cl.stage \in {"trip", "running"}
              /\ m.type = "Trip_Started"
              /\ next = [cl EXCEPT !.stage = "running"]
           \/ /\ cl.slot = "trip" /\ cl.stage \in {"trip", "running"}
              /\ m.type = "Trip_Ended"
              /\ next = [cl EXCEPT !.stage = "rating"]
           \/ next = [cl EXCEPT !.lapse = TRUE]
BY Zenon DEF ClientHears

\* The screens a message leaves behind are screens of the phone.
LEMMA ClientHearsType ==
    ASSUME TypeInv, NEW m \in Messages, NEW over \in BOOLEAN
    PROVE  ClientHears(m, over) \in ClientType
<1> DEFINE next == ClientHears(m, over)
<1>1. 0 \in Ids /\ m.id \in Ids /\ (cl.lapse \/ over) \in BOOLEAN
  BY SystemBounds DEF Ids, Messages
<1>2. cl \in ClientType
  BY DEF TypeInv
<1> SUFFICES next \in ClientType
  OBVIOUS
<1> HIDE DEF next
<1>3. CASE next = [cl EXCEPT !.stage = "matching", !.id = m.id]
  BY <1>1, <1>2, <1>3 DEF ClientType, ClientStages
<1>4. CASE next = [cl EXCEPT !.stage = IF cl.recovered THEN "running"
                                       ELSE "trip",
                             !.slot = "trip", !.left = over,
                             !.lapse = @ \/ over]
  BY <1>1, <1>2, <1>4 DEF ClientType, ClientStages
<1>5. CASE next = [cl EXCEPT !.stage = IF over THEN @ ELSE "dashboard",
                             !.lapse = @ \/ over]
  BY <1>1, <1>2, <1>5 DEF ClientType, ClientStages
<1>6. CASE next = [cl EXCEPT !.stage = "trip", !.slot = "trip",
                             !.left = over, !.recovered = FALSE,
                             !.found = 0, !.begun = FALSE, !.lapse = TRUE]
  BY <1>1, <1>2, <1>6 DEF ClientType, ClientStages
<1>7. CASE \E stage \in {"running", "rating"} :
              next = [cl EXCEPT !.stage = stage]
  BY <1>2, <1>7 DEF ClientType, ClientStages
<1>8. CASE next = [cl EXCEPT !.lapse = TRUE]
  BY <1>2, <1>8 DEF ClientType
<1>9. QED
  BY <1>3, <1>4, <1>5, <1>6, <1>7, <1>8, ClientHearsIs, Zenon DEF next

\* Whatever the provider's phone hears, it shows one of its stages.
LEMMA ProviderHearsType ==
    ASSUME TypeInv, NEW m \in Messages, NEW over \in BOOLEAN
    PROVE  ProviderHears(m, over) \in ProviderType
BY DEF TypeInv, ProviderHears, ProviderType, ProviderStages, Messages

\* What the server tells a phone is queued, or noted as a lapse.
LEMMA TellTypes ==
    ASSUME TypeInv, NEW m \in Messages
    PROVE  /\ TellClient(m.type, m.id) => cl' \in ClientType /\ Queue(toC')
           /\ TellProvider(m.type, m.id) => pv' \in ProviderType /\ Queue(toP')
<1>1. Message(m.type, m.id) = m
  BY DEF Message, Messages
<1>2. /\ cl.open /\ Len(toC) < MaxNet => Queue(Append(toC, m))
      /\ Len(toP) < MaxNet => Queue(Append(toP, m))
  BY QueueWrite DEF TypeInv
<1>3. /\ [cl EXCEPT !.lapse = TRUE] \in ClientType
      /\ [pv EXCEPT !.lapse = TRUE] \in ProviderType
  BY DEF TypeInv, ClientType, ProviderType
<1>4. QED
  BY <1>1, <1>2, <1>3 DEF TellClient, TellProvider, TypeInv

\* Phones that have just been started.
LEMMA NewTypes ==
    0 \in Ids /\ NewClient \in ClientType /\ NewProvider \in ProviderType
<1>1. 0 \in Ids
  BY SystemBounds DEF Ids
<1>2. QED
  BY <1>1 DEF NewClient, NewProvider, ClientType, ProviderType, ClientStages,
              ProviderStages

\* Init is well typed.
LEMMA TypeInit == Init => TypeInv
<1> SUFFICES ASSUME Init PROVE TypeInv
  OBVIOUS
<1>1. Queue(toC) /\ Queue(toP) /\ Queue(fromC) /\ Queue(fromP)
  BY QueueEmpty DEF Init
<1>2. trip \in [id : Ids, status : Statuses]
  BY NewTypes DEF Init, Statuses
<1>3. restarts \in 0 .. MaxRestarts
  BY SystemBounds DEF Init
<1>4. QED
  BY <1>1, <1>2, <1>3, NewTypes DEF Init, TypeInv

\* A dashboard with its remembered trip, or without one.
LEMMA CheckedType ==
    ASSUME TypeInv, NEW asks \in BOOLEAN, NEW opens \in BOOLEAN,
           clientCheckIfTripExists(asks, opens)
    PROVE  cl' \in ClientType
<1>1. ASSUME NEW id \in Ids, NEW begun \in BOOLEAN, NEW lag \in BOOLEAN
      PROVE  Recovered(id, begun, opens, lag) \in ClientType
  BY <1>1 DEF TypeInv, Recovered, ClientType, ClientStages
<1>2. /\ trip.id \in Ids /\ (trip.status = "started") \in BOOLEAN
      /\ ((trip.status = "accepted" /\ reached) \/ fromC # <<>>) \in BOOLEAN
      /\ cl.found \in Ids /\ cl.begun \in BOOLEAN /\ cl.late \in BOOLEAN
  BY DEF TypeInv, ClientType
<1>3. ASSUME NEW underWay \in BOOLEAN
      PROVE  [NewClient EXCEPT !.late = cl.late, !.lapse = underWay]
                 \in ClientType
  BY <1>2, NewTypes DEF ClientType
<1>4. \/ cl' = Recovered(trip.id, trip.status = "started", opens,
                         \/ trip.status = "accepted" /\ reached
                         \/ fromC # <<>>)
      \/ cl' = Recovered(cl.found, cl.begun, opens, TRUE)
      \/ \E underWay \in BOOLEAN :
            cl' = [NewClient EXCEPT !.late = cl.late, !.lapse = underWay]
  <2>1. (trip.status \in {"accepted", "started"}) \in BOOLEAN
    OBVIOUS
  <2>2. QED
    BY <2>1, Zenon DEF clientCheckIfTripExists
<1>5. QED
  BY <1>1, <1>2, <1>3, <1>4, Zenon

\* The late list of an earlier dashboard, field by field.
LEMMA LateList ==
    ASSUME TypeInv, lateListAnswers
    PROVE  /\ cl' \in ClientType /\ cl.stage # "launching"
           /\ cl'.stage = cl.stage /\ cl'.id = cl.id /\ cl'.left = cl.left
           /\ cl'.slot = "oldDash" /\ cl'.posted = cl.posted
           /\ cl'.recovered = cl.recovered /\ cl'.found = cl.found
           /\ \/ /\ toC' = <<>> /\ cl'.open
                 /\ cl'.lapse = (cl.lapse \/ toC # <<>>)
              \/ toC' = toC /\ cl'.open = cl.open /\ cl'.lapse = cl.lapse
           /\ UNCHANGED <<trip, reached, pv, toP, fromC, fromP, otpShown,
                          restarts>>
<1> DEFINE lost == cl.lapse \/ toC # <<>>
<1>1. /\ lost \in BOOLEAN /\ cl.stage # "launching"
      /\ \/ /\ toC' = <<>>
            /\ cl' = [cl EXCEPT !.late = FALSE, !.slot = "oldDash",
                                !.open = TRUE, !.lapse = lost]
         \/ /\ toC' = toC
            /\ cl' = [cl EXCEPT !.late = FALSE, !.slot = "oldDash"]
  BY Zenon DEF lateListAnswers
<1>2. UNCHANGED <<trip, reached, pv, toP, fromC, fromP, otpShown, restarts>>
  BY DEF lateListAnswers
<1>3. cl \in ClientType
  BY DEF TypeInv
<1> HIDE DEF lost
<1>4. CASE /\ toC' = <<>>
           /\ cl' = [cl EXCEPT !.late = FALSE, !.slot = "oldDash",
                               !.open = TRUE, !.lapse = lost]
  <2>1. cl'.lapse = lost
    BY <1>3, <1>4 DEF ClientType
  <2>2. cl' \in ClientType
    BY <1>1, <1>3, <1>4 DEF ClientType
  <2>3. QED
    BY <1>1, <1>2, <1>3, <1>4, <2>1, <2>2 DEF ClientType, lost
<1>5. CASE /\ toC' = toC
           /\ cl' = [cl EXCEPT !.late = FALSE, !.slot = "oldDash"]
  BY <1>1, <1>2, <1>3, <1>5 DEF ClientType
<1>6. QED
  BY <1>1, <1>4, <1>5

\* The steps of the client's phone keep the types.
LEMMA ClientTypes == ASSUME TypeInv, ClientStep PROVE TypeInv'
<1> USE SystemBounds, QueueEmpty DEF netVars, Queue
<1>1. CASE postRequest
  <2>1. trip.id + 1 \in Ids
    BY <1>1 DEF TypeInv, postRequest, Ids
  <2>2. QED
    BY <1>1, <2>1 DEF TypeInv, postRequest, ClientType, Statuses
<1>2. CASE postRequestSucceeds
  <2> DEFINE lost == cl.lapse \/ toC # <<>>
  <2>0. /\ lost \in BOOLEAN
        /\ cl' = [cl EXCEPT !.posted = FALSE, !.open = TRUE,
                            !.stage = IF @ = "dashboard" THEN "waiting" ELSE @,
                            !.lapse = lost]
    BY <1>2, Zenon DEF postRequestSucceeds
  <2> HIDE DEF lost
  <2>1. cl' \in ClientType
    BY <2>0 DEF TypeInv, ClientType, ClientStages
  <2>2. QED
    BY <1>2, <2>1 DEF TypeInv, postRequestSucceeds
<1>3. CASE postRequestFails
  BY <1>3 DEF TypeInv, postRequestFails, ClientType
<1>4. CASE overlayTimerFires
  BY <1>4 DEF TypeInv, overlayTimerFires, ClientType, ClientStages
<1>5. CASE cancelRequestThroughWS
  BY <1>5 DEF TypeInv, cancelRequestThroughWS, ClientType, ClientStages,
              Statuses
<1>6. CASE clientOnMessage
  <2>1. Head(toC) \in Messages /\ Queue(Tail(toC))
    BY <1>6, QueueRead DEF TypeInv, clientOnMessage
  <2>2. cl' \in ClientType
    BY <1>6, <2>1, ClientHearsType DEF clientOnMessage
  <2>3. QED
    BY <1>6, <2>1, <2>2 DEF TypeInv, clientOnMessage
<1>7. CASE distanceMatrixSucceeds
  BY <1>7 DEF TypeInv, distanceMatrixSucceeds, ClientType, ClientStages
<1>8. CASE distanceMatrixFails
  BY <1>8 DEF TypeInv, distanceMatrixFails, ClientType, ClientStages
<1>9. ASSUME NEW stays \in BOOLEAN, clientCancelsTrip(stays)
      PROVE  TypeInv'
  <2>1. Message("trip_cancelled", cl.id) \in Messages
    BY DEF Message, Messages, TypeInv, ClientType
  <2>2. Queue(fromC')
    BY <1>9, <2>1, QueueWrite DEF clientCancelsTrip, TypeInv
  <2>3. cl' \in ClientType
    BY <1>9 DEF TypeInv, clientCancelsTrip, ClientType, ClientStages
  <2>4. QED
    BY <1>9, <2>2, <2>3 DEF TypeInv, clientCancelsTrip
<1>10. CASE clientLeavesTrip
  BY <1>10 DEF TypeInv, clientLeavesTrip, ClientType, ClientStages
<1>11. CASE clientDisconnects
  BY <1>11 DEF TypeInv, clientDisconnects, ClientType
<1>12. CASE clientRelaunches
  <2>1. restarts' \in 0 .. MaxRestarts
    BY <1>12 DEF TypeInv, clientRelaunches
  <2>2. cl' \in ClientType
    BY <1>12, NewTypes DEF clientRelaunches, ClientType, ClientStages
  <2>3. QED
    BY <1>12, <2>1, <2>2 DEF TypeInv, clientRelaunches
<1>13. CASE clientLogsOut
  <2>1. restarts' \in 0 .. MaxRestarts
    BY <1>13 DEF TypeInv, clientLogsOut
  <2>2. PICK late \in {cl.late, cl.stage = "launching"} :
            cl' = [cl EXCEPT !.stage = "launching", !.late = late,
                             !.open = FALSE]
    BY <1>13 DEF clientLogsOut
  <2>3. late \in BOOLEAN
    BY <2>2 DEF TypeInv, ClientType
  <2>4. cl' \in ClientType
    BY <2>2, <2>3 DEF TypeInv, ClientType, ClientStages
  <2>5. QED
    BY <1>13, <2>1, <2>4 DEF TypeInv, clientLogsOut
<1>14. CASE lateListAnswers
  <2>1. Queue(toC')
    BY <1>14, LateList DEF TypeInv
  <2>2. QED
    BY <1>14, <2>1, LateList DEF TypeInv
<1>15. ASSUME NEW asks \in BOOLEAN, NEW opens \in BOOLEAN,
              clientCheckIfTripExists(asks, opens)
       PROVE  TypeInv'
  <2>1. cl' \in ClientType
    BY <1>15, NewTypes, CheckedType
  <2>2. cl'.id \in Ids
    BY <2>1 DEF ClientType
  <2>3. QED
    BY <1>15, <2>1, <2>2 DEF TypeInv, clientCheckIfTripExists
<1>16. QED
  BY <1>1, <1>2, <1>3, <1>4, <1>5, <1>6, <1>7, <1>8, <1>9, <1>10, <1>11,
     <1>12, <1>13, <1>14, <1>15
  DEF ClientStep

\* The steps of the provider's phone keep the types.
LEMMA ProviderTypes == ASSUME TypeInv, ProviderStep PROVE TypeInv'
<1> USE SystemBounds, QueueEmpty DEF netVars, Queue
<1>w. ASSUME NEW type \in {"trip_cancelled", "reached", "trip_accepted"},
             Len(fromP) < MaxNet
      PROVE  Queue(Append(fromP, Message(type, pv.id)))
  <2>1. Message(type, pv.id) \in Messages
    BY DEF Message, Messages, TypeInv, ProviderType
  <2>2. QED
    BY <1>w, <2>1, QueueWrite DEF TypeInv
<1>1. CASE switchValueChanged
  BY <1>1 DEF TypeInv, switchValueChanged, ProviderType
<1>2. CASE onProviderMessage
  BY <1>2 DEF TypeInv, onProviderMessage, ProviderType, ProviderStages
<1>3. CASE ringFinishes
  BY <1>3 DEF TypeInv, ringFinishes, ProviderType, ProviderStages
<1>c. CASE cancelRequest
  BY <1>c DEF TypeInv, cancelRequest, ProviderType, ProviderStages
<1>4. CASE btnAcceptRequest
  BY <1>4 DEF TypeInv, btnAcceptRequest, ProviderType, ProviderStages
<1>5. CASE onConnect
  <2>1. Queue(fromP')
    BY <1>5, <1>w DEF onConnect, TypeInv
  <2>2. QED
    BY <1>5, <2>1 DEF TypeInv, onConnect, ProviderType
<1>6. CASE providerOnMessage
  <2>1. Head(toP) \in Messages /\ Queue(Tail(toP))
    BY <1>6, QueueRead DEF TypeInv, providerOnMessage
  <2>2. pv' \in ProviderType
    BY <1>6, <2>1, ProviderHearsType DEF providerOnMessage
  <2>3. QED
    BY <1>6, <2>1, <2>2 DEF TypeInv, providerOnMessage
<1>7. CASE directionsSucceed
  BY <1>7 DEF TypeInv, directionsSucceed, ProviderType, ProviderStages
<1>8. CASE directionsFail
  BY <1>8 DEF TypeInv, directionsFail, ProviderType, ProviderStages
<1>9. CASE providerCancelsTrip
  <2>1. Queue(fromP')
    BY <1>9, <1>w DEF providerCancelsTrip, ProviderWrites, TypeInv
  <2>2. QED
    BY <1>9, <2>1 DEF TypeInv, providerCancelsTrip, ProviderType,
                      ProviderStages
<1>10. CASE textFieldEditingChanged
  <2>1. Queue(fromP')
    BY <1>10, <1>w DEF textFieldEditingChanged, ProviderWrites, TypeInv
  <2>2. QED
    BY <1>10, <2>1 DEF TypeInv, textFieldEditingChanged, ProviderType,
                       ProviderStages
<1>11. CASE btnActionPressed
  BY <1>11 DEF TypeInv, btnActionPressed, ProviderType
<1>12. CASE startEndAnswers
  BY <1>12 DEF TypeInv, startEndAnswers, ProviderType, ProviderStages
<1>13. CASE providerLeavesTrip
  BY <1>13 DEF TypeInv, providerLeavesTrip, ProviderType, ProviderStages
<1>14. CASE providerDisconnects
  BY <1>14 DEF TypeInv, providerDisconnects, ProviderType
<1>15. CASE providerRelaunches
  <2>1. pv' \in ProviderType
    BY <1>15, NewTypes DEF providerRelaunches, ProviderType, ProviderStages
  <2>2. QED
    BY <1>15, <2>1 DEF TypeInv, providerRelaunches
<1>16. ASSUME NEW seen \in BOOLEAN, providerCheckIfTripExists(seen)
       PROVE  TypeInv'
  <2>1. pv' \in ProviderType
    BY <1>16, NewTypes DEF TypeInv, providerCheckIfTripExists, ProviderType,
                           ProviderStages
  <2>2. QED
    BY <1>16, <2>1 DEF TypeInv, providerCheckIfTripExists
<1>17. QED
  BY <1>1, <1>2, <1>3, <1>c, <1>4, <1>5, <1>6, <1>7, <1>8, <1>9, <1>10, <1>11,
     <1>12, <1>13, <1>14, <1>15, <1>16
  DEF ProviderStep

\* The steps of the server keep the types.
LEMMA ServerTypes == ASSUME TypeInv, ServerStep PROVE TypeInv'
<1> USE SystemBounds
<1>t. ASSUME NEW m \in Messages
      PROVE  /\ TellClient(m.type, m.id) => cl' \in ClientType /\ Queue(toC')
             /\ TellProvider(m.type, m.id) => pv' \in ProviderType /\ Queue(toP')
  BY TellTypes
<1>u. /\ UNCHANGED <<cl, toC>> => cl' \in ClientType /\ Queue(toC')
      /\ UNCHANGED <<pv, toP>> => pv' \in ProviderType /\ Queue(toP')
  BY DEF TypeInv, Queue
<1>s. ASSUME NEW to \in Statuses
      PROVE  [trip EXCEPT !.status = to] \in [id : Ids, status : Statuses]
  BY DEF TypeInv
<1>1. CASE ServerReadsProvider
  <2> DEFINE m == Head(fromP)
  <2>1. m \in Messages /\ Queue(Tail(fromP))
    BY <1>1, QueueRead DEF TypeInv, ServerReadsProvider
  <2>2. trip' \in [id : Ids, status : Statuses] /\ reached' \in BOOLEAN
    BY <1>1, <1>s DEF ServerReadsProvider, TypeInv, Statuses
  <2>3. cl' \in ClientType /\ Queue(toC')
    BY <1>1, <1>t, <1>u, <2>1 DEF ServerReadsProvider
  <2>4. pv' \in ProviderType /\ Queue(toP')
    BY <1>1, <1>t, <1>u, <2>1 DEF ServerReadsProvider
  <2>5. /\ Queue(fromP') /\ fromC' = fromC
        /\ otpShown' = otpShown /\ restarts' = restarts
    BY <1>1, <2>1 DEF ServerReadsProvider
  <2>6. QED
    BY <2>2, <2>3, <2>4, <2>5 DEF TypeInv, Queue
<1>2. CASE ServerReadsClient
  <2> DEFINE m == Message("trip_cancelled", trip.id)
  <2>1. Queue(Tail(fromC))
    BY <1>2, QueueRead DEF TypeInv, ServerReadsClient
  <2>2. m \in Messages /\ m.type = "trip_cancelled" /\ m.id = trip.id
    BY DEF TypeInv, Message, Messages
  <2>3. trip' \in [id : Ids, status : Statuses]
    BY <1>2, <1>s DEF ServerReadsClient, TypeInv, Statuses
  <2> HIDE DEF m
  <2>4. TellProvider("trip_cancelled", trip.id)
            => pv' \in ProviderType /\ Queue(toP')
    BY <1>t, <2>2
  <2>5. pv' \in ProviderType /\ Queue(toP')
    BY <1>2, <1>u, <2>4 DEF ServerReadsClient
  <2>6. QED
    BY <1>2, <2>1, <2>3, <2>5 DEF TypeInv, ServerReadsClient, Queue
<1>3. CASE ServerTakesStartEnd
  <2> DEFINE to == IF pv.rest = "starting" THEN "started" ELSE "ended"
             told == IF to = "started" THEN "Trip_Started" ELSE "Trip_Ended"
             m == Message(told, trip.id)
  <2>1. m \in Messages /\ m.type = told /\ m.id = trip.id
    BY DEF TypeInv, Message, Messages
  <2>2. TellClient(told, trip.id) => cl' \in ClientType /\ Queue(toC')
    <3> HIDE DEF m
    <3>1. QED
      BY <1>t, <2>1
  <2>3. cl' \in ClientType /\ Queue(toC')
    BY <1>3, <1>u, <2>2 DEF ServerTakesStartEnd
  <2>4. to \in Statuses /\ trip' = [trip EXCEPT !.status = to]
    BY <1>3 DEF ServerTakesStartEnd, Statuses
  <2>5. trip' \in [id : Ids, status : Statuses]
    BY <2>4, <1>s
  <2>6. pv' \in ProviderType
    BY <1>3 DEF ServerTakesStartEnd, TypeInv, ProviderType
  <2>7. QED
    BY <1>3, <2>3, <2>5, <2>6 DEF ServerTakesStartEnd, TypeInv, Queue
<1>4. QED
  BY <1>1, <1>2, <1>3 DEF ServerStep

\* Every step keeps the types.
LEMMA TypeStep == TypeInv /\ [Next]_vars => TypeInv'
<1>1. ASSUME TypeInv, UNCHANGED vars PROVE TypeInv'
  BY <1>1 DEF TypeInv, vars, netVars, Queue
<1>2. QED
  BY <1>1, ClientTypes, ProviderTypes, ServerTypes DEF Next

\* Every variable of the system keeps its type: the stages a phone can be
\* driven into are stages of that phone, and no queue outgrows MaxNet.
THEOREM TypeCorrect == Spec => []TypeOK
<1>1. Spec => []TypeInv
  BY TypeInit, TypeStep, PTL DEF Spec
<1>2. QED
  BY <1>1, TypeInvIsTypeOK, PTL

-----------------------------------------------------------------------------
(***************************************************************************)
(* StartedTripWasShown is not inductive: the start is a REST call that     *)
(* carries no code, made two screens after the code was compared.  What    *)
(* links the two is the provider's screen: it shows "start" only for a     *)
(* trip whose OTP was shown, no message moves it on (the sheet keeps the   *)
(* slot), and only from it can a start be called.                          *)
(***************************************************************************)
StartInv ==
    /\ StartedTripWasShown
    /\ pv.stage = "start" => pv.id \in otpShown
    /\ pv.stage \in {"sheet", "start"} => pv.slot = "sheet"
    /\ pv.rest = "starting" => pv.stage = "start"

\* What the provider's phone can be told: nothing that leads to "start", and
\* nothing that takes it away.
LEMMA ProviderHearsStart ==
    ASSUME TypeInv, StartInv, NEW m \in Messages, NEW over \in BOOLEAN
    PROVE  LET next == ProviderHears(m, over) IN
           /\ next.slot = pv.slot /\ next.rest = pv.rest
           /\ next.stage = "start" => pv.stage = "start" /\ next.id = pv.id
           /\ pv.stage = "start" => next.stage = "start"
           /\ next.stage = "sheet" => pv.stage = "sheet"
<1> DEFINE heard == pv.slot = "dash" /\ m.type = "trip_accepted"
           told  == /\ pv.slot = "sheet" /\ pv.stage = "sheet"
                    /\ m.type = "trip_cancelled"
           closed == [pv EXCEPT !.stage = IF over THEN @ ELSE "dashboard",
                                !.lapse = @ \/ over]
<1>1. ProviderHears(m, over) =
          IF heard THEN [pv EXCEPT !.stage = "routing", !.id = m.id]
          ELSE IF told THEN closed
          ELSE [pv EXCEPT !.lapse = TRUE]
  BY DEF ProviderHears
<1>2. QED
  BY <1>1 DEF TypeInv, ProviderType, StartInv

\* The client's phone only adds to the codes that were shown.
LEMMA StartClient ==
    ASSUME TypeInv, StartInv, ClientStep
    PROVE  StartInv'
<1>1. pv' = pv /\ otpShown \subseteq otpShown'
  <2>1. ASSUME NEW asks \in BOOLEAN, NEW opens \in BOOLEAN,
               clientCheckIfTripExists(asks, opens)
        PROVE  pv' = pv /\ otpShown \subseteq otpShown'
    BY <2>1 DEF clientCheckIfTripExists
  <2>2. ASSUME ~\E asks, opens \in BOOLEAN :
                    clientCheckIfTripExists(asks, opens)
        PROVE  pv' = pv /\ otpShown \subseteq otpShown'
    BY <2>2
    DEF ClientStep, postRequest, postRequestSucceeds, postRequestFails,
        overlayTimerFires, cancelRequestThroughWS, clientOnMessage,
        distanceMatrixSucceeds, distanceMatrixFails, clientCancelsTrip,
        clientLeavesTrip, clientDisconnects, clientRelaunches, clientLogsOut,
        lateListAnswers
  <2>3. QED
    BY <2>1, <2>2
<1>2. trip' = trip \/ trip'.status \notin {"started", "ended"}
  <2>1. CASE postRequest \/ cancelRequestThroughWS
    BY <2>1 DEF postRequest, cancelRequestThroughWS, TypeInv
  <2>2. CASE ~postRequest /\ ~cancelRequestThroughWS
    BY <2>2
    DEF ClientStep, postRequestSucceeds, postRequestFails, overlayTimerFires,
        clientOnMessage, distanceMatrixSucceeds, distanceMatrixFails,
        clientCancelsTrip, clientLeavesTrip, clientDisconnects,
        clientRelaunches, clientLogsOut, lateListAnswers,
        clientCheckIfTripExists
  <2>3. QED
    BY <2>1, <2>2
<1>3. QED
  BY <1>1, <1>2 DEF StartInv, StartedTripWasShown

\* The provider's phone offers and calls a start only for a shown code.
LEMMA StartProvider ==
    ASSUME TypeInv, StartInv, ProviderStep
    PROVE  StartInv'
<1>0. trip' = trip /\ otpShown' = otpShown
  BY DEF ProviderStep, switchValueChanged, onProviderMessage, ringFinishes,
         cancelRequest, btnAcceptRequest, onConnect, providerOnMessage,
         directionsSucceed, directionsFail, providerCancelsTrip,
         textFieldEditingChanged, btnActionPressed, startEndAnswers,
         providerLeavesTrip, providerDisconnects, providerRelaunches,
         providerCheckIfTripExists
<1>s. StartedTripWasShown'
  BY <1>0 DEF StartInv, StartedTripWasShown
<1> USE <1>0, <1>s DEF StartInv, TypeInv, ProviderType
<1>1. CASE switchValueChanged
  BY <1>1 DEF switchValueChanged
<1>2. CASE onProviderMessage
  BY <1>2 DEF onProviderMessage
<1>3. CASE ringFinishes
  BY <1>3 DEF ringFinishes
<1>c. CASE cancelRequest
  BY <1>c DEF cancelRequest
<1>4. CASE btnAcceptRequest
  BY <1>4 DEF btnAcceptRequest
<1>5. CASE onConnect
  BY <1>5 DEF onConnect
<1>6. CASE providerOnMessage
  <2>1. Head(toP) \in Messages
    BY <1>6, QueueRead DEF providerOnMessage
  <2>2. PICK over \in BOOLEAN : pv' = ProviderHears(Head(toP), over)
    BY <1>6 DEF providerOnMessage
  <2>3. QED
    BY <2>1, <2>2, ProviderHearsStart
<1>7. CASE directionsSucceed
  BY <1>7 DEF directionsSucceed
<1>8. CASE directionsFail
  BY <1>8 DEF directionsFail
<1>9. CASE providerCancelsTrip
  BY <1>9 DEF providerCancelsTrip
<1>10. CASE textFieldEditingChanged
  BY <1>10 DEF textFieldEditingChanged
<1>11. CASE btnActionPressed
  BY <1>11 DEF btnActionPressed
<1>12. CASE startEndAnswers
  BY <1>12 DEF startEndAnswers
<1>13. CASE providerLeavesTrip
  BY <1>13 DEF providerLeavesTrip
<1>14. CASE providerDisconnects
  BY <1>14 DEF providerDisconnects
<1>15. CASE providerRelaunches
  BY <1>15 DEF providerRelaunches, NewProvider
<1>16. ASSUME NEW seen \in BOOLEAN, providerCheckIfTripExists(seen)
       PROVE  StartInv'
  BY <1>16 DEF providerCheckIfTripExists, NewProvider
<1>17. QED
  BY <1>1, <1>2, <1>3, <1>c, <1>4, <1>5, <1>6, <1>7, <1>8, <1>9, <1>10, <1>11,
     <1>12, <1>13, <1>14, <1>15, <1>16
  DEF ProviderStep

\* The server starts only what a call in flight asks for.
LEMMA StartServer ==
    ASSUME TypeInv, StartInv, ServerStep
    PROVE  StartInv'
<1>t. ASSUME NEW type, NEW id, TellProvider(type, id)
      PROVE  /\ pv'.stage = pv.stage /\ pv'.id = pv.id
             /\ pv'.slot = pv.slot /\ pv'.rest = pv.rest
  BY <1>t DEF TellProvider, TypeInv, ProviderType
<1>1. CASE ServerReadsProvider
  <2>1. /\ pv'.stage = pv.stage /\ pv'.id = pv.id
        /\ pv'.slot = pv.slot /\ pv'.rest = pv.rest
        /\ otpShown' = otpShown
    BY <1>1, <1>t DEF ServerReadsProvider
  <2>2. trip' = trip \/ trip'.status \notin {"started", "ended"}
    BY <1>1 DEF ServerReadsProvider, TypeInv
  <2>3. QED
    BY <2>1, <2>2 DEF StartInv, StartedTripWasShown
<1>2. CASE ServerReadsClient
  <2>1. /\ pv'.stage = pv.stage /\ pv'.id = pv.id
        /\ pv'.slot = pv.slot /\ pv'.rest = pv.rest
        /\ otpShown' = otpShown
    BY <1>2, <1>t DEF ServerReadsClient
  <2>2. trip' = trip \/ trip'.status \notin {"started", "ended"}
    BY <1>2 DEF ServerReadsClient, TypeInv
  <2>3. QED
    BY <2>1, <2>2 DEF StartInv, StartedTripWasShown
<1>3. CASE ServerTakesStartEnd
  <2>1. /\ pv'.stage = pv.stage /\ pv'.id = pv.id /\ pv'.slot = pv.slot
        /\ pv'.rest # "starting" /\ otpShown' = otpShown
        /\ trip'.id = trip.id /\ trip.id = pv.id
    BY <1>3 DEF ServerTakesStartEnd, TypeInv, ProviderType
  <2>2. trip.id \in otpShown
    <3>1. CASE pv.rest = "starting"
      BY <3>1, <2>1 DEF StartInv
    <3>2. CASE pv.rest = "ending"
      BY <1>3, <3>2 DEF ServerTakesStartEnd, StartInv, StartedTripWasShown
    <3>3. QED
      BY <1>3, <3>1, <3>2 DEF ServerTakesStartEnd
  <2>3. QED
    BY <2>1, <2>2 DEF StartInv, StartedTripWasShown
<1>4. QED
  BY <1>1, <1>2, <1>3 DEF ServerStep

\* Every step keeps StartInv.
LEMMA StartStep == TypeInv /\ StartInv /\ [Next]_vars => StartInv'
<1>1. ASSUME StartInv, UNCHANGED vars PROVE StartInv'
  BY <1>1 DEF StartInv, StartedTripWasShown, vars
<1>2. QED
  BY <1>1, StartClient, StartProvider, StartServer DEF Next

\* No trip is started, and none is charged, before the client's phone has
\* shown the code of that very trip, although the start is a REST call that
\* carries no code: for any number of trips, messages in flight and
\* relaunches of either phone.
THEOREM StartIsShown == Spec => []StartedTripWasShown
<1>1. Init => StartInv
  BY DEF Init, StartInv, StartedTripWasShown, NewProvider
<1>2. Spec => [](TypeInv /\ StartInv)
  BY <1>1, TypeInit, TypeStep, StartStep, PTL DEF Spec
<1>3. StartInv => StartedTripWasShown
  BY DEF StartInv
<1>4. QED
  BY <1>2, <1>3, PTL

-----------------------------------------------------------------------------
(***************************************************************************)
(* What a phone shows is backed by the server.  A phone moves on what it   *)
(* hears, so everything in flight must be backed too, and the client's     *)
(* screen takes "started" and "ended" for its own trip whatever trip the   *)
(* message names: the queue is in the order of the trips, and none of its  *)
(* messages is about a trip before the one on screen.                      *)
(***************************************************************************)

\* Trip id was accepted, was started, has ended, when the server's trip is t.
Known(t, id) == /\ id # 0 /\ id <= t.id
                /\ id = t.id => t.status \in {"accepted", "started", "ended",
                                              "cancelled"}
Begun(t, id) == Known(t, id) /\ (id = t.id => t.status \in {"started", "ended"})
Over(t, id)  == Known(t, id) /\ (id = t.id => t.status = "ended")

Truthful(t, m) == /\ Known(t, m.id)
                  /\ m.type = "Trip_Started" => Begun(t, m.id)
                  /\ m.type = "Trip_Ended" => Over(t, m.id)

AllTruthful(t, net) == \A i \in 1 .. Len(net) : Truthful(t, net[i])
NoneBefore(low, net) == \A i \in 1 .. Len(net) : low <= net[i].id
NoneAfter(high, net) == \A i \in 1 .. Len(net) : net[i].id <= high
InTripOrder(net) ==
    \A i \in 1 .. Len(net) : \A j \in i .. Len(net) : net[i].id <= net[j].id

ClientQueue ==
    /\ AllTruthful(trip, toC) /\ NoneBefore(cl.id, toC) /\ InTripOrder(toC)
    /\ ~cl.open => toC = <<>>
    /\ cl.stage = "launching" => ~cl.open /\ ~cl.posted

ClientView ==
    /\ cl.id <= trip.id
    /\ cl.stage \in {"matching", "sheet", "trip", "running", "rating"}
          => Known(trip, cl.id)
    /\ cl.stage = "running" /\ ~cl.recovered => Begun(trip, cl.id)
    /\ cl.stage = "rating" => Over(trip, cl.id)
    /\ cl.recovered => Known(trip, cl.found)
    /\ cl.left => /\ cl.stage \in {"trip", "running", "rating"}
                  /\ cl.slot # "dash"

ProviderQueue ==
    /\ AllTruthful(trip, toP) /\ NoneAfter(trip.id, fromP)
    /\ pv.socket # "open" => toP = <<>>
    /\ pv.stage = "launching" => pv.socket = "down"

ProviderView ==
    /\ pv.id <= trip.id
    /\ pv.stage \in {"routing", "sheet", "start", "running", "rating"}
          => Known(trip, pv.id)
    /\ pv.stage = "running" => Begun(trip, pv.id)
    /\ pv.stage = "rating" => Over(trip, pv.id)
    /\ pv.rest = "started" => Begun(trip, pv.id)
    /\ pv.rest = "ended" => Over(trip, pv.id)
    /\ pv.rest \in {"starting", "started"} => pv.stage = "start"
    /\ pv.rest \in {"ending", "ended"} => pv.stage = "running"

\* The dashboard behind the screen of a running trip does not listen: an
\* acceptance would show the answer to the end call for another trip.
RunningTripIsDeaf == pv.stage = "running" => pv.slot # "dash"

\* A trip that has been requested has a number.
TripHasId == trip.status # "none" => trip.id # 0

ViewInv == /\ StartInv /\ TripHasId /\ ClientQueue /\ ClientView /\ ProviderQueue
           /\ ProviderView /\ RunningTripIsDeaf

\* The messages of a queue, and their numbers.
LEMMA MessageTypes ==
    /\ \A m \in Messages : m.id \in Nat
    /\ \A net \in Seq(Messages) :
          /\ Len(net) \in Nat
          /\ \A i \in 1 .. Len(net) : net[i] \in Messages /\ net[i].id \in Nat
<1>1. \A m \in Messages : m.id \in Nat
  BY SystemBounds DEF Messages, Ids
<1>2. QED
  BY <1>1, ElementOfSeq, LenProperties

\* The positions of a queue that is read, and of one that is written to.
LEMMA TailIndices ==
    ASSUME NEW net \in Seq(Messages), net # <<>>
    PROVE  /\ Head(net) = net[1] /\ 1 \in 1 .. Len(net)
           /\ Tail(net) \in Seq(Messages) /\ Len(Tail(net)) = Len(net) - 1
           /\ \A i \in 1 .. Len(Tail(net)) :
                 i + 1 \in 1 .. Len(net) /\ Tail(net)[i] = net[i + 1]
BY HeadTailProperties, LenProperties, EmptySeq

\* A queue with a message added, by index.
LEMMA AppendIndices ==
    ASSUME NEW net \in Seq(Messages), NEW m \in Messages
    PROVE  /\ Append(net, m) \in Seq(Messages)
           /\ Len(Append(net, m)) = Len(net) + 1
           /\ Append(net, m)[Len(net) + 1] = m
           /\ \A i \in 1 .. Len(net) : Append(net, m)[i] = net[i]
BY AppendProperties, LenProperties

\* A message of a queue that is written to is an old one or the new one.
LEMMA AppendCases ==
    ASSUME NEW net \in Seq(Messages), NEW m \in Messages,
           NEW i \in 1 .. Len(Append(net, m))
    PROVE  \/ i \in 1 .. Len(net) /\ Append(net, m)[i] = net[i]
           \/ i = Len(net) + 1 /\ Append(net, m)[i] = m
<1>1. Len(net) \in Nat /\ Len(Append(net, m)) = Len(net) + 1
  BY AppendIndices, MessageTypes
<1>2. i \in 1 .. Len(net) \/ i = Len(net) + 1
  BY <1>1
<1>3. QED
  BY <1>2, AppendIndices

\* The message read is truthful, and so are those behind it.
LEMMA TruthfulRead ==
    ASSUME NEW t, NEW net \in Seq(Messages), net # <<>>, AllTruthful(t, net)
    PROVE  Truthful(t, Head(net)) /\ AllTruthful(t, Tail(net))
BY TailIndices DEF AllTruthful

\* A truthful message joins truthful ones.
LEMMA TruthfulWrite ==
    ASSUME NEW t, NEW net \in Seq(Messages), AllTruthful(t, net),
           NEW m \in Messages, Truthful(t, m)
    PROVE  AllTruthful(t, Append(net, m))
BY AppendCases DEF AllTruthful

\* The message read is not older than the bound, and none behind it is older
\* than the message.
LEMMA OrderRead ==
    ASSUME NEW net \in Seq(Messages), net # <<>>, InTripOrder(net),
           NEW low \in Nat, NoneBefore(low, net)
    PROVE  /\ InTripOrder(Tail(net)) /\ low <= Head(net).id
           /\ NoneBefore(low, Tail(net)) /\ NoneBefore(Head(net).id, Tail(net))
<1> USE TailIndices, MessageTypes
<1>1. InTripOrder(Tail(net))
  <2>1. ASSUME NEW i \in 1 .. Len(Tail(net)), NEW j \in i .. Len(Tail(net))
        PROVE  Tail(net)[i].id <= Tail(net)[j].id
    <3>1. /\ j \in 1 .. Len(Tail(net)) /\ i + 1 \in 1 .. Len(net)
          /\ j + 1 \in i + 1 .. Len(net)
      OBVIOUS
    <3>2. net[i + 1].id <= net[j + 1].id
      BY <3>1 DEF InTripOrder
    <3>3. QED
      BY <3>1, <3>2
  <2>2. QED
    BY <2>1 DEF InTripOrder
<1>2. NoneBefore(low, Tail(net)) /\ low <= Head(net).id
  BY DEF NoneBefore
<1>3. NoneBefore(Head(net).id, Tail(net))
  <2>1. \A j \in 1 .. Len(net) : net[1].id <= net[j].id
    BY DEF InTripOrder
  <2>2. QED
    BY <2>1 DEF NoneBefore
<1>4. QED
  BY <1>1, <1>2, <1>3

\* A message of the latest trip joins a queue in the order of trips.
LEMMA OrderWrite ==
    ASSUME NEW net \in Seq(Messages), InTripOrder(net), NEW m \in Messages,
           NEW low \in Nat, NoneBefore(low, net), low <= m.id,
           NoneAfter(m.id, net)
    PROVE  /\ InTripOrder(Append(net, m)) /\ NoneBefore(low, Append(net, m))
<1> DEFINE new == Append(net, m)
<1>1. /\ Len(new) = Len(net) + 1 /\ new[Len(net) + 1] = m
      /\ \A i \in 1 .. Len(net) : new[i] = net[i]
      /\ Len(net) \in Nat
  BY AppendIndices, MessageTypes
<1>2. \A i \in 1 .. Len(new) : i \in 1 .. Len(net) \/ i = Len(net) + 1
  BY <1>1
<1> HIDE DEF new
<1>3. NoneBefore(low, new)
  BY <1>1, <1>2 DEF NoneBefore
<1>4. InTripOrder(new)
  <2>1. ASSUME NEW i \in 1 .. Len(new), NEW j \in i .. Len(new)
        PROVE  new[i].id <= new[j].id
    <3>1. j \in 1 .. Len(new)
      BY <1>1
    <3>2. CASE i \in 1 .. Len(net) /\ j \in 1 .. Len(net)
      BY <1>1, <2>1, <3>2 DEF InTripOrder
    <3>3. CASE i \in 1 .. Len(net) /\ j = Len(net) + 1
      BY <1>1, <3>3 DEF NoneAfter
    <3>4. CASE i = Len(net) + 1
      <4>1. j = Len(net) + 1 /\ m.id \in Nat
        BY <1>1, <2>1, <3>4, MessageTypes
      <4>2. QED
        BY <1>1, <3>4, <4>1
    <3>5. QED
      BY <1>2, <3>1, <3>2, <3>3, <3>4
  <2>2. QED
    BY <2>1 DEF InTripOrder
<1>5. QED
  BY <1>3, <1>4 DEF new

\* Nothing truthful is about a trip the server has not had.
LEMMA TruthfulNoneAfter ==
    ASSUME NEW t, NEW net \in Seq(Messages), AllTruthful(t, net)
    PROVE  NoneAfter(t.id, net)
BY DEF AllTruthful, Truthful, Known, NoneAfter

\* An empty queue has every property of queues.
LEMMA EmptyQueues ==
    /\ \A t : AllTruthful(t, <<>>)
    /\ \A n : NoneBefore(n, <<>>) /\ NoneAfter(n, <<>>)
    /\ InTripOrder(<<>>)
BY DEF AllTruthful, NoneBefore, NoneAfter, InTripOrder

\* The server's trip stays, is replaced by a new request when it is not
\* active, or moves along one edge of its life.
TripMoves ==
    \/ trip' = trip
    \/ /\ trip.status \notin {"accepted", "started"}
       /\ trip' = [id |-> trip.id + 1, status |-> "requested"]
    \/ \E e \in Life!Edges : /\ trip.status = e[1]
                             /\ trip' = [trip EXCEPT !.status = e[2]]

\* The client's phone moves the trip only as the server may.
LEMMA ClientTripMoves == ASSUME TypeInv, ClientStep PROVE TripMoves
<1>1. CASE postRequest
  BY <1>1 DEF postRequest, TripMoves
<1>2. CASE cancelRequestThroughWS
  <2>1. <<"requested", "cancelled">> \in Life!Edges
    BY DEF Life!Edges
  <2>2. QED
    BY <1>2, <2>1 DEF cancelRequestThroughWS, TripMoves
<1>3. CASE ~postRequest /\ ~cancelRequestThroughWS
  <2>1. trip' = trip
    BY <1>3
    DEF ClientStep, postRequestSucceeds, postRequestFails, overlayTimerFires,
        clientOnMessage, distanceMatrixSucceeds, distanceMatrixFails,
        clientCancelsTrip, clientLeavesTrip, clientDisconnects,
        clientRelaunches, clientLogsOut, lateListAnswers,
        clientCheckIfTripExists
  <2>2. QED
    BY <2>1 DEF TripMoves
<1>4. QED
  BY <1>1, <1>2, <1>3

\* The server moves the trip along its life, or to the next one.
LEMMA ServerTripMoves == ASSUME TypeInv, ServerStep PROVE TripMoves
<1>1. /\ <<"requested", "accepted">> \in Life!Edges
      /\ <<"accepted", "cancelled">> \in Life!Edges
      /\ <<"accepted", "started">> \in Life!Edges
      /\ <<"started", "ended">> \in Life!Edges
  BY DEF Life!Edges
<1>2. CASE ServerReadsProvider
  BY <1>1, <1>2 DEF ServerReadsProvider, TripMoves
<1>3. CASE ServerReadsClient
  BY <1>1, <1>3 DEF ServerReadsClient, TripMoves
<1>4. CASE ServerTakesStartEnd
  <2>1. \/ trip' = [trip EXCEPT !.status = trip.status]
        \/ /\ trip.status = "accepted"
           /\ trip' = [trip EXCEPT !.status = "started"]
        \/ /\ trip.status = "started"
           /\ trip' = [trip EXCEPT !.status = "ended"]
    BY <1>4 DEF ServerTakesStartEnd
  <2>2. [trip EXCEPT !.status = trip.status] = trip
    BY DEF TypeInv
  <2>3. QED
    BY <1>1, <2>1, <2>2 DEF TripMoves
<1>5. QED
  BY <1>2, <1>3, <1>4 DEF ServerStep

\* What was accepted, started or over stays so.
LEMMA KnownStays ==
    ASSUME TypeInv, TripMoves, NEW id \in Nat
    PROVE  /\ trip.id <= trip'.id
           /\ Known(trip, id) => Known(trip', id)
           /\ Begun(trip, id) => Begun(trip', id)
           /\ Over(trip, id) => Over(trip', id)
<1>0. trip.id \in Nat
  BY SystemBounds DEF TypeInv, Ids
<1>1. CASE trip' = trip
  BY <1>0, <1>1
<1>2. CASE trip' = [id |-> trip.id + 1, status |-> "requested"]
  BY <1>0, <1>2 DEF Known, Begun, Over
<1>3. ASSUME NEW e \in Life!Edges, trip.status = e[1],
             trip' = [trip EXCEPT !.status = e[2]]
      PROVE  /\ trip.id <= trip'.id
             /\ Known(trip, id) => Known(trip', id)
             /\ Begun(trip, id) => Begun(trip', id)
             /\ Over(trip, id) => Over(trip', id)
  <2>1. trip'.id = trip.id /\ trip'.status = e[2]
    BY <1>3 DEF TypeInv
  <2>2. /\ e[1] \in {"accepted", "started", "ended", "cancelled"}
              => e[2] \in {"accepted", "started", "ended", "cancelled"}
        /\ e[1] \in {"started", "ended"} => e[2] \in {"started", "ended"}
        /\ e[1] # "ended"
    BY <1>3 DEF Life!Edges
  <2>3. QED
    BY <1>0, <1>3, <2>1, <2>2 DEF Known, Begun, Over
<1>4. QED
  BY <1>1, <1>2, <1>3 DEF TripMoves

\* What was truthful about the trip when it was written stays so as it moves.
LEMMA TruthStays ==
    ASSUME TypeInv, TripMoves, NEW net \in Seq(Messages)
    PROVE  /\ AllTruthful(trip, net) => AllTruthful(trip', net)
           /\ NoneAfter(trip.id, net) => NoneAfter(trip'.id, net)
<1>1. ASSUME AllTruthful(trip, net) PROVE AllTruthful(trip', net)
  <2>1. ASSUME NEW i \in 1 .. Len(net) PROVE Truthful(trip', net[i])
    <3>1. net[i].id \in Nat /\ Truthful(trip, net[i])
      BY <1>1, MessageTypes DEF AllTruthful
    <3>2. QED
      BY <3>1, KnownStays DEF Truthful
  <2>2. QED
    BY <2>1 DEF AllTruthful
<1>2. trip.id \in Nat /\ trip'.id \in Nat /\ trip.id <= trip'.id
  <2>1. trip.id \in Nat
    BY SystemBounds DEF TypeInv, Ids
  <2>2. trip'.id \in {trip.id, trip.id + 1}
    BY DEF TripMoves, TypeInv
  <2>3. QED
    BY <2>1, <2>2
<1>3. ASSUME NoneAfter(trip.id, net) PROVE NoneAfter(trip'.id, net)
  BY <1>2, <1>3, MessageTypes DEF NoneAfter
<1>4. QED
  BY <1>1, <1>3

\* A client's phone that keeps its screen, while the server's trip moves.
LEMMA ClientStays ==
    ASSUME TypeInv, TripMoves, ClientView, ClientQueue,
           cl' = cl \/ cl' = [cl EXCEPT !.lapse = TRUE], toC' = toC
    PROVE  ClientView' /\ ClientQueue'
<1>1. cl.id \in Nat /\ cl.found \in Nat /\ trip.id \in Nat
      /\ trip'.id \in Nat /\ toC \in Seq(Messages)
  <2>1. trip.id \in Nat /\ cl.id \in Nat /\ cl.found \in Nat
    BY SystemBounds DEF TypeInv, Ids, ClientType
  <2>2. trip'.id \in {trip.id, trip.id + 1}
    BY DEF TripMoves, TypeInv
  <2>3. QED
    BY <2>1, <2>2 DEF TypeInv, Queue
<1>2. /\ cl'.id = cl.id /\ cl'.stage = cl.stage /\ cl'.open = cl.open
      /\ cl'.recovered = cl.recovered /\ cl'.posted = cl.posted
      /\ cl'.found = cl.found /\ cl'.left = cl.left /\ cl'.slot = cl.slot
  BY DEF TypeInv, ClientType
<1>3. ClientView'
  BY <1>1, <1>2, KnownStays DEF ClientView
<1>4. ClientQueue'
  BY <1>1, <1>2, TruthStays DEF ClientQueue
<1>5. QED
  BY <1>3, <1>4

\* A provider's phone that keeps its screen.
LEMMA ProviderStays ==
    ASSUME TypeInv, TripMoves, ProviderView, ProviderQueue,
           RunningTripIsDeaf, UNCHANGED <<pv, toP, fromP>>
    PROVE  ProviderView' /\ ProviderQueue' /\ RunningTripIsDeaf'
<1>1. /\ pv.id \in Nat /\ trip.id \in Nat /\ trip'.id \in Nat
      /\ toP \in Seq(Messages) /\ fromP \in Seq(Messages)
  <2>1. trip.id \in Nat /\ pv.id \in Nat
    BY SystemBounds DEF TypeInv, Ids, ProviderType
  <2>2. trip'.id \in {trip.id, trip.id + 1}
    BY DEF TripMoves, TypeInv
  <2>3. QED
    BY <2>1, <2>2 DEF TypeInv, Queue
<1>2. ProviderView'
  BY <1>1, KnownStays DEF ProviderView
<1>3. ProviderQueue'
  BY <1>1, TruthStays DEF ProviderQueue
<1>4. RunningTripIsDeaf'
  BY DEF RunningTripIsDeaf
<1>5. QED
  BY <1>2, <1>3, <1>4

\* The same, field by field.
LEMMA ClientHeard ==
    ASSUME TypeInv, NEW m, NEW over \in BOOLEAN, NEW next,
           next = ClientHears(m, over)
    PROVE  /\ next.open = cl.open /\ next.posted = cl.posted
           /\ next.recovered => cl.recovered /\ next.found = cl.found
           /\ \/ /\ cl.slot = "dash" /\ m.type = "trip_accepted"
                 /\ next.stage = "matching" /\ next.id = m.id
                 /\ next.slot = "dash" /\ next.recovered = cl.recovered
                 /\ next.left = cl.left /\ next.lapse = cl.lapse
              \/ /\ cl.slot = "sheet" /\ cl.stage = "sheet"
                 /\ m.type = "reached"
                 /\ next.stage = IF cl.recovered THEN "running" ELSE "trip"
                 /\ next.id = cl.id /\ next.slot = "trip"
                 /\ next.recovered = cl.recovered
                 /\ next.left = over /\ next.lapse = (cl.lapse \/ over)
              \/ /\ cl.slot = "sheet" /\ cl.stage = "sheet"
                 /\ m.type = "trip_cancelled"
                 /\ next.stage = "dashboard" /\ next.id = cl.id
                 /\ next.slot = "sheet" /\ next.recovered = cl.recovered
                 /\ next.left = cl.left /\ next.lapse = cl.lapse
              \/ /\ cl.slot = "sheet" /\ cl.stage = "sheet"
                 /\ m.type = "Trip_Started"
                 /\ next.stage = "trip" /\ next.id = cl.id
                 /\ next.slot = "trip" /\ ~next.recovered
                 /\ next.left = over /\ next.lapse
              \/ /\ cl.slot = "trip" /\ cl.stage \in {"trip", "running"}
                 /\ m.type = "Trip_Started"
                 /\ next.stage = "running" /\ next.id = cl.id
                 /\ next.slot = "trip" /\ next.recovered = cl.recovered
                 /\ next.left = cl.left /\ next.lapse = cl.lapse
              \/ /\ cl.slot = "trip" /\ cl.stage \in {"trip", "running"}
                 /\ m.type = "Trip_Ended"
                 /\ next.stage = "rating" /\ next.id = cl.id
                 /\ next.slot = "trip" /\ next.recovered = cl.recovered
                 /\ next.left = cl.left /\ next.lapse = cl.lapse
              \/ /\ next.stage = cl.stage /\ next.id = cl.id
                 /\ next.slot = cl.slot /\ next.recovered = cl.recovered
                 /\ next.left = cl.left /\ next.lapse
<1>1. CASE /\ cl.slot = "dash" /\ m.type = "trip_accepted"
           /\ next = [cl EXCEPT !.stage = "matching", !.id = m.id]
  BY <1>1 DEF TypeInv, ClientType
<1>2. CASE /\ cl.slot = "sheet" /\ cl.stage = "sheet" /\ m.type = "reached"
           /\ next = [cl EXCEPT !.stage = IF cl.recovered THEN "running"
                                          ELSE "trip",
                                !.slot = "trip", !.left = over,
                                !.lapse = @ \/ over]
  BY <1>2 DEF TypeInv, ClientType
<1>3. CASE /\ cl.slot = "sheet" /\ cl.stage = "sheet"
           /\ m.type = "trip_cancelled"
           /\ next = [cl EXCEPT !.stage = IF over THEN @ ELSE "dashboard",
                                !.lapse = @ \/ over]
  BY <1>3 DEF TypeInv, ClientType
<1>4. CASE /\ cl.slot = "sheet" /\ cl.stage = "sheet"
           /\ m.type = "Trip_Started" /\ cl.recovered
           /\ next = [cl EXCEPT !.stage = "trip", !.slot = "trip",
                                !.left = over, !.recovered = FALSE,
                                !.found = 0, !.begun = FALSE, !.lapse = TRUE]
  BY <1>4 DEF TypeInv, ClientType
<1>5. CASE /\ cl.slot = "trip" /\ cl.stage \in {"trip", "running"}
           /\ m.type = "Trip_Started"
           /\ next = [cl EXCEPT !.stage = "running"]
  BY <1>5 DEF TypeInv, ClientType
<1>6. CASE /\ cl.slot = "trip" /\ cl.stage \in {"trip", "running"}
           /\ m.type = "Trip_Ended"
           /\ next = [cl EXCEPT !.stage = "rating"]
  BY <1>6 DEF TypeInv, ClientType
<1>7. CASE next = [cl EXCEPT !.lapse = TRUE]
  BY <1>7 DEF TypeInv, ClientType
<1>8. QED
  BY <1>1, <1>2, <1>3, <1>4, <1>5, <1>6, <1>7, ClientHearsIs, Zenon

\* ProviderHears, arm by arm.
LEMMA ProviderHearsIs ==
    ASSUME NEW m, NEW over
    PROVE  LET next == ProviderHears(m, over) IN
           \/ /\ pv.slot = "dash" /\ m.type = "trip_accepted"
              /\ next = [pv EXCEPT !.stage = "routing", !.id = m.id]
           \/ /\ pv.slot = "sheet" /\ pv.stage = "sheet"
              /\ m.type = "trip_cancelled"
              /\ next = [pv EXCEPT !.stage = IF over THEN @ ELSE "dashboard",
                                   !.lapse = @ \/ over]
           \/ next = [pv EXCEPT !.lapse = TRUE]
BY Zenon DEF ProviderHears

\* The same, field by field.
LEMMA ProviderHeard ==
    ASSUME TypeInv, NEW m, NEW over \in BOOLEAN, NEW next,
           next = ProviderHears(m, over)
    PROVE  /\ next.socket = pv.socket /\ next.rest = pv.rest
           /\ next.slot = pv.slot
           /\ \/ /\ pv.slot = "dash" /\ m.type = "trip_accepted"
                 /\ next.stage = "routing" /\ next.id = m.id
                 /\ next.lapse = pv.lapse
              \/ /\ pv.slot = "sheet" /\ pv.stage = "sheet"
                 /\ m.type = "trip_cancelled"
                 /\ next.stage = "dashboard" /\ next.id = pv.id
                 /\ next.lapse = pv.lapse
              \/ /\ next.stage = pv.stage /\ next.id = pv.id /\ next.lapse
<1>1. CASE /\ pv.slot = "dash" /\ m.type = "trip_accepted"
           /\ next = [pv EXCEPT !.stage = "routing", !.id = m.id]
  BY <1>1 DEF TypeInv, ProviderType
<1>2. CASE /\ pv.slot = "sheet" /\ pv.stage = "sheet"
           /\ m.type = "trip_cancelled"
           /\ next = [pv EXCEPT !.stage = IF over THEN @ ELSE "dashboard",
                                !.lapse = @ \/ over]
  BY <1>2 DEF TypeInv, ProviderType
<1>3. CASE next = [pv EXCEPT !.lapse = TRUE]
  BY <1>3 DEF TypeInv, ProviderType
<1>4. QED
  BY <1>1, <1>2, <1>3, ProviderHearsIs, Zenon

\* A trip up to the one a message is about has come as far as that one.
LEMMA UpTo ==
    ASSUME NEW t, t.id \in Nat, NEW id \in Nat, NEW k \in Nat, id <= k,
           Known(t, id)
    PROVE  /\ Begun(t, k) => Begun(t, id)
           /\ Over(t, k) => Over(t, id)
BY DEF Known, Begun, Over

\* The client's steps leave its screen and its queue backed by the server.
LEMMA ClientKeepsView ==
    ASSUME TypeInv, TypeInv', ViewInv, ClientStep
    PROVE  ClientView' /\ ClientQueue'
<1>t. TripMoves
  BY ClientTripMoves
<1>n. /\ cl.id \in Nat /\ cl.found \in Nat /\ trip.id \in Nat
      /\ toC \in Seq(Messages)
  BY SystemBounds DEF TypeInv, Ids, ClientType, Queue
<1> USE <1>n, EmptyQueues
    DEF ViewInv, ClientView, ClientQueue, TypeInv, ClientType
<1>1. CASE postRequest
  <2>1. /\ cl'.id = cl.id /\ cl'.stage = cl.stage /\ cl'.open = cl.open
        /\ cl'.stage # "launching" /\ toC' = toC /\ trip'.id = trip.id + 1
    BY <1>1 DEF postRequest, netVars
  <2>2. AllTruthful(trip', toC')
    BY <1>t, <2>1, TruthStays
  <2>3. Known(trip, cl.found) => Known(trip', cl.found)
    BY <1>t, KnownStays
  <2>4. QED
    BY <1>1, <2>1, <2>2, <2>3 DEF postRequest
<1>2. CASE postRequestSucceeds
  BY <1>2 DEF postRequestSucceeds
<1>3. CASE postRequestFails
  BY <1>3 DEF postRequestFails, netVars
<1>4. CASE overlayTimerFires
  BY <1>4 DEF overlayTimerFires, netVars
<1>5. CASE cancelRequestThroughWS
  <2>1. /\ cl'.id = cl.id /\ cl'.stage = "dashboard" /\ cl'.open = cl.open
        /\ toC' = toC /\ trip'.id = trip.id
    BY <1>5 DEF cancelRequestThroughWS, netVars
  <2>2. AllTruthful(trip', toC')
    BY <1>t, <2>1, TruthStays
  <2>3. Known(trip, cl.found) => Known(trip', cl.found)
    BY <1>t, KnownStays
  <2>4. /\ cl'.recovered = cl.recovered /\ cl'.found = cl.found
        /\ cl'.left = cl.left /\ cl.stage = "waiting"
    BY <1>5 DEF cancelRequestThroughWS
  <2>5. QED
    BY <1>5, <2>1, <2>2, <2>3, <2>4
<1>6. CASE clientOnMessage
  <2> DEFINE m == Head(toC)
  <2>0. m \in Messages /\ m.id \in Nat /\ trip' = trip /\ toC' = Tail(toC)
    BY <1>6, TailIndices, MessageTypes DEF clientOnMessage
  <2>1. /\ Truthful(trip, m) /\ AllTruthful(trip', toC') /\ InTripOrder(toC')
        /\ cl.id <= m.id /\ NoneBefore(cl.id, toC') /\ NoneBefore(m.id, toC')
    BY <1>6, <2>0, TruthfulRead, OrderRead DEF clientOnMessage
  <2>2. /\ Known(trip, m.id) /\ m.id <= trip.id
        /\ m.type = "Trip_Started" => Begun(trip, m.id)
        /\ m.type = "Trip_Ended" => Over(trip, m.id)
    BY <2>1 DEF Truthful, Known
  <2>3. cl.stage \in {"trip", "running"} =>
            /\ m.type = "Trip_Started" => Begun(trip, cl.id)
            /\ m.type = "Trip_Ended" => Over(trip, cl.id)
    BY <2>0, <2>1, <2>2, UpTo
  <2>4. toC' # <<>> => cl.open
    BY <1>6 DEF clientOnMessage
  <2>5. PICK over \in BOOLEAN : cl' = ClientHears(m, over)
    BY <1>6 DEF clientOnMessage
  <2> HIDE DEF m
  <2>6. ~cl'.open => toC' = <<>>
    BY <2>4, <2>5, ClientHeard
  <2>7. cl'.stage # "launching"
    BY <1>6, <2>5, ClientHeard DEF clientOnMessage
  <2>8. NoneBefore(cl'.id, toC') /\ cl'.id <= trip.id
    BY <2>0, <2>1, <2>2, <2>5, ClientHeard
  <2>a. /\ cl'.stage \in {"matching", "sheet", "trip", "running", "rating"}
              => Known(trip, cl'.id)
        /\ cl'.stage = "running" /\ ~cl'.recovered => Begun(trip, cl'.id)
        /\ cl'.stage = "rating" => Over(trip, cl'.id)
    BY <2>0, <2>2, <2>3, <2>5, ClientHeard
  <2>b. cl'.recovered => Known(trip, cl'.found)
    BY <2>5, ClientHeard
  <2>c. cl'.left => /\ cl'.stage \in {"trip", "running", "rating"}
                    /\ cl'.slot # "dash"
    BY <2>5, ClientHeard
  <2>d. ClientView'
    BY <2>0, <2>8, <2>a, <2>b, <2>c
  <2>9. QED
    BY <2>1, <2>6, <2>7, <2>8, <2>d
<1>7. CASE distanceMatrixSucceeds
  BY <1>7 DEF distanceMatrixSucceeds, netVars
<1>8. CASE distanceMatrixFails
  BY <1>8 DEF distanceMatrixFails, netVars
<1>9. ASSUME NEW stays \in BOOLEAN, clientCancelsTrip(stays)
      PROVE  ClientView' /\ ClientQueue'
  BY <1>9 DEF clientCancelsTrip
<1>10. CASE clientLeavesTrip
  BY <1>10 DEF clientLeavesTrip, netVars
<1>11. CASE clientDisconnects
  BY <1>11 DEF clientDisconnects
<1>12. CASE clientRelaunches
  BY <1>12 DEF clientRelaunches, NewClient
<1>13. CASE clientLogsOut
  BY <1>13 DEF clientLogsOut
<1>14. CASE lateListAnswers
  <2>1. AllTruthful(trip', toC') /\ NoneBefore(cl'.id, toC')
        /\ InTripOrder(toC')
    BY <1>14, LateList
  <2>2. ClientView'
    BY <1>14, LateList
  <2>3. QED
    BY <1>14, <2>1, <2>2, LateList
<1>15. ASSUME NEW asks \in BOOLEAN, NEW opens \in BOOLEAN,
              clientCheckIfTripExists(asks, opens)
       PROVE  ClientView' /\ ClientQueue'
  <2>1. toC' = <<>> /\ trip' = trip /\ ~cl.left /\ ~cl.posted
    BY <1>15 DEF clientCheckIfTripExists, netVars
  <2>2. CASE \E id \in {trip.id, cl.found}, begun \in BOOLEAN, lag \in BOOLEAN :
                 Known(trip, id) /\ cl' = Recovered(id, begun, opens, lag)
    <3>1. PICK id \in {trip.id, cl.found}, begun \in BOOLEAN, lag \in BOOLEAN :
              Known(trip, id) /\ cl' = Recovered(id, begun, opens, lag)
      BY <2>2
    <3>2. /\ cl'.stage \in {"running", "sheet", "dashboard"} /\ cl'.id = id
          /\ cl'.found = id /\ cl'.recovered /\ ~cl'.left /\ cl'.open
      BY <2>1, <3>1 DEF Recovered
    <3>3. id <= trip.id
      BY <3>1 DEF Known
    <3>4. QED
      BY <2>1, <3>1, <3>2, <3>3
  <2>3. CASE cl' = [NewClient EXCEPT !.late = cl.late,
                       !.lapse = (trip.status \in {"accepted", "started"})]
    BY <2>1, <2>3 DEF NewClient
  <2>4. trip.status \in {"accepted", "started"} => Known(trip, trip.id)
    BY DEF TripHasId, Known
  <2>5. /\ (trip.status = "started") \in BOOLEAN /\ cl.begun \in BOOLEAN
        /\ ((trip.status = "accepted" /\ reached) \/ fromC # <<>>) \in BOOLEAN
    OBVIOUS
  <2>6. QED
    BY <1>15, <2>2, <2>3, <2>4, <2>5 DEF clientCheckIfTripExists
<1>16. QED
  BY <1>1, <1>2, <1>3, <1>4, <1>5, <1>6, <1>7, <1>8, <1>9, <1>10, <1>11,
     <1>12, <1>13, <1>14, <1>15
  DEF ClientStep

\* A message of the provider about its own trip, or a trip before the
\* server's.
LEMMA WriteAfter ==
    ASSUME NEW net \in Seq(Messages), NEW n \in Nat, NoneAfter(n, net),
           NEW m \in Messages, m.id <= n
    PROVE  NoneAfter(n, Append(net, m))
BY AppendCases DEF NoneAfter

\* The rest of a queue.
LEMMA ReadOthers ==
    ASSUME NEW net \in Seq(Messages), net # <<>>, NEW n
    PROVE  NoneAfter(n, net) => NoneAfter(n, Tail(net))
BY TailIndices DEF NoneAfter

\* The provider's steps leave its screen and its queue backed by the server.
LEMMA ProviderKeepsView ==
    ASSUME TypeInv, TypeInv', ViewInv, ProviderStep
    PROVE  ProviderView' /\ ProviderQueue' /\ RunningTripIsDeaf'
<1>n. /\ pv.id \in Nat /\ trip.id \in Nat
      /\ toP \in Seq(Messages) /\ fromP \in Seq(Messages)
  BY SystemBounds DEF TypeInv, Ids, ProviderType, Queue
<1>t. trip' = trip
  BY DEF ProviderStep, switchValueChanged, onProviderMessage, ringFinishes,
         cancelRequest, btnAcceptRequest, onConnect, providerOnMessage,
         directionsSucceed, directionsFail, providerCancelsTrip,
         textFieldEditingChanged, btnActionPressed, startEndAnswers,
         providerLeavesTrip, providerDisconnects, providerRelaunches,
         providerCheckIfTripExists
<1>w. ASSUME NEW type \in {"trip_cancelled", "reached", "trip_accepted"}
      PROVE  NoneAfter(trip.id, Append(fromP, Message(type, pv.id)))
  <2>1. /\ Message(type, pv.id) \in Messages /\ Message(type, pv.id).id = pv.id
        /\ Message(type, pv.id).type = type
    BY DEF Message, Messages, TypeInv, ProviderType
  <2>2. pv.id <= trip.id /\ NoneAfter(trip.id, fromP)
    BY DEF ViewInv, ProviderView, ProviderQueue
  <2>3. QED
    BY <1>n, <2>1, <2>2, WriteAfter
<1> USE <1>n, <1>t, EmptyQueues
    DEF ViewInv, StartInv, ProviderView, ProviderQueue,
        RunningTripIsDeaf, TypeInv, ProviderType
<1>1. CASE switchValueChanged
  BY <1>1 DEF switchValueChanged, netVars
<1>2. CASE onProviderMessage
  BY <1>2 DEF onProviderMessage, netVars
<1>3. CASE ringFinishes
  BY <1>3 DEF ringFinishes, netVars
<1>c. CASE cancelRequest
  BY <1>c DEF cancelRequest, netVars
<1>4. CASE btnAcceptRequest
  BY <1>4 DEF btnAcceptRequest
<1>5. CASE onConnect
  <2>1. NoneAfter(trip.id, fromP')
    BY <1>5, <1>w DEF onConnect
  <2>2. RunningTripIsDeaf'
    BY <1>5 DEF onConnect
  <2>3. QED
    BY <1>5, <2>1, <2>2 DEF onConnect
<1>6. CASE providerOnMessage
  <2> DEFINE m == Head(toP)
  <2>0. /\ m \in Messages /\ m.id \in Nat /\ toP' = Tail(toP)
        /\ fromP' = fromP /\ toP # <<>>
    BY <1>6, TailIndices, MessageTypes DEF providerOnMessage
  <2>1. Truthful(trip, m) /\ AllTruthful(trip', toP')
    BY <2>0, TruthfulRead
  <2>2. Known(trip, m.id) /\ m.id <= trip.id
    BY <2>1 DEF Truthful, Known
  <2>3. PICK over \in BOOLEAN : pv' = ProviderHears(m, over)
    BY <1>6 DEF providerOnMessage
  <2> HIDE DEF m
  <2>4. pv.stage = "start" => pv.slot = "sheet"
    OBVIOUS
  <2>5. ProviderView'
    <3>1. CASE /\ pv.slot = "dash" /\ pv'.stage = "routing" /\ pv'.id = m.id
      <4>1. pv.stage # "start" /\ pv.stage # "running" /\ pv'.rest = pv.rest
        BY <2>3, <2>4, <3>1, ProviderHeard
      <4>2. pv'.rest = "idle"
        BY <4>1
      <4>3. QED
        BY <2>2, <3>1, <4>2
    <3>2. CASE /\ pv.stage = "sheet" /\ pv'.stage = "dashboard"
               /\ pv'.id = pv.id
      <4>1. pv'.rest = "idle"
        BY <2>3, <3>2, ProviderHeard
      <4>2. QED
        BY <3>2, <4>1
    <3>3. CASE pv'.stage = pv.stage /\ pv'.id = pv.id
      <4>1. pv'.rest = pv.rest
        BY <2>3, ProviderHeard
      <4>2. QED
        BY <3>3, <4>1
    <3>4. QED
      BY <2>3, <3>1, <3>2, <3>3, ProviderHeard
  <2>6. ProviderQueue'
    BY <1>6, <2>0, <2>1, <2>3, ProviderHeard
  <2>7. RunningTripIsDeaf'
    BY <2>0, <2>3, ProviderHeard
  <2>8. QED
    BY <2>5, <2>6, <2>7
<1>7. CASE directionsSucceed
  BY <1>7 DEF directionsSucceed, netVars
<1>8. CASE directionsFail
  BY <1>8 DEF directionsFail, netVars
<1>9. CASE providerCancelsTrip
  <2>1. NoneAfter(trip.id, fromP')
    BY <1>9, <1>w DEF providerCancelsTrip, ProviderWrites
  <2>2. QED
    BY <1>9, <2>1 DEF providerCancelsTrip
<1>10. CASE textFieldEditingChanged
  <2>1. NoneAfter(trip.id, fromP')
    BY <1>10, <1>w DEF textFieldEditingChanged, ProviderWrites
  <2>2. QED
    BY <1>10, <2>1 DEF textFieldEditingChanged
<1>11. CASE btnActionPressed
  BY <1>11 DEF btnActionPressed, netVars
<1>12. CASE startEndAnswers
  BY <1>12 DEF startEndAnswers, netVars
<1>13. CASE providerLeavesTrip
  BY <1>13 DEF providerLeavesTrip, netVars
<1>14. CASE providerDisconnects
  BY <1>14 DEF providerDisconnects
<1>15. CASE providerRelaunches
  BY <1>15 DEF providerRelaunches, NewProvider
<1>16. ASSUME NEW seen \in BOOLEAN, providerCheckIfTripExists(seen)
       PROVE  ProviderView' /\ ProviderQueue' /\ RunningTripIsDeaf'
  <2>1. toP' = <<>> /\ fromP' = fromP
    BY <1>16 DEF providerCheckIfTripExists, netVars
  <2>2. /\ pv'.id = trip.id /\ pv'.rest = "idle" /\ pv'.slot = "none"
        /\ \/ pv'.stage = "running" /\ trip.status = "started"
           \/ pv'.stage = "dashboard"
    BY <1>16 DEF providerCheckIfTripExists, NewProvider
  <2>4. trip.status = "started" => Known(trip, trip.id) /\ Begun(trip, trip.id)
    BY DEF Known, Begun, TripHasId
  <2>5. QED
    BY <2>1, <2>2, <2>4
<1>17. QED
  BY <1>1, <1>2, <1>3, <1>c, <1>4, <1>5, <1>6, <1>7, <1>8, <1>9, <1>10, <1>11,
     <1>12, <1>13, <1>14, <1>15, <1>16
  DEF ProviderStep

\* What the server tells a phone of the trip as it now is.
LEMMA TellKeepsClient ==
    ASSUME TypeInv, ClientQueue, ClientView, TripMoves, trip'.id = trip.id,
           NEW m \in Messages, m.id = trip.id, Truthful(trip', m),
           TellClient(m.type, m.id)
    PROVE  ClientView' /\ ClientQueue'
<1>n. /\ cl.id \in Nat /\ cl.found \in Nat /\ trip.id \in Nat
      /\ toC \in Seq(Messages)
  BY SystemBounds DEF TypeInv, Ids, ClientType, Queue
<1>1. Message(m.type, m.id) = m
  BY DEF Message, Messages
<1>2. CASE cl.open
  <2>1. cl' = cl /\ toC' = Append(toC, m)
    BY <1>1, <1>2 DEF TellClient
  <2>2. ClientView'
    BY <1>n, <2>1, KnownStays DEF ClientView
  <2>3. AllTruthful(trip', toC')
    BY <1>n, <2>1, TruthStays, TruthfulWrite DEF ClientQueue
  <2>4. InTripOrder(toC') /\ NoneBefore(cl.id, toC')
    <3>1. NoneAfter(m.id, toC) /\ cl.id <= m.id
      BY <1>n, TruthfulNoneAfter DEF ClientQueue, ClientView
    <3>2. QED
      BY <1>n, <2>1, <3>1, OrderWrite DEF ClientQueue
  <2>5. QED
    BY <1>2, <2>1, <2>2, <2>3, <2>4 DEF ClientQueue
<1>3. CASE ~cl.open
  BY <1>3, ClientStays DEF TellClient
<1>4. QED
  BY <1>2, <1>3

\* The server's steps leave the client's screen and queue backed.
LEMMA ServerKeepsClient ==
    ASSUME TypeInv, ViewInv, ServerStep
    PROVE  ClientView' /\ ClientQueue'
<1>t. TripMoves
  BY ServerTripMoves
<1>i. trip.id \in Ids /\ trip.id \in Nat /\ trip \in [id : Ids, status : Statuses]
  BY SystemBounds DEF TypeInv, Ids
<1>v. ClientView /\ ClientQueue /\ TripHasId
  BY DEF ViewInv
<1>s. UNCHANGED <<cl, toC>> => ClientView' /\ ClientQueue'
  BY <1>t, <1>v, ClientStays
<1>1. CASE ServerReadsProvider
  <2> DEFINE m == Head(fromP)
  <2>1. m \in Messages
    BY <1>1, QueueRead DEF TypeInv, ServerReadsProvider
  <2>2. CASE UNCHANGED <<cl, toC>>
    BY <1>s, <2>2
  <2>3. CASE /\ m.type \in {"trip_accepted", "trip_cancelled", "reached"}
             /\ m.id = trip.id /\ trip'.id = trip.id
             /\ trip'.status \in {"accepted", "cancelled"}
             /\ trip.status # "none" /\ TellClient(m.type, m.id)
    <3>1. Truthful(trip', m)
      BY <1>i, <1>v, <2>3 DEF Truthful, Known, TripHasId
    <3>2. QED
      BY <1>t, <1>v, <2>1, <2>3, <3>1, TellKeepsClient
  <2>4. QED
    BY <1>1, <1>i, <2>2, <2>3 DEF ServerReadsProvider
<1>2. CASE ServerReadsClient
  BY <1>2, <1>s DEF ServerReadsClient
<1>3. CASE ServerTakesStartEnd
  <2> DEFINE to == IF pv.rest = "starting" THEN "started" ELSE "ended"
             told == IF to = "started" THEN "Trip_Started" ELSE "Trip_Ended"
             m == Message(told, trip.id)
  <2>1. m \in Messages /\ m.type = told /\ m.id = trip.id
    BY <1>i DEF Message, Messages
  <2>2. CASE UNCHANGED <<cl, toC>>
    BY <1>s, <2>2
  <2>3. CASE TellClient(told, trip.id)
    <3>1. /\ trip'.id = trip.id /\ trip'.status = to
          /\ trip.status # "none"
      BY <1>3, <1>i DEF ServerTakesStartEnd
    <3>2. Truthful(trip', m)
      BY <1>i, <1>v, <2>1, <3>1 DEF Truthful, Known, Begun, Over, TripHasId
    <3> HIDE DEF m
    <3>3. QED
      BY <1>t, <1>v, <2>1, <2>3, <3>1, <3>2, TellKeepsClient
  <2>4. QED
    BY <1>3, <2>2, <2>3 DEF ServerTakesStartEnd
<1>4. QED
  BY <1>1, <1>2, <1>3 DEF ServerStep

\* A truthful message to the provider leaves its screen and queue backed.
LEMMA TellKeepsProvider ==
    ASSUME TypeInv, ProviderQueue, ProviderView, RunningTripIsDeaf,
           TripMoves, trip'.id = trip.id,
           NEW m \in Messages, m.id = trip.id, Truthful(trip', m),
           TellProvider(m.type, m.id),
           \/ fromP' = fromP
           \/ fromP # <<>> /\ fromP' = Tail(fromP)
    PROVE  ProviderView' /\ ProviderQueue' /\ RunningTripIsDeaf'
<1>n. /\ pv.id \in Nat /\ trip.id \in Nat
      /\ toP \in Seq(Messages) /\ fromP \in Seq(Messages)
  BY SystemBounds DEF TypeInv, Ids, ProviderType, Queue
<1>1. Message(m.type, m.id) = m
  BY DEF Message, Messages
<1>2. /\ pv'.id = pv.id /\ pv'.stage = pv.stage /\ pv'.slot = pv.slot
      /\ pv'.socket = pv.socket /\ pv'.rest = pv.rest
  BY DEF TellProvider, TypeInv, ProviderType
<1>3. \/ toP' = toP
      \/ pv.socket = "open" /\ toP' = Append(toP, m)
  BY <1>1 DEF TellProvider
<1>4. ProviderView'
  BY <1>n, <1>2, KnownStays DEF ProviderView
<1>5. ProviderQueue'
  <2>1. NoneAfter(trip'.id, fromP')
    BY <1>n, ReadOthers DEF ProviderQueue
  <2>2. AllTruthful(trip', toP')
    BY <1>n, <1>3, TruthStays, TruthfulWrite DEF ProviderQueue
  <2>3. QED
    BY <1>2, <1>3, <2>1, <2>2 DEF ProviderQueue
<1>6. RunningTripIsDeaf'
  BY <1>2 DEF RunningTripIsDeaf
<1>7. QED
  BY <1>4, <1>5, <1>6

\* The server's steps leave the provider's screen and queue backed.
LEMMA ServerKeepsProvider ==
    ASSUME TypeInv, ViewInv, ServerStep
    PROVE  ProviderView' /\ ProviderQueue' /\ RunningTripIsDeaf'
<1>t. TripMoves
  BY ServerTripMoves
<1>i. /\ trip.id \in Ids /\ trip.id \in Nat
      /\ trip \in [id : Ids, status : Statuses] /\ pv.id \in Nat
      /\ fromP \in Seq(Messages) /\ toP \in Seq(Messages)
  BY SystemBounds DEF TypeInv, Ids, ProviderType, Queue
<1>v. /\ ProviderView /\ ProviderQueue /\ RunningTripIsDeaf /\ TripHasId
  BY DEF ViewInv
<1>s. UNCHANGED <<pv, toP, fromP>> =>
          ProviderView' /\ ProviderQueue' /\ RunningTripIsDeaf'
  BY <1>t, <1>v, ProviderStays
<1>1. CASE ServerReadsProvider
  <2> DEFINE m == Head(fromP)
  <2>1. m \in Messages /\ fromP # <<>> /\ fromP' = Tail(fromP)
    BY <1>1, QueueRead DEF TypeInv, ServerReadsProvider
  <2>2. CASE UNCHANGED <<pv, toP>>
    <3>1. ProviderView'
      <4>1. pv.id <= trip'.id
        <5>1. trip.id <= trip'.id /\ trip'.id \in Nat
          BY <1>1, <1>i, <1>t, KnownStays DEF ServerReadsProvider
        <5>2. QED
          BY <1>i, <1>v, <5>1 DEF ProviderView
      <4>2. QED
        BY <1>i, <1>t, <1>v, <2>2, <4>1, KnownStays DEF ProviderView
    <3>2. NoneAfter(trip'.id, fromP) /\ NoneAfter(trip'.id, fromP')
      BY <1>i, <1>t, <1>v, <2>1, TruthStays, ReadOthers DEF ProviderQueue
    <3>3. ProviderQueue'
      BY <1>i, <1>t, <1>v, <2>2, <3>2, TruthStays DEF ProviderQueue
    <3>4. RunningTripIsDeaf'
      BY <1>v, <2>2 DEF RunningTripIsDeaf
    <3>5. QED
      BY <3>1, <3>3, <3>4
  <2>3. CASE /\ m.type = "trip_accepted" /\ m.id = trip.id
             /\ trip.status = "requested" /\ trip'.id = trip.id
             /\ trip'.status = "accepted" /\ TellProvider(m.type, m.id)
    <3>1. Truthful(trip', m)
      BY <1>i, <1>v, <2>3 DEF Truthful, Known, TripHasId
    <3>3. QED
      BY <1>t, <1>v, <2>1, <2>3, <3>1, TellKeepsProvider
  <2>4. QED
    BY <1>1, <1>i, <2>2, <2>3 DEF ServerReadsProvider
<1>2. CASE ServerReadsClient
  <2> DEFINE m == Message("trip_cancelled", trip.id)
  <2>1. m \in Messages /\ m.type = "trip_cancelled" /\ m.id = trip.id
    BY <1>i DEF Message, Messages
  <2>2. CASE UNCHANGED <<trip, pv, toP>>
    BY <1>2, <1>s, <2>2 DEF ServerReadsClient
  <2>3. CASE TellProvider("trip_cancelled", trip.id) /\ trip.status = "accepted"
             /\ trip' = [trip EXCEPT !.status = "cancelled"]
    <3>1. trip'.id = trip.id /\ trip'.status = "cancelled"
      BY <1>i, <2>3
    <3>2. Truthful(trip', m)
      BY <1>i, <1>v, <2>1, <2>3, <3>1 DEF Truthful, Known, TripHasId
    <3>3. fromP' = fromP
      BY <1>2 DEF ServerReadsClient
    <3>4. TellProvider(m.type, m.id)
      BY <2>1, <2>3
    <3> HIDE DEF m
    <3>5. QED
      BY <1>t, <1>v, <2>1, <3>1, <3>2, <3>3, <3>4, TellKeepsProvider
  <2>4. QED
    BY <1>2, <1>i, <2>2, <2>3 DEF ServerReadsClient
<1>3. CASE ServerTakesStartEnd
  <2>1. /\ pv'.id = pv.id /\ pv'.stage = pv.stage /\ pv'.slot = pv.slot
        /\ pv'.socket = pv.socket /\ pv.id = trip.id
        /\ toP' = toP /\ fromP' = fromP
    BY <1>3 DEF ServerTakesStartEnd, TypeInv, ProviderType
  <2>2. /\ trip'.id = trip.id
        /\ \/ pv.rest = "starting" /\ pv'.rest = "started"
              /\ trip'.status = "started" /\ trip.status # "none"
           \/ pv.rest = "ending" /\ pv'.rest = "ended"
              /\ trip'.status = "ended" /\ trip.status # "none"
    BY <1>3, <1>i DEF ServerTakesStartEnd, TypeInv, ProviderType
  <2>3. ProviderView'
    <3>1. /\ pv'.rest = "started" => Begun(trip', pv.id)
          /\ pv'.rest = "ended" => Over(trip', pv.id)
      BY <1>i, <1>v, <2>1, <2>2 DEF Known, Begun, Over, TripHasId
    <3>2. QED
      BY <1>i, <1>t, <1>v, <2>1, <2>2, <3>1, KnownStays DEF ProviderView
  <2>4. ProviderQueue'
    BY <1>i, <1>t, <1>v, <2>1, TruthStays DEF ProviderQueue
  <2>5. RunningTripIsDeaf'
    BY <1>v, <2>1 DEF RunningTripIsDeaf
  <2>6. QED
    BY <2>3, <2>4, <2>5
<1>4. QED
  BY <1>1, <1>2, <1>3 DEF ServerStep

\* The step of whoever moves; the other phone stays.
LEMMA ViewStep ==
    ASSUME TypeInv, TypeInv', ViewInv, StartInv', Next
    PROVE  ViewInv'
<1>1. TripHasId'
  <2>1. TripMoves
    <3>1. ProviderStep => trip' = trip
      BY DEF ProviderStep, switchValueChanged, onProviderMessage, ringFinishes,
             cancelRequest, btnAcceptRequest, onConnect, providerOnMessage,
             directionsSucceed, directionsFail, providerCancelsTrip,
             textFieldEditingChanged, btnActionPressed, startEndAnswers,
             providerLeavesTrip, providerDisconnects, providerRelaunches,
             providerCheckIfTripExists
    <3>2. QED
      BY <3>1, ClientTripMoves, ServerTripMoves DEF Next, TripMoves
  <2>2. trip.id \in Nat
    BY SystemBounds DEF TypeInv, Ids
  <2>3. CASE trip' = [id |-> trip.id + 1, status |-> "requested"]
    BY <2>2, <2>3 DEF TripHasId
  <2>4. CASE trip'.id = trip.id /\ (trip' = trip \/ trip.status # "none")
    BY <2>4 DEF ViewInv, TripHasId
  <2>5. QED
    <3>1. \A e \in Life!Edges : e[1] # "none"
      BY DEF Life!Edges
    <3>2. QED
      BY <2>1, <2>3, <2>4, <3>1 DEF TripMoves, TypeInv
<1>2. CASE ClientStep
  <2>1. UNCHANGED <<pv, toP, fromP>>
    BY <1>2
    DEF ClientStep, postRequest, postRequestSucceeds, postRequestFails,
        overlayTimerFires, cancelRequestThroughWS, clientOnMessage,
        distanceMatrixSucceeds, distanceMatrixFails, clientCancelsTrip,
        clientLeavesTrip, clientDisconnects, clientRelaunches, clientLogsOut,
        lateListAnswers, clientCheckIfTripExists, netVars
  <2>2. QED
    BY <1>1, <1>2, <2>1, ClientKeepsView, ClientTripMoves, ProviderStays
    DEF ViewInv
<1>3. CASE ProviderStep
  <2>1. UNCHANGED <<trip, cl, toC>>
    BY <1>3
    DEF ProviderStep, switchValueChanged, onProviderMessage, ringFinishes,
        cancelRequest, btnAcceptRequest, onConnect, providerOnMessage,
        directionsSucceed, directionsFail, providerCancelsTrip,
        textFieldEditingChanged, btnActionPressed, startEndAnswers,
        providerLeavesTrip, providerDisconnects, providerRelaunches,
        providerCheckIfTripExists, netVars
  <2>2. QED
    BY <1>1, <1>3, <2>1, ProviderKeepsView, ClientStays DEF ViewInv, TripMoves
<1>4. CASE ServerStep
  BY <1>1, <1>4, ServerKeepsClient, ServerKeepsProvider DEF ViewInv
<1>5. QED
  BY <1>2, <1>3, <1>4 DEF Next

\* Before the first trip no screen and no queue claims anything.
LEMMA ViewInit == Init => ViewInv
<1> SUFFICES ASSUME Init PROVE ViewInv
  OBVIOUS
<1>1. StartInv
  BY DEF Init, StartInv, StartedTripWasShown, NewProvider
<1>2. ClientQueue /\ ClientView
  BY EmptyQueues DEF Init, ClientQueue, ClientView, NewClient
<1>3. ProviderQueue /\ ProviderView /\ RunningTripIsDeaf
  BY EmptyQueues
  DEF Init, ProviderQueue, ProviderView, RunningTripIsDeaf, NewProvider
<1>4. QED
  BY <1>1, <1>2, <1>3 DEF Init, ViewInv, TripHasId

\* Every screen that shows a stage of a trip, and every message in flight, is
\* backed by the server.
THEOREM ViewsAreBacked == Spec => [](TypeInv /\ ViewInv)
<1>1. TypeInv /\ ViewInv /\ [Next]_vars => (TypeInv /\ ViewInv)'
  <2>1. ASSUME TypeInv, ViewInv, Next PROVE (TypeInv /\ ViewInv)'
    BY <2>1, TypeStep, StartStep, ViewStep DEF ViewInv
  <2>2. ASSUME TypeInv, ViewInv, UNCHANGED vars PROVE (TypeInv /\ ViewInv)'
    <3>1. TypeInv' /\ StartInv'
      BY <2>2, TypeStep, StartStep DEF ViewInv
    <3>2. QED
      BY <2>2, <3>1
      DEF vars, netVars, ViewInv, TripHasId, ClientQueue, ClientView,
          ProviderQueue, ProviderView, RunningTripIsDeaf
  <2>3. QED
    BY <2>1, <2>2
<1>2. QED
  BY <1>1, TypeInit, ViewInit, PTL DEF Spec

-----------------------------------------------------------------------------
(***************************************************************************)
(* The two phones and the server implement TripLife.                       *)
(***************************************************************************)

\* The stage of a trip a phone shows, as the refinement mapping has it.
ClientShown ==
    IF cl.left THEN "accepted" ELSE
    CASE cl.stage = "sheet"   -> "accepted"
      [] cl.stage = "trip"    -> "reached"
      [] cl.stage = "running" -> IF cl.recovered THEN "reached" ELSE "started"
      [] cl.stage = "rating"  -> "ended"
      [] OTHER                -> "none"

ProviderShown ==
    CASE pv.stage = "sheet"   -> "accepted"
      [] pv.stage = "start"   -> "reached"
      [] pv.stage = "running" -> "started"
      [] pv.stage = "rating"  -> "ended"
      [] OTHER                -> "none"

Shown(stage, id) == [stage |-> stage, id |-> id]

\* The case distinctions, as facts.
ClientShownFacts ==
    /\ cl.left \/ cl.stage = "sheet" => ClientShown = "accepted"
    /\ ~cl.left =>
        /\ cl.stage = "trip" => ClientShown = "reached"
        /\ cl.stage = "running" /\ cl.recovered => ClientShown = "reached"
        /\ cl.stage = "running" /\ ~cl.recovered => ClientShown = "started"
        /\ cl.stage = "rating" => ClientShown = "ended"
        /\ cl.stage \notin {"sheet", "trip", "running", "rating"} =>
              ClientShown = "none"

ProviderShownFacts ==
    /\ pv.stage = "sheet" => ProviderShown = "accepted"
    /\ pv.stage = "start" => ProviderShown = "reached"
    /\ pv.stage = "running" => ProviderShown = "started"
    /\ pv.stage = "rating" => ProviderShown = "ended"
    /\ pv.stage \notin {"sheet", "start", "running", "rating"} =>
          ProviderShown = "none"

\* They hold in every state, so before and after a step.
LEMMA ShownIs == ClientShownFacts /\ ProviderShownFacts
BY DEF ClientShownFacts, ProviderShownFacts, ClientShown, ProviderShown

\* The stages the mapping shows, case by case, after a step.
LEMMA ShownIsNext == ClientShownFacts' /\ ProviderShownFacts'
BY DEF ClientShownFacts, ProviderShownFacts, ClientShown, ProviderShown

\* The stages of a trip in their order.
LEMMA Ranks ==
    /\ Life!Rank("accepted") = 2 /\ Life!Rank("reached") = 3
    /\ Life!Rank("started") = 4 /\ Life!Rank("ended") = 5
BY DEF Life!Rank, Life!Stages

\* What the server backs, TripLife backs.
LEMMA BackedView ==
    ASSUME TypeInv, NEW stage, NEW id \in Nat,
           stage = "none" \/ Known(trip, id),
           stage = "started" => Begun(trip, id),
           stage = "ended" => Over(trip, id)
    PROVE  Life!Backed(Shown(stage, id))
<1>1. trip.id \in Nat
  BY SystemBounds DEF TypeInv, Ids
<1>2. CASE stage = "started"
  BY <1>1, <1>2 DEF Life!Backed, Shown, Known, Begun
<1>3. CASE stage = "ended"
  BY <1>1, <1>3 DEF Life!Backed, Shown, Known, Over
<1>4. CASE stage \notin {"started", "ended"}
  BY <1>1, <1>4 DEF Life!Backed, Shown, Known
<1>5. QED
  BY <1>2, <1>3, <1>4

\* A phone that goes on, or back to its dashboard, or to another trip.
Onward(stage, id, stage2, id2) ==
    \/ stage2 = "none" \/ stage = "none" \/ id2 # id
    \/ stage = "accepted" /\ stage2 \in {"reached", "started", "ended"}
    \/ stage = "reached" /\ stage2 \in {"started", "ended"}
    \/ stage = "started" /\ stage2 = "ended"

\* A screen that goes on is a step forward of the abstract life.
LEMMA OnwardIsForward ==
    ASSUME NEW stage, NEW id, NEW stage2, NEW id2,
           Onward(stage, id, stage2, id2)
    PROVE  Life!Forward(Shown(stage, id), Shown(stage2, id2))
BY Ranks DEF Onward, Life!Forward, Shown

\* A change of one phone's screen is a step of TripLife.
LEMMA ClientShows ==
    ASSUME TypeInv, TypeInv', ClientView', UNCHANGED <<trip, pv>>,
           \/ ClientShown' = ClientShown /\ cl'.id = cl.id
           \/ Onward(ClientShown, cl.id, ClientShown', cl'.id)
    PROVE  [Life!Next]_(Life!vars)
<1>1. CASE ClientShown' = ClientShown /\ cl'.id = cl.id
  BY <1>1 DEF ClientShown, Life!vars
<1>2. CASE Onward(ClientShown, cl.id, ClientShown', cl'.id)
  <2>1. Life!Forward(Shown(ClientShown, cl.id), Shown(ClientShown', cl'.id))
    BY <1>2, OnwardIsForward
  <2>2. Life!Backed(Shown(ClientShown', cl'.id))
    <3>1. /\ cl'.id \in Nat
          /\ cl'.stage \in ClientStages
      BY SystemBounds DEF TypeInv, Ids, ClientType
    <3>2. /\ ClientShown' = "none" \/ Known(trip, cl'.id)
          /\ ClientShown' = "started" => Begun(trip, cl'.id)
          /\ ClientShown' = "ended" => Over(trip, cl'.id)
      BY <3>1, ShownIsNext DEF ClientShownFacts, ClientView
    <3>3. QED
      BY <3>1, <3>2, BackedView
  <2>3. Life!ShowClient
    BY <2>1, <2>2, Zenon DEF Life!ShowClient, Shown, ClientShown
  <2>4. QED
    BY <2>3 DEF Life!Next
<1>3. QED
  BY <1>1, <1>2

\* A step of the provider's screen alone is a step of the abstract life.
LEMMA ProviderShows ==
    ASSUME TypeInv, TypeInv', ProviderView', UNCHANGED <<trip, cl>>,
           \/ ProviderShown' = ProviderShown /\ pv'.id = pv.id
           \/ Onward(ProviderShown, pv.id, ProviderShown', pv'.id)
    PROVE  [Life!Next]_(Life!vars)
<1>1. CASE ProviderShown' = ProviderShown /\ pv'.id = pv.id
  BY <1>1 DEF ProviderShown, Life!vars
<1>2. CASE Onward(ProviderShown, pv.id, ProviderShown', pv'.id)
  <2>1. Life!Forward(Shown(ProviderShown, pv.id), Shown(ProviderShown', pv'.id))
    BY <1>2, OnwardIsForward
  <2>2. Life!Backed(Shown(ProviderShown', pv'.id))
    <3>1. /\ pv'.id \in Nat
          /\ pv'.stage \in ProviderStages
      BY SystemBounds DEF TypeInv, Ids, ProviderType
    <3>2. /\ ProviderShown' = "none" \/ Known(trip, pv'.id)
          /\ ProviderShown' = "started" => Begun(trip, pv'.id)
          /\ ProviderShown' = "ended" => Over(trip, pv'.id)
      BY <3>1, ShownIsNext DEF ProviderShownFacts, ProviderView
    <3>3. QED
      BY <3>1, <3>2, BackedView
  <2>3. Life!ShowProvider
    BY <2>1, <2>2, Zenon DEF Life!ShowProvider, Shown, ProviderShown
  <2>4. QED
    BY <2>3 DEF Life!Next
<1>3. QED
  BY <1>1, <1>2

\* A step of the server's trip, when no screen changes.
LEMMA TripAdvances ==
    ASSUME TripMoves, ClientShown' = ClientShown, cl'.id = cl.id,
           ProviderShown' = ProviderShown, pv'.id = pv.id
    PROVE  [Life!Next]_(Life!vars)
<1>1. CASE trip' = trip
  BY <1>1, Zenon DEF Life!vars, ClientShown, ProviderShown
<1>2. CASE trip' # trip
  <2>1. Life!Advance
    BY <1>2, Zenon DEF TripMoves, Life!Advance, ClientShown, ProviderShown
  <2>2. QED
    BY <2>1 DEF Life!Next
<1>3. QED
  BY <1>1, <1>2

\* What a client's phone shows after one of its own steps.
LEMMA ClientGoesOnward ==
    ASSUME TypeInv, TypeInv', ViewInv, ClientStep
    PROVE  \/ ClientShown' = ClientShown /\ cl'.id = cl.id
           \/ trip' = trip /\ Onward(ClientShown, cl.id, ClientShown', cl'.id)
<1> USE ShownIs, ShownIsNext
    DEF TypeInv, ClientType, ClientShownFacts, Onward
<1>1. CASE postRequest
  BY <1>1 DEF postRequest
<1>2. CASE postRequestSucceeds
  BY <1>2 DEF postRequestSucceeds
<1>3. CASE postRequestFails
  BY <1>3 DEF postRequestFails
<1>4. CASE overlayTimerFires \/ cancelRequestThroughWS
  BY <1>4 DEF overlayTimerFires, cancelRequestThroughWS
<1>5. CASE clientOnMessage
  <2>1. PICK over \in BOOLEAN : cl' = ClientHears(Head(toC), over)
    BY <1>5 DEF clientOnMessage
  <2>2. cl'.stage = cl.stage /\ cl'.recovered = cl.recovered
            /\ cl'.left = cl.left => ClientShown' = ClientShown
    BY DEF ClientShown
  <2>3. cl.left => cl.stage \in {"trip", "running", "rating"}
    BY DEF ViewInv, ClientView
  <2>4. trip' = trip
    BY <1>5 DEF clientOnMessage
  <2>5. QED
    BY <2>1, <2>2, <2>3, <2>4, ClientHeard
<1>6. CASE distanceMatrixSucceeds
  BY <1>6 DEF distanceMatrixSucceeds
<1>7. CASE distanceMatrixFails \/ clientLeavesTrip
  BY <1>7 DEF distanceMatrixFails, clientLeavesTrip
<1>8. ASSUME NEW stays \in BOOLEAN, clientCancelsTrip(stays)
      PROVE  \/ ClientShown' = ClientShown /\ cl'.id = cl.id
             \/ trip' = trip
                /\ Onward(ClientShown, cl.id, ClientShown', cl'.id)
  <2>1. /\ trip' = trip /\ cl'.id = cl.id
        /\ cl'.recovered = cl.recovered /\ ClientShown = "accepted"
        /\ cl.left => cl.stage \in {"trip", "running", "rating"}
        /\ cl'.stage = IF stays \/ cl.left THEN cl.stage ELSE "dashboard"
        /\ cl'.left = (cl.left /\ stays)
    BY <1>8 DEF clientCancelsTrip, ViewInv, ClientView
  <2>2. CASE stays
    <3>1. ClientShown' = "accepted"
      BY <1>8, <2>1, <2>2 DEF clientCancelsTrip
    <3>2. QED
      BY <2>1, <3>1
  <2>3. CASE ~stays
    <3>1. ~cl'.left
      BY <2>1, <2>3
    <3>2. ClientShown' \in {"none", "reached", "started", "ended"}
      BY <2>1, <2>3, <3>1
    <3>3. QED
      BY <2>1, <3>2
  <2>4. QED
    BY <2>2, <2>3
<1>9. CASE clientDisconnects
  BY <1>9 DEF clientDisconnects
<1>10. CASE clientRelaunches
  BY <1>10 DEF clientRelaunches, NewClient
<1>11. CASE clientLogsOut
  BY <1>11 DEF clientLogsOut, ViewInv, ClientView
<1>12. CASE lateListAnswers
  <2>1. /\ cl'.stage = cl.stage /\ cl'.recovered = cl.recovered
        /\ cl'.left = cl.left /\ cl'.id = cl.id
    BY <1>12, LateList
  <2>2. QED
    BY <2>1 DEF ClientShown
<1>13. CASE \E asks, opens \in BOOLEAN : clientCheckIfTripExists(asks, opens)
  <2>1. cl.stage = "launching" /\ ~cl.left /\ trip' = trip
    BY <1>13 DEF clientCheckIfTripExists, ViewInv, ClientView
  <2>2. ClientShown = "none"
    BY <2>1
  <2>3. QED
    BY <2>1, <2>2
<1>14. QED
  BY <1>1, <1>2, <1>3, <1>4, <1>5, <1>6, <1>7, <1>8, <1>9, <1>10, <1>11,
     <1>12, <1>13
  DEF ClientStep

\* What a provider's phone shows after one of its own steps.
LEMMA ProviderGoesOnward ==
    ASSUME TypeInv, TypeInv', ViewInv, ProviderStep
    PROVE  \/ ProviderShown' = ProviderShown /\ pv'.id = pv.id
           \/ Onward(ProviderShown, pv.id, ProviderShown', pv'.id)
<1> USE ShownIs, ShownIsNext
    DEF TypeInv, ProviderType, ProviderShownFacts, Onward
<1>1. CASE \/ switchValueChanged \/ onProviderMessage
           \/ ringFinishes \/ cancelRequest
  BY <1>1 DEF switchValueChanged, onProviderMessage, ringFinishes,
              cancelRequest
<1>2. CASE btnAcceptRequest \/ onConnect
  BY <1>2 DEF btnAcceptRequest, onConnect
<1>3. CASE providerOnMessage
  <2>1. PICK over \in BOOLEAN : pv' = ProviderHears(Head(toP), over)
    BY <1>3 DEF providerOnMessage
  <2>2. pv'.stage = pv.stage => ProviderShown' = ProviderShown
    BY DEF ProviderShown
  <2>3. QED
    BY <2>1, <2>2, ProviderHeard
<1>4. CASE directionsSucceed \/ directionsFail
  BY <1>4 DEF directionsSucceed, directionsFail
<1>5. CASE providerCancelsTrip \/ textFieldEditingChanged
  BY <1>5 DEF providerCancelsTrip, textFieldEditingChanged
<1>6. CASE btnActionPressed
  BY <1>6 DEF btnActionPressed
<1>7. CASE startEndAnswers
  BY <1>7 DEF startEndAnswers, ViewInv, ProviderView
<1>8. CASE providerLeavesTrip
  BY <1>8 DEF providerLeavesTrip
<1>9. CASE providerDisconnects
  BY <1>9 DEF providerDisconnects
<1>10. CASE providerRelaunches
  BY <1>10 DEF providerRelaunches, NewProvider
<1>11. CASE \E seen \in BOOLEAN : providerCheckIfTripExists(seen)
  BY <1>11 DEF providerCheckIfTripExists
<1>12. QED
  BY <1>1, <1>2, <1>3, <1>4, <1>5, <1>6, <1>7, <1>8, <1>9, <1>10, <1>11
  DEF ProviderStep

\* Each step is a step of TripLife or changes nothing it speaks of.
LEMMA LifeStep ==
    ASSUME TypeInv, TypeInv', ViewInv, ViewInv', Next
    PROVE  [Life!Next]_(Life!vars)
<1>1. CASE ClientStep
  <2>1. pv' = pv
    BY <1>1
    DEF ClientStep, postRequest, postRequestSucceeds, postRequestFails,
        overlayTimerFires, cancelRequestThroughWS, clientOnMessage,
        distanceMatrixSucceeds, distanceMatrixFails, clientCancelsTrip,
        clientLeavesTrip, clientDisconnects, clientRelaunches, clientLogsOut,
        lateListAnswers, clientCheckIfTripExists
  <2>2. ProviderShown' = ProviderShown
    BY <2>1 DEF ProviderShown
  <2>3. CASE ClientShown' = ClientShown /\ cl'.id = cl.id
    BY <1>1, <2>1, <2>2, <2>3, ClientTripMoves, TripAdvances
  <2>4. CASE trip' = trip /\ Onward(ClientShown, cl.id, ClientShown', cl'.id)
    BY <2>1, <2>4, ClientShows DEF ViewInv
  <2>5. QED
    BY <1>1, <2>3, <2>4, ClientGoesOnward
<1>2. CASE ProviderStep
  <2>1. UNCHANGED <<trip, cl>>
    BY <1>2
    DEF ProviderStep, switchValueChanged, onProviderMessage, ringFinishes,
        cancelRequest, btnAcceptRequest, onConnect, providerOnMessage,
        directionsSucceed, directionsFail, providerCancelsTrip,
        textFieldEditingChanged, btnActionPressed, startEndAnswers,
        providerLeavesTrip, providerDisconnects, providerRelaunches,
        providerCheckIfTripExists
  <2>2. QED
    BY <1>2, <2>1, ProviderGoesOnward, ProviderShows DEF ViewInv
<1>3. CASE ServerStep
  <2>1. /\ cl'.stage = cl.stage /\ cl'.id = cl.id
        /\ cl'.recovered = cl.recovered /\ cl'.left = cl.left
        /\ pv'.stage = pv.stage /\ pv'.id = pv.id
    <3> USE DEF TypeInv, ClientType, ProviderType, TellClient, TellProvider
    <3>1. CASE ServerReadsProvider
      BY <3>1 DEF ServerReadsProvider
    <3>2. CASE ServerReadsClient
      BY <3>2 DEF ServerReadsClient
    <3>3. CASE ServerTakesStartEnd
      BY <3>3 DEF ServerTakesStartEnd
    <3>4. QED
      BY <1>3, <3>1, <3>2, <3>3 DEF ServerStep
  <2>2. ClientShown' = ClientShown /\ ProviderShown' = ProviderShown
    BY <2>1 DEF ClientShown, ProviderShown
  <2>3. QED
    BY <1>3, <2>1, <2>2, ServerTripMoves, TripAdvances
<1>4. QED
  BY <1>1, <1>2, <1>3 DEF Next

\* The phones and the server, with every loss, retry, stale acceptance and
\* relaunch, implement the life of a trip: a phone shows only stages the
\* server has come to, and never goes back inside one trip.
THEOREM LifeRefinement == Spec => RefinesTripLife
<1>1. Init => Life!Init
  <2>1. Init => /\ ClientShown = "none" /\ ProviderShown = "none"
                /\ cl.id = 0 /\ pv.id = 0
    BY ShownIs
    DEF Init, NewClient, NewProvider, ClientShownFacts, ProviderShownFacts
  <2>2. QED
    BY <2>1, Zenon DEF Init, Life!Init, ClientShown, ProviderShown
<1>2. /\ TypeInv /\ ViewInv /\ (TypeInv /\ ViewInv)' /\ [Next]_vars
      => [Life!Next]_(Life!vars)
  <2>1. UNCHANGED vars => UNCHANGED Life!vars
    BY DEF vars, Life!vars
  <2>2. QED
    BY <2>1, LifeStep
<1>3. QED
  BY <1>1, <1>2, ViewsAreBacked, PTL DEF Spec, RefinesTripLife, Life!Spec

-----------------------------------------------------------------------------
(***************************************************************************)
(* A phone without a lapse is in step once nothing is on its way.          *)
(* The last message queued for the client tells the trip as it is now; a   *)
(* trip a phone is engaged in is still open, or the message that closes it *)
(* is queued; and a phone's own cancellation is on its way only while that *)
(* phone is off the trip.                                                  *)
(***************************************************************************)
Closers == {"trip_cancelled", "Trip_Ended"}

\* A queue has a message of one of these types about trip id.
Tells(net, id, types) ==
    \E i \in 1 .. Len(net) : net[i].id = id /\ net[i].type \in types

\* Every acceptance queued is of an open trip, or is followed by a message
\* that closes its trip.
AcceptancesEnd(open, types, net) ==
    \A i \in 1 .. Len(net) : net[i].type = "trip_accepted" =>
        \/ net[i].id \in open
        \/ \E j \in i + 1 .. Len(net) :
              net[j].id = net[i].id /\ net[j].type \in types

\* No trip is accepted twice in a queue.
AcceptedOnce(net) ==
    \A i \in 1 .. Len(net) : \A j \in i + 1 .. Len(net) :
        net[i].type = "trip_accepted" /\ net[j].type = "trip_accepted" =>
            net[i].id # net[j].id

\* m tells what the server has now.
Current(t, r, m) ==
    /\ m.id = t.id
    /\ m.type = "trip_accepted" => t.status = "accepted" /\ ~r
    /\ m.type = "reached" => t.status = "accepted" /\ r
    /\ m.type = "Trip_Started" => t.status = "started"

LastIsCurrent(t, r, net) ==
    net # <<>> => \/ Current(t, r, net[Len(net)])
                  \/ net[Len(net)].type \in Closers

\* Trips that are open for the client, and for the provider's sheet.
ClientOpen(t)   == {id \in {t.id} : t.status \in {"accepted", "started"}}
ProviderOpen(t) == {id \in {t.id} : t.status = "accepted"}

ClientSlots ==
    /\ cl.stage = "matching" => cl.slot \in {"dash", "oldDash"}
    /\ cl.stage = "sheet" => cl.slot \in {"sheet", "oldDash"}
    /\ cl.stage \in {"trip", "running", "rating"} =>
          cl.slot \in {"trip", "oldDash"}

ClientEngaged == cl.stage \in {"matching", "sheet", "trip", "running"}

\* The client's dashboard is on screen, and a dismissed sheet or an earlier
\* dashboard holds the slot.
ClientDeaf == /\ cl.slot \in {"sheet", "oldDash"}
              /\ cl.stage \in {"dashboard", "waiting"}

Cancelling == \E i \in 1 .. Len(fromC) : fromC[i].id = trip.id

ClientFollows ==
    /\ ~cl.left
    /\ ClientEngaged => cl.id \in ClientOpen(trip) \/ Tells(toC, cl.id, Closers)
    /\ cl.slot = "dash" => AcceptancesEnd(ClientOpen(trip), Closers, toC)
    /\ LastIsCurrent(trip, reached, toC) \/ ClientDeaf
    /\ toC = <<>> =>
          /\ cl.stage \in {"matching", "sheet"} =>
                trip.status = "accepted" /\ ~reached
          /\ cl.stage = "trip" => trip.status = "accepted" /\ reached
          /\ cl.stage = "running" /\ ~cl.recovered => trip.status = "started"
    /\ trip.status = "accepted" /\ Cancelling =>
          cl.stage = "launching" \/ ClientDeaf

ClientStepInv ==
    /\ ClientSlots /\ AllTruthful(trip, fromC)
    /\ trip.status = "requested" => ~reached
    /\ ~cl.lapse => ClientFollows

\* The cancellations a phone has written are of trips it knew.
CancelsKnown(t, net) ==
    \A i \in 1 .. Len(net) : net[i].type = "trip_cancelled" =>
        Known(t, net[i].id)

\* A queue is about one trip.
About(id, net) == \A i \in 1 .. Len(net) : net[i].id = id

\* The trip is accepted, or its acceptance is on its way to the server.
Accepting == \/ trip.status = "accepted"
             \/ Tells(fromP, trip.id, {"trip_accepted"})

ProviderEngaged == pv.stage \in {"routing", "sheet", "start"}

ProviderFollows ==
    /\ ProviderEngaged /\ pv.rest # "started" =>
          \/ pv.id \in ProviderOpen(trip)
          \/ Tells(toP, pv.id, {"trip_cancelled"})
    /\ ProviderEngaged => ~Tells(toP, pv.id, {"trip_accepted"})
    /\ AcceptancesEnd(ProviderOpen(trip), {"trip_cancelled"}, toP)
    /\ AcceptedOnce(toP)
    /\ pv.stage = "running" /\ pv.rest # "ended" =>
          pv.id = trip.id /\ trip.status = "started"
    /\ trip.status = "accepted" /\ Tells(fromP, trip.id, {"trip_cancelled"}) =>
          ~ProviderEngaged /\ ~Tells(toP, trip.id, {"trip_accepted"})

ProviderStepInv ==
    /\ pv.stage \in {"routing", "offered"} => pv.slot = "dash"
    /\ CancelsKnown(trip, fromP)
    /\ Accepting => About(trip.id, toP)
    /\ pv.rest = "started" => pv.id = trip.id /\ trip.status = "started"
    /\ ~pv.lapse => ProviderFollows

\* A queue that is read.
LEMMA TellsRead ==
    ASSUME NEW net \in Seq(Messages), net # <<>>, NEW id, NEW types
    PROVE  /\ Tells(Tail(net), id, types) => Tells(net, id, types)
           /\ Tells(net, id, types) =>
                 \/ Head(net).id = id /\ Head(net).type \in types
                 \/ Tells(Tail(net), id, types)
<1> USE TailIndices, MessageTypes
<1>1. Tells(Tail(net), id, types) => Tells(net, id, types)
  BY DEF Tells
<1>2. ASSUME Tells(net, id, types),
             ~(Head(net).id = id /\ Head(net).type \in types)
      PROVE  Tells(Tail(net), id, types)
  <2>1. PICK i \in 1 .. Len(net) : net[i].id = id /\ net[i].type \in types
    BY <1>2 DEF Tells
  <2>2. i # 1
    BY <1>2, <2>1
  <2>3. i - 1 \in 1 .. Len(Tail(net)) /\ Tail(net)[i - 1] = net[i]
    <3>1. i - 1 \in 1 .. Len(Tail(net))
      BY <2>2
    <3>2. (i - 1) + 1 = i
      OBVIOUS
    <3>3. QED
      BY <3>1, <3>2
  <2>4. QED
    BY <2>1, <2>3 DEF Tells
<1>3. QED
  BY <1>1, <1>2

\* A queue that is written to.
LEMMA TellsWrite ==
    ASSUME NEW net \in Seq(Messages), NEW m \in Messages, NEW id, NEW types
    PROVE  /\ Tells(net, id, types) => Tells(Append(net, m), id, types)
           /\ m.id = id /\ m.type \in types => Tells(Append(net, m), id, types)
           /\ Tells(Append(net, m), id, types) =>
                 \/ Tells(net, id, types)
                 \/ m.id = id /\ m.type \in types
<1> USE AppendIndices, MessageTypes
<1>1. /\ Tells(net, id, types) => Tells(Append(net, m), id, types)
      /\ m.id = id /\ m.type \in types => Tells(Append(net, m), id, types)
  <2>1. Len(net) + 1 \in 1 .. Len(Append(net, m))
    OBVIOUS
  <2>2. \A i \in 1 .. Len(net) : i \in 1 .. Len(Append(net, m))
    OBVIOUS
  <2>3. QED
    BY <2>1, <2>2 DEF Tells
<1>2. Tells(Append(net, m), id, types) =>
          \/ Tells(net, id, types)
          \/ m.id = id /\ m.type \in types
  BY AppendCases DEF Tells
<1>3. QED
  BY <1>1, <1>2

\* An empty queue.
LEMMA NothingTold ==
    /\ \A id, types : ~Tells(<<>>, id, types)
    /\ \A open, types : AcceptancesEnd(open, types, <<>>)
    /\ AcceptedOnce(<<>>)
    /\ \A t, r : LastIsCurrent(t, r, <<>>)
    /\ \A id : About(id, <<>>)
    /\ \A t : CancelsKnown(t, <<>>)
BY DEF Tells, AcceptancesEnd, AcceptedOnce, LastIsCurrent, About, CancelsKnown

\* The acceptances of a queue that is read: the one that is heard is of an
\* open trip, or its end is queued.
LEMMA AcceptancesRead ==
    ASSUME NEW net \in Seq(Messages), net # <<>>, NEW open, NEW types,
           AcceptancesEnd(open, types, net)
    PROVE  /\ AcceptancesEnd(open, types, Tail(net))
           /\ Head(net).type = "trip_accepted" =>
                 \/ Head(net).id \in open
                 \/ Tells(Tail(net), Head(net).id, types)
<1> USE TailIndices, MessageTypes
<1>1. ASSUME NEW i \in 1 .. Len(net), NEW j \in i + 1 .. Len(net)
      PROVE  j - 1 \in i .. Len(Tail(net)) /\ Tail(net)[j - 1] = net[j]
  <2>1. j - 1 \in 1 .. Len(Tail(net)) /\ j - 1 \in i .. Len(Tail(net))
    OBVIOUS
  <2>2. (j - 1) + 1 = j
    OBVIOUS
  <2>3. QED
    BY <2>1, <2>2
<1>2. AcceptancesEnd(open, types, Tail(net))
  <2>1. SUFFICES ASSUME NEW i \in 1 .. Len(Tail(net)),
                        Tail(net)[i].type = "trip_accepted",
                        Tail(net)[i].id \notin open
                 PROVE  \E j \in i + 1 .. Len(Tail(net)) :
                           /\ Tail(net)[j].id = Tail(net)[i].id
                           /\ Tail(net)[j].type \in types
    BY DEF AcceptancesEnd
  <2>2. i + 1 \in 1 .. Len(net) /\ Tail(net)[i] = net[i + 1]
    OBVIOUS
  <2>3. PICK j \in (i + 1) + 1 .. Len(net) :
            net[j].id = net[i + 1].id /\ net[j].type \in types
    BY <2>1, <2>2 DEF AcceptancesEnd
  <2>4. j - 1 \in i + 1 .. Len(Tail(net)) /\ Tail(net)[j - 1] = net[j]
    BY <1>1, <2>2, <2>3
  <2>5. QED
    BY <2>2, <2>3, <2>4
<1>3. ASSUME Head(net).type = "trip_accepted", Head(net).id \notin open
      PROVE  Tells(Tail(net), Head(net).id, types)
  <2>1. PICK j \in 1 + 1 .. Len(net) :
            net[j].id = net[1].id /\ net[j].type \in types
    BY <1>3 DEF AcceptancesEnd
  <2>2. j - 1 \in 1 .. Len(Tail(net)) /\ Tail(net)[j - 1] = net[j]
    BY <1>1, <2>1
  <2>3. QED
    BY <2>1, <2>2 DEF Tells
<1>4. QED
  BY <1>2, <1>3

\* A queue that is written to: the new message may close trips, an acceptance
\* is of an open one.
LEMMA AcceptancesWrite ==
    ASSUME NEW net \in Seq(Messages), NEW m \in Messages, NEW types,
           NEW open, NEW open2, AcceptancesEnd(open, types, net),
           \A id \in open : id \in open2 \/ (m.id = id /\ m.type \in types),
           m.type = "trip_accepted" => m.id \in open2
    PROVE  AcceptancesEnd(open2, types, Append(net, m))
<1> DEFINE new == Append(net, m)
<1>1. /\ Len(new) = Len(net) + 1 /\ new[Len(net) + 1] = m
      /\ \A i \in 1 .. Len(net) : new[i] = net[i]
      /\ Len(net) \in Nat
  BY AppendIndices, MessageTypes
<1>2. \A i \in 1 .. Len(new) : i \in 1 .. Len(net) \/ i = Len(net) + 1
  BY <1>1
<1> HIDE DEF new
<1>3. SUFFICES ASSUME NEW i \in 1 .. Len(new), new[i].type = "trip_accepted",
                      new[i].id \notin open2
               PROVE  \E j \in i + 1 .. Len(new) :
                         new[j].id = new[i].id /\ new[j].type \in types
  BY DEF AcceptancesEnd, new
<1>4. i \in 1 .. Len(net) /\ new[i] = net[i]
  BY <1>1, <1>2, <1>3
<1>5. CASE net[i].id \in open
  <2>1. m.id = net[i].id /\ m.type \in types
    BY <1>3, <1>4, <1>5
  <2>2. Len(net) + 1 \in i + 1 .. Len(new)
    BY <1>1, <1>4
  <2>3. QED
    BY <1>1, <1>4, <2>1, <2>2
<1>6. CASE net[i].id \notin open
  <2>1. PICK j \in i + 1 .. Len(net) :
            net[j].id = net[i].id /\ net[j].type \in types
    BY <1>3, <1>4, <1>6 DEF AcceptancesEnd
  <2>2. j \in i + 1 .. Len(new) /\ new[j] = net[j]
    BY <1>1, <1>4
  <2>3. QED
    BY <1>4, <2>1, <2>2
<1>7. QED
  BY <1>5, <1>6

\* A trip that closes while no acceptance of it is queued.
LEMMA AcceptancesStay ==
    ASSUME NEW net, NEW types, NEW open, NEW open2,
           AcceptancesEnd(open, types, net),
           \A id \in open : id \in open2 \/ ~Tells(net, id, {"trip_accepted"})
    PROVE  AcceptancesEnd(open2, types, net)
BY DEF AcceptancesEnd, Tells

\* Reading leaves the last message the last; the one that empties the queue
\* was the last itself.
LEMMA LastRead ==
    ASSUME NEW net \in Seq(Messages), net # <<>>, NEW t, NEW r,
           LastIsCurrent(t, r, net)
    PROVE  /\ LastIsCurrent(t, r, Tail(net))
           /\ Tail(net) = <<>> =>
                 Current(t, r, Head(net)) \/ Head(net).type \in Closers
<1> USE TailIndices, MessageTypes
<1>0. Len(net) \in Nat /\ Len(Tail(net)) = Len(net) - 1
  OBVIOUS
<1>1. CASE Tail(net) = <<>>
  <2>0. Len(Tail(net)) = 0
    BY <1>1
  <2>1. Len(net) = 1
    BY <1>0, <2>0
  <2>2. QED
    BY <1>1, <2>1 DEF LastIsCurrent
<1>2. CASE Tail(net) # <<>>
  <2>0. Len(Tail(net)) # 0 /\ Len(Tail(net)) \in Nat
    BY <1>2, EmptySeq, LenProperties
  <2>1. /\ Len(Tail(net)) \in 1 .. Len(Tail(net))
        /\ Len(Tail(net)) + 1 = Len(net)
    BY <1>0, <2>0
  <2>2. Tail(net)[Len(Tail(net))] = net[Len(net)]
    BY <2>1
  <2>3. QED
    BY <1>2, <2>2 DEF LastIsCurrent
<1>3. QED
  BY <1>1, <1>2

\* A message that tells the current stage, or closes the screen, is the last.
LEMMA LastWrite ==
    ASSUME NEW net \in Seq(Messages), NEW m \in Messages, NEW t, NEW r,
           Current(t, r, m) \/ m.type \in Closers
    PROVE  LastIsCurrent(t, r, Append(net, m)) /\ Append(net, m) # <<>>
<1>1. Len(Append(net, m)) = Len(net) + 1 /\ Append(net, m)[Len(net) + 1] = m
      /\ Len(net) \in Nat
  BY AppendIndices, MessageTypes
<1>2. Append(net, m) # <<>>
  BY <1>1
<1>3. QED
  BY <1>1, <1>2 DEF LastIsCurrent

\* An acceptance that is read does not come a second time.
LEMMA OnceRead ==
    ASSUME NEW net \in Seq(Messages), net # <<>>, AcceptedOnce(net)
    PROVE  /\ AcceptedOnce(Tail(net))
           /\ Head(net).type = "trip_accepted" =>
                 ~Tells(Tail(net), Head(net).id, {"trip_accepted"})
<1> USE TailIndices, MessageTypes
<1>1. ASSUME NEW i \in 1 .. Len(Tail(net)), NEW j \in i + 1 .. Len(Tail(net)),
             Tail(net)[i].type = "trip_accepted",
             Tail(net)[j].type = "trip_accepted"
      PROVE  Tail(net)[i].id # Tail(net)[j].id
  <2>1. /\ i + 1 \in 1 .. Len(net) /\ Tail(net)[i] = net[i + 1]
        /\ j \in 1 .. Len(Tail(net)) /\ Tail(net)[j] = net[j + 1]
    OBVIOUS
  <2>2. j + 1 \in (i + 1) + 1 .. Len(net)
    OBVIOUS
  <2>3. QED
    BY <1>1, <2>1, <2>2 DEF AcceptedOnce
<1>2. ASSUME NEW j \in 1 .. Len(Tail(net)), Head(net).type = "trip_accepted",
             Tail(net)[j].type = "trip_accepted"
      PROVE  Tail(net)[j].id # Head(net).id
  <2>1. j + 1 \in 1 + 1 .. Len(net) /\ Tail(net)[j] = net[j + 1]
    OBVIOUS
  <2>2. QED
    BY <1>2, <2>1 DEF AcceptedOnce
<1>3. QED
  BY <1>1, <1>2 DEF AcceptedOnce, Tells

\* A first acceptance joins a queue that has none of that trip.
LEMMA OnceWrite ==
    ASSUME NEW net \in Seq(Messages), NEW m \in Messages, AcceptedOnce(net),
           m.type = "trip_accepted" => ~Tells(net, m.id, {"trip_accepted"})
    PROVE  AcceptedOnce(Append(net, m))
<1> DEFINE new == Append(net, m)
<1>1. /\ Len(new) = Len(net) + 1 /\ new[Len(net) + 1] = m
      /\ \A i \in 1 .. Len(net) : new[i] = net[i]
      /\ Len(net) \in Nat
  BY AppendIndices, MessageTypes
<1> HIDE DEF new
<1>2. SUFFICES ASSUME NEW i \in 1 .. Len(new), NEW j \in i + 1 .. Len(new),
                      new[i].type = "trip_accepted",
                      new[j].type = "trip_accepted"
               PROVE  new[i].id # new[j].id
  BY DEF AcceptedOnce, new
<1>3. i \in 1 .. Len(net)
  BY <1>1
<1>4. CASE j \in 1 .. Len(net)
  <2>1. j \in i + 1 .. Len(net)
    BY <1>2, <1>4
  <2>2. QED
    BY <1>1, <1>2, <1>3, <1>4, <2>1 DEF AcceptedOnce
<1>5. CASE j = Len(net) + 1
  BY <1>1, <1>2, <1>3, <1>5 DEF Tells
<1>6. QED
  BY <1>1, <1>2, <1>3, <1>4, <1>5

\* The remaining facts about queues, read and written.
LEMMA OthersRead ==
    ASSUME NEW net \in Seq(Messages), net # <<>>, NEW t, NEW id
    PROVE  /\ About(id, net) => About(id, Tail(net)) /\ Head(net).id = id
           /\ CancelsKnown(t, net) =>
                 /\ CancelsKnown(t, Tail(net))
                 /\ Head(net).type = "trip_cancelled" => Known(t, Head(net).id)
BY TailIndices DEF About, CancelsKnown

\* What a queue says of trips and known cancellations, one message later.
LEMMA OthersWrite ==
    ASSUME NEW net \in Seq(Messages), NEW m \in Messages, NEW t
    PROVE  /\ About(m.id, net) => About(m.id, Append(net, m))
           /\ CancelsKnown(t, net)
              /\ (m.type = "trip_cancelled" => Known(t, m.id)) =>
                 CancelsKnown(t, Append(net, m))
BY AppendCases DEF About, CancelsKnown

\* A cancellation that was known stays known.
LEMMA CancelsStay ==
    ASSUME TypeInv, TripMoves, NEW net \in Seq(Messages),
           CancelsKnown(trip, net)
    PROVE  CancelsKnown(trip', net)
BY MessageTypes, KnownStays DEF CancelsKnown

\* The trips a phone may have open, spelled out.
LEMMA OpenIs ==
    ASSUME NEW t, NEW id
    PROVE  /\ id \in ClientOpen(t) <=>
                 id = t.id /\ t.status \in {"accepted", "started"}
           /\ id \in ProviderOpen(t) <=> id = t.id /\ t.status = "accepted"
BY DEF ClientOpen, ProviderOpen

\* When no trip is open for the client, the last message closes one; so it
\* does not matter to the queue what the server has instead.
LEMMA ClosedTripIsTold ==
    ASSUME NEW t, NEW r, NEW net \in Seq(Messages), LastIsCurrent(t, r, net),
           t.status \notin {"accepted", "started"}
    PROVE  \A t2, r2 : LastIsCurrent(t2, r2, net)
<1>1. CASE net = <<>>
  BY <1>1, NothingTold
<1>2. CASE net # <<>>
  <2>1. Len(net) \in 1 .. Len(net)
    <3>1. Len(net) # 0 /\ Len(net) \in Nat
      BY <1>2, EmptySeq, LenProperties
    <3>2. QED
      BY <3>1
  <2>2. net[Len(net)] \in Messages
    BY <2>1, MessageTypes
  <2>3. net[Len(net)].type \in Closers
    BY <1>2, <2>2 DEF LastIsCurrent, Current, Messages, Closers
  <2>4. QED
    BY <2>3 DEF LastIsCurrent
<1>3. QED
  BY <1>1, <1>2

\* A trip that is remembered, field by field.
LEMMA RecoveredIs ==
    ASSUME TypeInv, NEW id \in Ids, NEW begun \in BOOLEAN,
           NEW opens \in BOOLEAN, NEW lag \in BOOLEAN, NEW next,
           next = Recovered(id, begun, opens, lag)
    PROVE  /\ next.id = id /\ next.recovered /\ next.left = cl.left
           /\ begun => next.stage = "running" /\ next.slot = "trip"
           /\ ~begun /\ opens => next.stage = "sheet" /\ next.slot = "sheet"
           /\ ~begun /\ ~opens =>
                 next.stage = "dashboard" /\ next.slot = "dash" /\ next.lapse
<1>1. cl \in ClientType
  BY DEF TypeInv
<1>2. CASE begun
  BY <1>1, <1>2 DEF Recovered, ClientType
<1>3. CASE ~begun /\ opens
  BY <1>1, <1>3 DEF Recovered, ClientType
<1>4. CASE ~begun /\ ~opens
  BY <1>1, <1>4 DEF Recovered, ClientType
<1>5. QED
  BY <1>2, <1>3, <1>4

\* The steps of the client's phone but for the message it reads.
LEMMA ClientOwnStep ==
    ASSUME TypeInv, TypeInv', ViewInv, ClientStepInv, ClientStep,
           ~clientOnMessage
    PROVE  ClientStepInv'
<1>t. TripMoves
  BY ClientTripMoves
<1>n. /\ cl.id \in Nat /\ trip.id \in Nat /\ trip'.id \in Nat
      /\ toC \in Seq(Messages) /\ fromC \in Seq(Messages)
  BY SystemBounds DEF TypeInv, Ids, ClientType, Queue
<1>q. AllTruthful(trip, fromC) /\ AllTruthful(trip', fromC)
  BY <1>t, <1>n, TruthStays DEF ClientStepInv
<1>f. ~cl.lapse => ClientFollows
  BY DEF ClientStepInv
<1>s. ClientSlots /\ (trip.status = "requested" => ~reached)
  BY DEF ClientStepInv
\* A request is taken, or withdrawn, while no trip is open for the client.
<1>c. ASSUME trip.status \notin {"accepted", "started"},
             trip'.status \notin {"accepted", "started"},
             UNCHANGED <<toC, fromC>>,
             ~cl.lapse, cl'.slot = cl.slot, cl'.left = cl.left,
             cl.stage \in {"dashboard", "waiting"},
             cl'.stage \in {"dashboard", "waiting"}
      PROVE  ClientFollows'
  <2>1. \A id : id \notin ClientOpen(trip)
    BY <1>c, OpenIs
  <2>2. cl.slot = "dash" => AcceptancesEnd(ClientOpen(trip'), Closers, toC)
    BY <1>c, <1>f, <2>1, AcceptancesStay DEF ClientFollows
  <2>3. LastIsCurrent(trip', reached', toC) \/ ClientDeaf
    BY <1>c, <1>f, <1>n, ClosedTripIsTold DEF ClientFollows
  <2>4. ClientDeaf => ClientDeaf'
    BY <1>c DEF ClientDeaf
  <2>5. QED
    BY <1>c, <1>f, <2>2, <2>3, <2>4 DEF ClientFollows, ClientEngaged
<1>1. CASE postRequest
  <2>1. /\ cl'.stage = cl.stage /\ cl'.slot = cl.slot /\ cl'.lapse = cl.lapse
        /\ cl'.left = cl.left
        /\ cl.stage = "dashboard" /\ trip'.status = "requested"
        /\ trip.status \notin {"accepted", "started"}
        /\ UNCHANGED <<toC, fromC>>
    BY <1>1 DEF postRequest, netVars, TypeInv, ClientType
  <2>2. ~reached'
    BY <1>1 DEF postRequest
  <2>3. ~cl'.lapse => ClientFollows'
    BY <1>c, <2>1
  <2>4. QED
    BY <1>q, <1>s, <2>1, <2>2, <2>3 DEF ClientStepInv, ClientSlots
<1>2. CASE cancelRequestThroughWS
  <2>1. /\ cl'.stage = "dashboard" /\ cl'.slot = cl.slot
        /\ cl'.lapse = cl.lapse /\ cl.stage = "waiting"
        /\ cl'.left = cl.left /\ UNCHANGED <<toC, fromC, reached>>
        /\ \/ trip' = trip
           \/ trip.status = "requested" /\ trip'.status = "cancelled"
    BY <1>2 DEF cancelRequestThroughWS, netVars, TypeInv, ClientType
  <2>2. CASE trip' = trip
    BY <1>f, <1>q, <1>s, <2>1, <2>2
    DEF ClientStepInv, ClientSlots, ClientFollows, ClientEngaged, ClientDeaf,
        Cancelling
  <2>3. CASE trip.status = "requested" /\ trip'.status = "cancelled"
    <3>1. ~cl'.lapse => ClientFollows'
      BY <1>c, <2>1, <2>3
    <3>2. QED
      BY <1>q, <1>s, <2>1, <2>3, <3>1 DEF ClientStepInv, ClientSlots
  <2>4. QED
    BY <2>1, <2>2, <2>3
<1>3. CASE postRequestSucceeds \/ clientDisconnects
  <2>1. /\ cl'.id = cl.id /\ cl'.slot = cl.slot /\ cl'.recovered = cl.recovered
        /\ cl'.left = cl.left /\ toC' = <<>>
        /\ UNCHANGED <<trip, reached, fromC>>
        /\ \/ cl'.stage = cl.stage
           \/ cl.stage = "dashboard" /\ cl'.stage = "waiting"
    <3>1. CASE postRequestSucceeds
      BY <3>1 DEF postRequestSucceeds, TypeInv, ClientType
    <3>2. CASE clientDisconnects
      BY <3>2 DEF clientDisconnects, TypeInv, ClientType
    <3>3. QED
      BY <1>3, <3>1, <3>2
  <2>2. ~cl'.lapse => ~cl.lapse /\ toC = <<>>
    <3>1. CASE postRequestSucceeds
      BY <3>1 DEF postRequestSucceeds, TypeInv, ClientType
    <3>2. CASE clientDisconnects
      BY <3>2 DEF clientDisconnects, TypeInv, ClientType
    <3>3. QED
      BY <1>3, <3>1, <3>2
  <2>3. ~cl'.lapse => ClientFollows'
    BY <1>f, <2>1, <2>2
    DEF ClientFollows, ClientEngaged, ClientDeaf, Cancelling
  <2>4. QED
    BY <1>q, <1>s, <2>1, <2>3 DEF ClientStepInv, ClientSlots
<1>4. CASE postRequestFails \/ overlayTimerFires
  <2>1. /\ cl'.id = cl.id /\ cl'.slot = cl.slot /\ cl'.recovered = cl.recovered
        /\ cl'.left = cl.left /\ cl'.lapse = cl.lapse
        /\ UNCHANGED <<trip, reached, toC, fromC>>
        /\ \/ cl'.stage = cl.stage
           \/ cl.stage = "waiting" /\ cl'.stage = "dashboard"
    BY <1>4 DEF postRequestFails, overlayTimerFires, netVars, TypeInv,
                ClientType
  <2>2. ~cl'.lapse => ClientFollows'
    BY <1>f, <2>1 DEF ClientFollows, ClientEngaged, ClientDeaf, Cancelling
  <2>3. QED
    BY <1>q, <1>s, <2>1, <2>2 DEF ClientStepInv, ClientSlots
<1>5. CASE distanceMatrixSucceeds
  <2>1. /\ cl'.id = cl.id /\ cl'.slot = "sheet" /\ cl.stage = "matching"
        /\ cl'.stage = "sheet" /\ UNCHANGED <<trip, reached, toC, fromC>>
        /\ cl'.lapse = cl.lapse /\ cl'.left = cl.left
    BY <1>5 DEF distanceMatrixSucceeds, netVars, TypeInv, ClientType
  <2>2. ~cl'.lapse => ClientFollows'
    BY <1>f, <1>s, <2>1
    DEF ClientFollows, ClientEngaged, ClientDeaf, Cancelling, ClientSlots
  <2>3. QED
    BY <1>q, <1>s, <2>1, <2>2 DEF ClientStepInv, ClientSlots
<1>6. CASE distanceMatrixFails
  <2>1. cl'.lapse /\ cl'.stage = "dashboard" /\ UNCHANGED <<trip, reached, fromC>>
    BY <1>6 DEF distanceMatrixFails, netVars, TypeInv, ClientType
  <2>2. QED
    BY <1>q, <1>s, <2>1 DEF ClientStepInv, ClientSlots
<1>7. ASSUME NEW stays \in BOOLEAN, clientCancelsTrip(stays)
      PROVE  ClientStepInv'
  <2>1. /\ cl'.slot = cl.slot /\ (cl.stage = "sheet" \/ cl.left)
        /\ cl'.stage \in {cl.stage, "dashboard"}
        /\ UNCHANGED <<trip, reached, toC>>
    BY <1>7 DEF clientCancelsTrip, TypeInv, ClientType
  <2>2. ASSUME ~cl'.lapse
        PROVE  /\ ~cl.lapse /\ ~stays /\ ~cl.left /\ cl.stage = "sheet"
               /\ cl'.stage = "dashboard" /\ ~cl'.left
    <3>1. ~cl.lapse /\ ~stays
      BY <1>7, <2>2 DEF clientCancelsTrip, TypeInv, ClientType
    <3>2. ~cl.left
      BY <1>f, <3>1 DEF ClientFollows
    <3>3. QED
      BY <1>7, <2>1, <3>1, <3>2 DEF clientCancelsTrip, TypeInv, ClientType
  <2>3. ~cl'.lapse => ClientFollows'
    <3>1. ~cl'.lapse => ClientDeaf'
      BY <1>s, <2>1, <2>2 DEF ClientDeaf, ClientSlots
    <3>2. ~cl'.lapse => cl'.slot # "dash"
      BY <3>1 DEF ClientDeaf
    <3>3. QED
      BY <2>2, <3>1, <3>2 DEF ClientFollows, ClientEngaged
  <2>4. AllTruthful(trip, fromC')
    <3> DEFINE m == Message("trip_cancelled", cl.id)
    <3>1. m \in Messages /\ m.type = "trip_cancelled" /\ m.id = cl.id
      BY DEF Message, Messages, TypeInv, ClientType
    <3>2. Truthful(trip, m)
      BY <2>1, <3>1 DEF Truthful, ViewInv, ClientView
    <3>3. fromC' = fromC \/ fromC' = Append(fromC, m)
      BY <1>7 DEF clientCancelsTrip
    <3> HIDE DEF m
    <3>4. QED
      BY <1>n, <1>q, <3>1, <3>2, <3>3, TruthfulWrite
  <2>5. QED
    BY <1>s, <2>1, <2>3, <2>4 DEF ClientStepInv, ClientSlots
<1>8. CASE clientLeavesTrip
  <2>1. /\ cl'.stage = "dashboard" /\ cl'.slot = cl.slot
        /\ cl.stage \in {"trip", "running", "rating"} /\ ~cl'.left
        /\ UNCHANGED <<trip, reached, toC, fromC>> /\ cl'.lapse = cl.lapse
    BY <1>8 DEF clientLeavesTrip, netVars, TypeInv, ClientType
  <2>2. ~cl'.lapse => ClientFollows'
    BY <1>f, <1>s, <2>1
    DEF ClientFollows, ClientEngaged, ClientDeaf, Cancelling, ClientSlots
  <2>3. QED
    BY <1>q, <1>s, <2>1, <2>2 DEF ClientStepInv, ClientSlots
<1>9. CASE clientRelaunches
  <2>1. /\ cl'.stage = "launching" /\ cl'.slot = "dash" /\ toC' = <<>>
        /\ ~cl'.left /\ UNCHANGED <<trip, reached, fromC>>
    BY <1>9 DEF clientRelaunches, NewClient
  <2>2. ClientFollows'
    BY <2>1, NothingTold DEF ClientFollows, ClientEngaged
  <2>3. QED
    BY <1>q, <1>s, <2>1, <2>2 DEF ClientStepInv, ClientSlots
<1>10. ASSUME NEW asks \in BOOLEAN, NEW opens \in BOOLEAN,
              clientCheckIfTripExists(asks, opens)
       PROVE  ClientStepInv'
  <2> DEFINE underWay == trip.status \in {"accepted", "started"}
  <2>1. /\ toC' = <<>> /\ UNCHANGED <<trip, reached, fromC>>
        /\ cl.stage = "launching" /\ ~cl.left
    BY <1>10
    DEF clientCheckIfTripExists, netVars, ViewInv, ClientQueue, ClientView
  <2>2. CASE asks /\ underWay
    <3>0. /\ ((trip.status = "accepted" /\ reached) \/ fromC # <<>>) \in BOOLEAN
          /\ (trip.status = "started") \in BOOLEAN
          /\ cl' = Recovered(trip.id, trip.status = "started", opens,
                             \/ trip.status = "accepted" /\ reached
                             \/ fromC # <<>>)
      BY <1>10, <2>2, Zenon DEF clientCheckIfTripExists
    <3>1. PICK begun \in BOOLEAN, lag \in BOOLEAN :
              /\ begun <=> trip.status = "started"
              /\ lag <=> \/ trip.status = "accepted" /\ reached
                         \/ fromC # <<>>
              /\ cl' = Recovered(trip.id, begun, opens, lag)
      BY <3>0, Zenon
    <3>i. trip.id \in Ids
      BY DEF TypeInv
    <3>2. /\ cl'.id = trip.id /\ cl'.recovered /\ cl'.left = cl.left
          /\ \/ /\ trip.status = "started"
                /\ cl'.stage = "running" /\ cl'.slot = "trip"
             \/ /\ trip.status = "accepted" /\ opens
                /\ cl'.stage = "sheet" /\ cl'.slot = "sheet"
             \/ /\ trip.status = "accepted" /\ ~opens
                /\ cl'.stage = "dashboard" /\ cl'.slot = "dash"
                /\ cl'.lapse
      BY <2>2, <3>1, <3>i, RecoveredIs
    <3>3. ~cl'.lapse => fromC = <<>> /\ ~(trip.status = "accepted" /\ reached)
      <4>1. lag => cl'.lapse
        BY <3>1 DEF Recovered, TypeInv, ClientType
      <4>2. ~lag => fromC = <<>> /\ ~(trip.status = "accepted" /\ reached)
        BY <3>1
      <4>3. QED
        BY <4>1, <4>2
    <3>4. fromC = <<>> => ~Cancelling'
      BY <2>1 DEF Cancelling
    <3>5. ~cl'.lapse => ClientFollows'
      BY <2>1, <2>2, <3>2, <3>3, <3>4, NothingTold, OpenIs
      DEF ClientFollows, ClientEngaged
    <3>6. QED
      BY <1>q, <1>s, <2>1, <3>2, <3>5 DEF ClientStepInv, ClientSlots
  <2>3. CASE ~(asks /\ underWay) /\ cl.recovered
    <3>1. cl' = Recovered(cl.found, cl.begun, opens, TRUE)
      BY <1>10, <2>3 DEF clientCheckIfTripExists
    <3>2. cl'.lapse /\ ClientSlots'
      <4>1. cl.found \in Ids /\ cl.begun \in BOOLEAN
        BY DEF TypeInv, ClientType
      <4>2. TRUE \in BOOLEAN
        OBVIOUS
      <4>3. PICK begun \in BOOLEAN, lag \in BOOLEAN :
                lag /\ cl' = Recovered(cl.found, begun, opens, lag)
        BY <3>1, <4>1, <4>2, Zenon
      <4>4. cl'.lapse
        BY <4>3 DEF Recovered, TypeInv, ClientType
      <4>5. \/ cl'.stage = "running" /\ cl'.slot = "trip"
            \/ cl'.stage = "sheet" /\ cl'.slot = "sheet"
            \/ cl'.stage = "dashboard" /\ cl'.slot = "dash"
        <5>1. CASE begun
          BY <4>3, <5>1 DEF Recovered, TypeInv, ClientType
        <5>2. CASE ~begun /\ opens
          BY <4>3, <5>2 DEF Recovered, TypeInv, ClientType
        <5>3. CASE ~begun /\ ~opens
          BY <4>3, <5>3 DEF Recovered, TypeInv, ClientType
        <5>4. QED
          BY <5>1, <5>2, <5>3
      <4>6. QED
        BY <4>4, <4>5 DEF ClientSlots
    <3>3. QED
      BY <1>q, <1>s, <2>1, <3>2 DEF ClientStepInv
  <2>4. CASE ~(asks /\ underWay) /\ ~cl.recovered
    <3>1. cl' = [NewClient EXCEPT !.late = cl.late, !.lapse = underWay]
      BY <1>10, <2>4 DEF clientCheckIfTripExists
    <3>2. /\ cl'.stage = "dashboard" /\ cl'.slot = "dash" /\ ~cl'.left
          /\ cl'.lapse = underWay
      BY <3>1 DEF NewClient
    <3>3. ~cl'.lapse => ClientFollows'
      BY <2>1, <3>2, NothingTold DEF ClientFollows, ClientEngaged
    <3>4. QED
      BY <1>q, <1>s, <2>1, <3>2, <3>3 DEF ClientStepInv, ClientSlots
  <2>5. QED
    BY <2>2, <2>3, <2>4
<1>11. CASE clientLogsOut
  <2>1. /\ cl'.stage = "launching" /\ cl'.left = cl.left /\ toC' = <<>>
        /\ cl.stage \in {"launching", "dashboard", "waiting", "matching"}
        /\ cl'.slot = cl.slot /\ UNCHANGED <<trip, reached, fromC>>
    BY <1>11 DEF clientLogsOut, TypeInv, ClientType
  <2>2. ~cl.left
    BY <2>1 DEF ViewInv, ClientView
  <2>3. ClientFollows'
    BY <2>1, <2>2, NothingTold DEF ClientFollows, ClientEngaged
  <2>4. QED
    BY <1>q, <1>s, <2>1, <2>3 DEF ClientStepInv, ClientSlots
<1>12. CASE lateListAnswers
  <2>1. /\ cl'.id = cl.id /\ cl'.slot = "oldDash" /\ cl'.left = cl.left
        /\ cl'.stage = cl.stage /\ cl'.recovered = cl.recovered
        /\ UNCHANGED <<trip, reached, fromC>>
    BY <1>12, LateList
  <2>2. ~cl'.lapse => ~cl.lapse /\ toC' = toC
    BY <1>12, LateList
  <2>3. ~cl'.lapse => ClientFollows'
    BY <1>f, <2>1, <2>2
    DEF ClientFollows, ClientEngaged, ClientDeaf, Cancelling
  <2>4. QED
    BY <1>q, <1>s, <2>1, <2>3 DEF ClientStepInv, ClientSlots
<1>13. QED
  BY <1>1, <1>2, <1>3, <1>4, <1>5, <1>6, <1>7, <1>8, <1>9, <1>10, <1>11,
     <1>12
  DEF ClientStep

\* A message of the client's phone that the screen in the slot answers.
LEMMA ClientReadStep ==
    ASSUME TypeInv, TypeInv', ViewInv, ClientStepInv, clientOnMessage
    PROVE  ClientStepInv'
<1> DEFINE m == Head(toC)
<1>p. PICK over \in BOOLEAN : cl' = ClientHears(m, over)
  BY DEF clientOnMessage
<1>n. /\ toC \in Seq(Messages) /\ toC # <<>> /\ m \in Messages
      /\ toC' = Tail(toC) /\ UNCHANGED <<trip, reached, fromC>>
      /\ cl' = ClientHears(m, over)
  BY <1>p, TailIndices DEF TypeInv, Queue, clientOnMessage
<1>s. /\ ClientSlots /\ AllTruthful(trip, fromC)
      /\ (trip.status = "requested" => ~reached)
      /\ ~cl.lapse => ClientFollows
  BY DEF ClientStepInv
<1>l. cl.stage # "launching"
  BY <1>n DEF ViewInv, ClientQueue
<1>q. ~cl.lapse =>
        /\ ~cl.left
        /\ cl.slot = "dash" =>
              /\ AcceptancesEnd(ClientOpen(trip), Closers, toC')
              /\ m.type = "trip_accepted" =>
                    m.id \in ClientOpen(trip) \/ Tells(toC', m.id, Closers)
        /\ ~ClientDeaf =>
              /\ LastIsCurrent(trip, reached, toC')
              /\ toC' = <<>> => Current(trip, reached, m) \/ m.type \in Closers
              /\ ~(trip.status = "accepted" /\ Cancelling)
        /\ ClientEngaged /\ m.type \notin Closers =>
              cl.id \in ClientOpen(trip) \/ Tells(toC', cl.id, Closers)
  BY <1>n, <1>s, <1>l, AcceptancesRead, LastRead, TellsRead DEF ClientFollows
<1>c. Cancelling' = Cancelling
  BY <1>n DEF Cancelling
<1> HIDE DEF m
<1>1. ClientSlots'
  BY <1>n, <1>s, ClientHeard DEF ClientSlots
<1>2. ~cl'.lapse => ClientFollows'
  <2>1. CASE /\ cl.slot = "dash" /\ m.type = "trip_accepted"
             /\ cl'.stage = "matching" /\ cl'.id = m.id
             /\ cl'.slot = "dash" /\ cl'.lapse = cl.lapse
             /\ cl'.left = cl.left
    BY <1>n, <1>q, <1>c, <2>1
    DEF ClientFollows, ClientEngaged, ClientDeaf, Current, Closers
  <2>2. CASE /\ cl.slot = "sheet" /\ cl.stage = "sheet" /\ m.type = "reached"
             /\ cl'.stage = IF cl.recovered THEN "running" ELSE "trip"
             /\ cl'.id = cl.id /\ cl'.slot = "trip"
             /\ cl'.recovered = cl.recovered /\ cl'.left = over
             /\ cl'.lapse = (cl.lapse \/ over)
    BY <1>n, <1>q, <1>c, <2>2
    DEF ClientFollows, ClientEngaged, ClientDeaf, Current, Closers
  <2>3. CASE /\ cl.slot = "sheet" /\ cl.stage = "sheet"
             /\ cl'.stage = "dashboard" /\ cl'.slot = "sheet"
             /\ cl'.left = cl.left /\ cl'.lapse = cl.lapse
    BY <1>n, <1>q, <2>3 DEF ClientFollows, ClientEngaged, ClientDeaf
  <2>4. CASE /\ cl.stage \in {"trip", "running"} /\ m.type = "Trip_Started"
             /\ cl'.stage = "running" /\ cl'.id = cl.id /\ cl'.slot = cl.slot
             /\ cl'.left = cl.left /\ cl'.lapse = cl.lapse
             /\ cl.slot = "trip"
    BY <1>n, <1>s, <1>q, <1>c, <2>4
    DEF ClientFollows, ClientEngaged, ClientDeaf, ClientSlots, Current, Closers
  <2>5. CASE /\ cl.stage \in {"trip", "running"} /\ m.type = "Trip_Ended"
             /\ cl'.stage = "rating" /\ cl'.slot = cl.slot
             /\ cl'.left = cl.left /\ cl'.lapse = cl.lapse
             /\ cl.slot = "trip"
    BY <1>n, <1>s, <1>q, <1>c, <2>5
    DEF ClientFollows, ClientEngaged, ClientDeaf, ClientSlots
  <2>6. QED
    BY <1>n, <2>1, <2>2, <2>3, <2>4, <2>5, ClientHeard
<1>3. QED
  BY <1>n, <1>s, <1>1, <1>2 DEF ClientStepInv

\* What the server tells the client of the trip as it now is.
LEMMA TellClientStep ==
    ASSUME TypeInv, ClientStepInv, NEW m \in Messages, m.id = trip.id,
           TellClient(m.type, m.id),
           Current(trip', reached', m) \/ m.type \in Closers,
           \A id \in ClientOpen(trip) :
              id \in ClientOpen(trip') \/ (m.id = id /\ m.type \in Closers),
           m.type = "trip_accepted" => m.id \in ClientOpen(trip'),
           AllTruthful(trip', fromC'),
           trip'.status = "requested" => ~reached',
           trip'.status = "accepted" /\ Cancelling' =>
              trip.status = "accepted" /\ Cancelling
    PROVE  ClientStepInv'
<1>n. toC \in Seq(Messages)
  BY DEF TypeInv, Queue
<1>1. Message(m.type, m.id) = m
  BY DEF Message, Messages
<1>2. /\ cl'.stage = cl.stage /\ cl'.slot = cl.slot /\ cl'.id = cl.id
      /\ cl'.recovered = cl.recovered /\ cl'.left = cl.left
  BY DEF TellClient, TypeInv, ClientType
<1>3. CASE ~cl.open
  <2>1. cl'.lapse
    BY <1>3 DEF TellClient, TypeInv, ClientType
  <2>2. QED
    BY <1>2, <2>1 DEF ClientStepInv, ClientSlots
<1>4. CASE cl.open
  <2>1. cl' = cl /\ toC' = Append(toC, m)
    BY <1>1, <1>4 DEF TellClient
  <2>2. LastIsCurrent(trip', reached', toC') /\ toC' # <<>>
    BY <1>n, <2>1, LastWrite
  <2>3. ASSUME ~cl.lapse PROVE ClientFollows'
    <3>1. ClientEngaged =>
             cl.id \in ClientOpen(trip') \/ Tells(toC', cl.id, Closers)
      BY <1>n, <2>1, <2>3, TellsWrite DEF ClientStepInv, ClientFollows
    <3>2. cl.slot = "dash" => AcceptancesEnd(ClientOpen(trip'), Closers, toC')
      BY <1>n, <2>1, <2>3, AcceptancesWrite DEF ClientStepInv, ClientFollows
    <3>3. QED
      BY <2>1, <2>2, <2>3, <3>1, <3>2
      DEF ClientStepInv, ClientFollows, ClientEngaged, ClientDeaf
  <2>4. QED
    BY <2>1, <2>3 DEF ClientStepInv, ClientSlots
<1>5. QED
  BY <1>3, <1>4

\* The server tells the client of every change of its trip but the one the
\* client has asked for, and then the client has left the trip.
LEMMA ServerKeepsClientStep ==
    ASSUME TypeInv, ViewInv, ClientStepInv, ServerStep
    PROVE  ClientStepInv'
<1>t. TripMoves
  BY ServerTripMoves
<1>i. /\ trip.id \in Ids /\ trip \in [id : Ids, status : Statuses]
      /\ fromC \in Seq(Messages) /\ toC \in Seq(Messages)
  BY DEF TypeInv, Queue
<1>q. AllTruthful(trip', fromC)
  BY <1>t, <1>i, TruthStays DEF ClientStepInv
<1>r. trip.status = "requested" => ~reached
  BY DEF ClientStepInv
<1>s. UNCHANGED <<trip, reached, cl, toC, fromC>> => ClientStepInv'
  BY DEF ClientStepInv, ClientSlots, ClientFollows, ClientEngaged, ClientDeaf,
         Cancelling
\* Nothing of a trip that is only requested is on its way.
<1>c. trip.status = "requested" => ~Cancelling
  BY DEF ClientStepInv, Cancelling, AllTruthful, Truthful, Known
<1>1. CASE ServerReadsProvider
  <2> DEFINE m == Head(fromP)
  <2>1. m \in Messages /\ fromC' = fromC
    BY <1>1, QueueRead DEF TypeInv, ServerReadsProvider
  <2>2. CASE UNCHANGED <<trip, reached, cl, toC>>
    BY <1>s, <2>1, <2>2
  <2>3. CASE /\ m.type = "trip_accepted" /\ m.id = trip.id
             /\ trip.status = "requested" /\ trip'.id = trip.id
             /\ trip'.status = "accepted" /\ reached' = reached
             /\ TellClient(m.type, m.id)
    <3>1. Current(trip', reached', m) /\ m.id \in ClientOpen(trip')
      BY <1>r, <2>3, OpenIs DEF Current
    <3>2. \A id \in ClientOpen(trip) : FALSE
      BY <2>3, OpenIs
    <3>3. ~Cancelling'
      BY <1>c, <2>1, <2>3 DEF Cancelling
    <3>4. QED
      BY <1>q, <2>1, <2>3, <3>1, <3>2, <3>3, TellClientStep
  <2>4. CASE /\ m.type = "trip_cancelled" /\ m.id = trip.id
             /\ trip'.id = trip.id /\ trip'.status = "cancelled"
             /\ TellClient(m.type, m.id)
    <3>1. m.type \in Closers /\ \A id \in ClientOpen(trip) : m.id = id
      BY <2>4, OpenIs DEF Closers
    <3>2. QED
      BY <1>q, <2>1, <2>4, <3>1, TellClientStep
  <2>5. CASE /\ m.type = "reached" /\ m.id = trip.id
             /\ trip.status = "accepted" /\ trip' = trip /\ reached'
             /\ TellClient(m.type, m.id)
    <3>1. Current(trip', reached', m)
      BY <2>5 DEF Current
    <3>2. Cancelling' => Cancelling
      BY <2>1, <2>5 DEF Cancelling
    <3>3. QED
      BY <1>q, <2>1, <2>5, <3>1, <3>2, TellClientStep
  <2>6. QED
    BY <1>1, <1>i, <2>2, <2>3, <2>4, <2>5 DEF ServerReadsProvider
<1>2. CASE ServerReadsClient
  <2>1. /\ fromC # <<>> /\ fromC' = Tail(fromC)
        /\ UNCHANGED <<reached, cl, toC>>
    BY <1>2 DEF ServerReadsClient
  <2>2. AllTruthful(trip', fromC')
    BY <1>i, <1>q, <2>1, TruthfulRead
  <2>3. CASE trip' = trip
    <3>1. Cancelling' => Cancelling
      BY <1>i, <2>1, <2>3, TailIndices DEF Cancelling
    <3>2. QED
      BY <1>r, <2>1, <2>2, <2>3, <3>1
      DEF ClientStepInv, ClientSlots, ClientFollows, ClientEngaged, ClientDeaf
  <2>4. CASE /\ trip.id = Head(fromC).id /\ trip.status = "accepted"
             /\ trip'.status = "cancelled"
    <3>1. Cancelling
      BY <1>i, <2>1, <2>4, TailIndices DEF Cancelling
    <3>2. ~cl.lapse => ~cl.left /\ (cl.stage = "launching" \/ ClientDeaf)
      BY <2>4, <3>1 DEF ClientStepInv, ClientFollows
    <3>3. cl.stage = "launching" => toC' = <<>>
      BY <2>1 DEF ViewInv, ClientQueue
    <3>4. ~cl'.lapse => ClientFollows'
      BY <2>1, <2>4, <3>2, <3>3, NothingTold
      DEF ClientFollows, ClientEngaged, ClientDeaf
    <3>5. QED
      BY <2>1, <2>2, <2>4, <3>4 DEF ClientStepInv, ClientSlots
  <2>5. QED
    BY <1>2, <1>i, <2>3, <2>4 DEF ServerReadsClient
<1>3. CASE ServerTakesStartEnd
  <2> DEFINE to == IF pv.rest = "starting" THEN "started" ELSE "ended"
             told == IF to = "started" THEN "Trip_Started" ELSE "Trip_Ended"
             m == Message(told, trip.id)
  <2>1. m \in Messages /\ m.type = told /\ m.id = trip.id
    BY <1>i DEF Message, Messages
  <2>2. /\ trip'.id = trip.id /\ trip'.status = to
        /\ UNCHANGED <<reached, fromC>>
    BY <1>3, <1>i DEF ServerTakesStartEnd
  <2>3. CASE trip' = trip /\ UNCHANGED <<cl, toC>>
    BY <1>s, <2>2, <2>3
  <2>4. CASE TellClient(told, trip.id)
    <3>1. Current(trip', reached', m) \/ m.type \in Closers
      BY <2>1, <2>2 DEF Current, Closers
    <3>2. \A id \in ClientOpen(trip) :
             id \in ClientOpen(trip') \/ (m.id = id /\ m.type \in Closers)
      BY <2>1, <2>2, OpenIs DEF Closers
    <3>3. TellClient(m.type, m.id) /\ m.type # "trip_accepted"
      BY <2>1, <2>4
    <3>4. trip'.status \in {"started", "ended"}
      BY <2>2
    <3> HIDE DEF m
    <3>5. QED
      BY <1>q, <2>1, <2>2, <3>1, <3>2, <3>3, <3>4, TellClientStep
  <2>5. \/ trip' = trip /\ UNCHANGED <<cl, toC>>
        \/ TellClient(told, trip.id)
    <3>1. trip.status = to => trip' = trip
      BY <1>3, <1>i DEF ServerTakesStartEnd
    <3>2. QED
      BY <1>3, <3>1 DEF ServerTakesStartEnd
  <2>6. QED
    BY <2>3, <2>4, <2>5
<1>4. QED
  BY <1>1, <1>2, <1>3 DEF ServerStep

\* No acceptance of a trip the server has not had is on its way.
LEMMA NothingLater ==
    ASSUME NEW net \in Seq(Messages), NEW n \in Nat, NoneAfter(n, net),
           NEW types
    PROVE  ~Tells(net, n + 1, types)
BY MessageTypes DEF NoneAfter, Tells

\* The client takes back, or replaces, only a trip that is not open.
LEMMA ClientKeepsProviderStep ==
    ASSUME TypeInv, ViewInv, ProviderStepInv, ClientStep,
           UNCHANGED <<pv, toP, fromP>>
    PROVE  ProviderStepInv'
<1>t. TripMoves
  BY ClientTripMoves
<1>n. /\ pv.id \in Nat /\ trip.id \in Nat
      /\ toP \in Seq(Messages) /\ fromP \in Seq(Messages)
  BY SystemBounds DEF TypeInv, Ids, ProviderType, Queue
<1>1. \/ trip' = trip
      \/ /\ trip.status \notin {"accepted", "started"}
         /\ trip'.status \notin {"accepted", "started"}
         /\ \/ trip'.id = trip.id
            \/ trip'.id = trip.id + 1
  <2>1. CASE postRequest \/ cancelRequestThroughWS
    BY <2>1 DEF postRequest, cancelRequestThroughWS, TypeInv
  <2>2. CASE ~postRequest /\ ~cancelRequestThroughWS
    BY <2>2
    DEF ClientStep, postRequestSucceeds, postRequestFails, overlayTimerFires,
        clientOnMessage, distanceMatrixSucceeds, distanceMatrixFails,
        clientCancelsTrip, clientLeavesTrip, clientDisconnects,
        clientRelaunches, clientLogsOut, lateListAnswers,
        clientCheckIfTripExists
  <2>3. QED
    BY <2>1, <2>2
<1>2. CASE trip' = trip
  BY <1>2 DEF ProviderStepInv, ProviderFollows, ProviderEngaged, Accepting
<1>3. CASE /\ trip.status \notin {"accepted", "started"}
           /\ trip'.status \notin {"accepted", "started"}
           /\ trip'.id = trip.id \/ trip'.id = trip.id + 1
  <2>1. CancelsKnown(trip', fromP)
    BY <1>t, <1>n, CancelsStay DEF ProviderStepInv
  <2>2. Accepting' => About(trip'.id, toP)
    <3>1. trip'.id = trip.id + 1 => ~Accepting'
      BY <1>n, <1>3, NothingLater DEF ViewInv, ProviderQueue, Accepting
    <3>2. trip'.id = trip.id /\ Accepting' => Accepting
      BY <1>3 DEF Accepting
    <3>3. QED
      BY <1>3, <3>1, <3>2 DEF ProviderStepInv
  <2>3. \A id : id \notin ProviderOpen(trip)
    BY <1>3, OpenIs
  <2>4. ~pv.lapse =>
           AcceptancesEnd(ProviderOpen(trip'), {"trip_cancelled"}, toP)
    BY <2>3, AcceptancesStay DEF ProviderStepInv, ProviderFollows
  <2>5. ~pv.lapse => ProviderFollows'
    BY <1>3, <2>3, <2>4 DEF ProviderStepInv, ProviderFollows, ProviderEngaged
  <2>6. QED
    BY <1>3, <2>1, <2>2, <2>5 DEF ProviderStepInv
<1>4. QED
  BY <1>1, <1>2, <1>3

\* The steps of the provider's phone but for the message it reads.
LEMMA ProviderOwnStep ==
    ASSUME TypeInv, TypeInv', ViewInv, ProviderStepInv, ProviderStep,
           ~providerOnMessage
    PROVE  ProviderStepInv'
<1>n. /\ pv.id \in Nat /\ trip.id \in Nat
      /\ toP \in Seq(Messages) /\ fromP \in Seq(Messages)
  BY SystemBounds DEF TypeInv, Ids, ProviderType, Queue
<1>t. trip' = trip
  BY DEF ProviderStep, switchValueChanged, onProviderMessage, ringFinishes,
         cancelRequest, btnAcceptRequest, onConnect, providerOnMessage,
         directionsSucceed, directionsFail, providerCancelsTrip,
         textFieldEditingChanged, btnActionPressed, startEndAnswers,
         providerLeavesTrip, providerDisconnects, providerRelaunches,
         providerCheckIfTripExists
<1>v. ProviderView /\ ProviderQueue
  BY DEF ViewInv
<1>i. /\ pv.stage \in {"routing", "offered"} => pv.slot = "dash"
      /\ CancelsKnown(trip, fromP)
      /\ Accepting => About(trip.id, toP)
      /\ pv.rest = "started" => pv.id = trip.id /\ trip.status = "started"
      /\ ~pv.lapse => ProviderFollows
  BY DEF ProviderStepInv
\* A message the phone writes about its trip.
<1>w. ASSUME NEW type \in {"trip_cancelled", "reached", "trip_accepted"},
             fromP' = Append(fromP, Message(type, pv.id)),
             type = "trip_cancelled" => Known(trip, pv.id)
      PROVE  /\ CancelsKnown(trip, fromP')
             /\ \A id, k : Tells(fromP', id, {k}) =>
                   Tells(fromP, id, {k}) \/ (k = type /\ id = pv.id)
  <2> DEFINE m == Message(type, pv.id)
  <2>1. m \in Messages /\ m.id = pv.id /\ m.type = type
    BY DEF Message, Messages, TypeInv, ProviderType
  <2>2. fromP' = Append(fromP, m)
    BY <1>w
  <2> HIDE DEF m
  <2>3. QED
    BY <1>i, <1>n, <1>w, <2>1, <2>2, OthersWrite, TellsWrite
<1> USE <1>t DEF ProviderStepInv, ProviderFollows, ProviderEngaged, Accepting
<1>1. CASE switchValueChanged \/ ringFinishes \/ cancelRequest
  <2>1. /\ pv'.stage = "dashboard" /\ pv'.rest = pv.rest
        /\ pv'.id = pv.id /\ pv'.lapse = pv.lapse
        /\ UNCHANGED <<toP, fromP>>
    BY <1>1
    DEF switchValueChanged, ringFinishes, cancelRequest, netVars, TypeInv,
        ProviderType
  <2>2. QED
    BY <1>i, <2>1
<1>2. CASE onProviderMessage
  <2>1. /\ pv'.stage = "offered" /\ pv'.slot = "dash" /\ pv'.rest = pv.rest
        /\ pv'.lapse = pv.lapse /\ UNCHANGED <<toP, fromP>>
        /\ pv.stage \in {"dashboard", "offered"}
    BY <1>2 DEF onProviderMessage, netVars, TypeInv, ProviderType
  <2>2. pv.rest # "started"
    BY <1>v, <2>1 DEF ProviderView
  <2>3. QED
    BY <1>i, <2>1, <2>2
<1>3. CASE btnAcceptRequest
  <2>1. /\ pv'.stage = "dashboard" /\ pv'.rest = pv.rest
        /\ pv'.id = pv.id /\ toP' = <<>> /\ UNCHANGED fromP
    BY <1>3 DEF btnAcceptRequest, TypeInv, ProviderType
  <2>2. ~pv'.lapse => ~pv.lapse
    BY <1>3 DEF btnAcceptRequest, TypeInv, ProviderType
  <2>3. QED
    BY <1>i, <2>1, <2>2, NothingTold
<1>4. CASE onConnect
  <2>1. /\ pv'.stage = pv.stage /\ pv'.slot = pv.slot /\ pv'.rest = pv.rest
        /\ pv'.id = pv.id /\ pv'.lapse = pv.lapse
        /\ toP' = toP /\ pv.socket # "open"
    BY <1>4 DEF onConnect, TypeInv, ProviderType
  <2>2. toP = <<>>
    BY <1>v, <2>1 DEF ProviderQueue
  <2>3. /\ CancelsKnown(trip, fromP')
        /\ \A id : Tells(fromP', id, {"trip_cancelled"}) =>
              Tells(fromP, id, {"trip_cancelled"})
    <3>1. \/ fromP' = fromP
          \/ fromP' = Append(fromP, Message("trip_accepted", pv.id))
      BY <1>4 DEF onConnect
    <3>2. QED
      BY <1>i, <1>w, <3>1
  <2>4. QED
    BY <1>i, <2>1, <2>2, <2>3, NothingTold
<1>5. CASE directionsSucceed
  <2>1. /\ pv.stage = "routing" /\ pv'.stage = "sheet" /\ pv'.rest = pv.rest
        /\ pv'.id = pv.id /\ pv'.lapse = pv.lapse
        /\ UNCHANGED <<toP, fromP>>
    BY <1>5 DEF directionsSucceed, netVars, TypeInv, ProviderType
  <2>2. QED
    BY <1>i, <2>1
<1>6. CASE directionsFail
  <2>1. /\ pv'.stage = "dashboard" /\ pv'.rest = pv.rest /\ pv'.id = pv.id
        /\ pv'.lapse /\ UNCHANGED <<toP, fromP>>
    BY <1>6 DEF directionsFail, netVars, TypeInv, ProviderType
  <2>2. QED
    BY <1>i, <2>1
<1>7. CASE providerCancelsTrip
  <2>1. /\ pv.stage = "sheet" /\ pv'.stage = "dashboard" /\ pv'.rest = pv.rest
        /\ pv'.id = pv.id /\ pv'.lapse = pv.lapse /\ toP' = toP
    BY <1>7 DEF providerCancelsTrip, TypeInv, ProviderType
  <2>2. \/ fromP' = fromP
        \/ fromP' = Append(fromP, Message("trip_cancelled", pv.id))
    BY <1>7 DEF providerCancelsTrip, ProviderWrites
  <2>3. Known(trip, pv.id)
    BY <1>v, <2>1 DEF ProviderView
  <2>4. /\ CancelsKnown(trip, fromP')
        /\ \A id : /\ Tells(fromP', id, {"trip_accepted"}) =>
                         Tells(fromP, id, {"trip_accepted"})
                   /\ Tells(fromP', id, {"trip_cancelled"}) =>
                         Tells(fromP, id, {"trip_cancelled"}) \/ id = pv.id
    BY <1>i, <1>w, <2>2, <2>3
  <2>5. QED
    BY <1>i, <2>1, <2>4
<1>8. CASE textFieldEditingChanged
  <2>1. /\ pv.stage = "sheet" /\ pv'.stage = "start" /\ pv'.rest = pv.rest
        /\ pv'.id = pv.id /\ pv'.lapse = pv.lapse /\ toP' = toP
    BY <1>8 DEF textFieldEditingChanged, TypeInv, ProviderType
  <2>2. \/ fromP' = fromP
        \/ fromP' = Append(fromP, Message("reached", pv.id))
    BY <1>8 DEF textFieldEditingChanged, ProviderWrites
  <2>3. /\ CancelsKnown(trip, fromP')
        /\ \A id : /\ Tells(fromP', id, {"trip_accepted"}) =>
                         Tells(fromP, id, {"trip_accepted"})
                   /\ Tells(fromP', id, {"trip_cancelled"}) =>
                         Tells(fromP, id, {"trip_cancelled"})
    BY <1>i, <1>w, <2>2
  <2>4. QED
    BY <1>i, <2>1, <2>3
<1>9. CASE btnActionPressed
  <2>1. /\ pv'.stage = pv.stage /\ pv'.slot = pv.slot
        /\ pv'.rest \in {"starting", "ending"} /\ pv.rest = "idle"
        /\ pv'.id = pv.id /\ pv'.lapse = pv.lapse
        /\ UNCHANGED <<toP, fromP>>
    BY <1>9 DEF btnActionPressed, netVars, TypeInv, ProviderType
  <2>2. QED
    BY <1>i, <2>1
<1>10. CASE startEndAnswers
  <2>1. /\ pv'.slot = pv.slot /\ pv'.rest = "idle" /\ pv'.id = pv.id
        /\ UNCHANGED <<toP, fromP>>
        /\ \/ /\ pv.rest = "started" /\ pv'.stage = "running"
              /\ pv'.lapse = pv.lapse
           \/ /\ pv.rest = "ended" /\ pv'.stage = "rating"
              /\ pv'.lapse = pv.lapse
           \/ pv'.stage = pv.stage
    BY <1>10 DEF startEndAnswers, netVars, TypeInv, ProviderType
  <2>2. pv'.stage = pv.stage =>
           (pv'.lapse \/ (pv.rest \notin {"started", "ended"} /\ ~pv.lapse))
    BY <1>10, <1>v, <2>1
    DEF startEndAnswers, TypeInv, ProviderType, ProviderView
  <2>3. QED
    BY <1>i, <2>1, <2>2
<1>11. CASE providerLeavesTrip
  <2>1. /\ pv'.stage = "dashboard" /\ pv'.rest = "idle" /\ pv'.id = pv.id
        /\ pv'.lapse = pv.lapse /\ UNCHANGED <<toP, fromP>>
    BY <1>11 DEF providerLeavesTrip, netVars, TypeInv, ProviderType
  <2>2. QED
    BY <1>i, <2>1
<1>12. CASE providerDisconnects
  <2>1. /\ pv'.stage = pv.stage /\ pv'.slot = pv.slot /\ pv'.rest = pv.rest
        /\ pv'.id = pv.id /\ toP' = <<>> /\ UNCHANGED fromP
    BY <1>12 DEF providerDisconnects, TypeInv, ProviderType
  <2>2. ~pv'.lapse => ~pv.lapse /\ toP = <<>>
    BY <1>12 DEF providerDisconnects, TypeInv, ProviderType
  <2>3. QED
    BY <1>i, <2>1, <2>2, NothingTold
<1>13. CASE providerRelaunches
  <2>1. /\ pv'.stage = "launching" /\ pv'.rest = "idle" /\ toP' = <<>>
        /\ UNCHANGED fromP
    BY <1>13 DEF providerRelaunches, NewProvider
  <2>2. QED
    BY <1>i, <2>1, NothingTold
<1>14. ASSUME NEW seen \in BOOLEAN, providerCheckIfTripExists(seen)
       PROVE  ProviderStepInv'
  <2>1. /\ toP' = <<>> /\ UNCHANGED fromP
        /\ pv'.id = trip.id /\ pv'.rest = "idle"
        /\ \/ pv'.stage = "running" /\ trip.status = "started"
           \/ pv'.stage = "dashboard"
    BY <1>14, <1>v
    DEF providerCheckIfTripExists, NewProvider, netVars, ProviderQueue
  <2>2. QED
    BY <1>i, <2>1, NothingTold
<1>15. QED
  BY <1>1, <1>2, <1>3, <1>4, <1>5, <1>6, <1>7, <1>8, <1>9, <1>10, <1>11,
     <1>12, <1>13, <1>14
  DEF ProviderStep

\* A message of the provider's phone that the screen in the slot answers.
LEMMA ProviderReadStep ==
    ASSUME TypeInv, TypeInv', ViewInv, ProviderStepInv, providerOnMessage
    PROVE  ProviderStepInv'
<1> DEFINE m == Head(toP)
<1>p. PICK over \in BOOLEAN : pv' = ProviderHears(m, over)
  BY DEF providerOnMessage
<1>n. /\ toP \in Seq(Messages) /\ toP # <<>> /\ m \in Messages
      /\ toP' = Tail(toP) /\ UNCHANGED <<trip, fromP>>
      /\ pv' = ProviderHears(m, over)
  BY <1>p, TailIndices DEF TypeInv, Queue, providerOnMessage
<1>i. /\ pv.stage \in {"routing", "offered"} => pv.slot = "dash"
      /\ CancelsKnown(trip, fromP)
      /\ Accepting => About(trip.id, toP)
      /\ pv.rest = "started" => pv.id = trip.id /\ trip.status = "started"
      /\ ~pv.lapse => ProviderFollows
  BY DEF ProviderStepInv
<1>a. Accepting' = Accepting
  BY <1>n DEF Accepting
<1>b. Accepting => About(trip.id, toP') /\ m.id = trip.id
  BY <1>n, <1>i, OthersRead
<1>q. ~pv.lapse =>
        /\ AcceptancesEnd(ProviderOpen(trip), {"trip_cancelled"}, toP')
        /\ AcceptedOnce(toP')
        /\ m.type = "trip_accepted" =>
              /\ \/ m.id \in ProviderOpen(trip)
                 \/ Tells(toP', m.id, {"trip_cancelled"})
              /\ ~Tells(toP', m.id, {"trip_accepted"})
  BY <1>n, <1>i, AcceptancesRead, OnceRead DEF ProviderFollows
<1>r. \A id : Tells(toP', id, {"trip_accepted"}) =>
         Tells(toP, id, {"trip_accepted"})
  BY <1>n, TellsRead
<1>h. Tells(toP, m.id, {m.type})
  <2>1. Head(toP) = toP[1] /\ 1 \in 1 .. Len(toP)
    BY <1>n, TailIndices
  <2>2. QED
    BY <2>1 DEF Tells
<1> HIDE DEF m
<1>1. CASE /\ pv.slot = "dash" /\ m.type = "trip_accepted"
           /\ pv'.stage = "routing" /\ pv'.id = m.id /\ pv'.slot = pv.slot
           /\ pv'.rest = pv.rest /\ pv'.lapse = pv.lapse
  <2>1. pv.rest = "idle"
    <3>1. pv.stage # "start"
      BY <1>1 DEF ViewInv, StartInv
    <3>2. pv.stage # "running"
      BY <1>n, <1>1, ReadOthers DEF ViewInv, RunningTripIsDeaf, m
    <3>3. QED
      BY <3>1, <3>2 DEF ViewInv, ProviderView, TypeInv, ProviderType
  <2>2. ~pv.lapse => ~(trip.status = "accepted"
                        /\ Tells(fromP, trip.id, {"trip_cancelled"}))
    BY <1>1, <1>b, <1>i, <1>h DEF ProviderFollows, Accepting
  <2>3. QED
    BY <1>n, <1>1, <1>a, <1>b, <1>i, <1>q, <2>1, <2>2
    DEF ProviderStepInv, ProviderFollows, ProviderEngaged
<1>2. CASE /\ pv.slot = "sheet" /\ pv.stage = "sheet"
           /\ pv'.stage = "dashboard" /\ pv'.id = pv.id
           /\ pv'.rest = pv.rest /\ pv'.lapse = pv.lapse
  BY <1>n, <1>2, <1>a, <1>b, <1>i, <1>q, <1>r
  DEF ProviderStepInv, ProviderFollows, ProviderEngaged
<1>3. CASE /\ pv'.stage = pv.stage /\ pv'.id = pv.id /\ pv'.slot = pv.slot
           /\ pv'.rest = pv.rest /\ pv'.lapse
  BY <1>n, <1>3, <1>a, <1>b, <1>i DEF ProviderStepInv
<1>4. QED
  BY <1>n, <1>1, <1>2, <1>3, ProviderHeard

\* The server tells the provider of its acceptance and of the client's
\* cancellation; the provider's own cancellation finds its phone off the trip.
LEMMA ServerKeepsProviderStep ==
    ASSUME TypeInv, ViewInv, ProviderStepInv, ServerStep
    PROVE  ProviderStepInv'
<1>t. TripMoves
  BY ServerTripMoves
<1>n. /\ pv.id \in Nat /\ trip.id \in Nat /\ trip.id \in Ids
      /\ trip \in [id : Ids, status : Statuses]
      /\ toP \in Seq(Messages) /\ fromP \in Seq(Messages)
  BY SystemBounds DEF TypeInv, Ids, ProviderType, Queue
<1>v. ProviderView /\ ProviderQueue
  BY DEF ViewInv
<1>i. /\ pv.stage \in {"routing", "offered"} => pv.slot = "dash"
      /\ CancelsKnown(trip, fromP) /\ CancelsKnown(trip', fromP)
      /\ Accepting => About(trip.id, toP)
      /\ pv.rest = "started" => pv.id = trip.id /\ trip.status = "started"
      /\ ~pv.lapse => ProviderFollows
  BY <1>t, <1>n, CancelsStay DEF ProviderStepInv
<1>1. CASE ServerReadsProvider
  <2> DEFINE m == Head(fromP)
  <2>1. /\ fromP # <<>> /\ fromP' = Tail(fromP) /\ m \in Messages
        /\ Tells(fromP, m.id, {m.type})
    <3>1. fromP # <<>> /\ fromP' = Tail(fromP)
      BY <1>1 DEF ServerReadsProvider
    <3>2. Head(fromP) = fromP[1] /\ 1 \in 1 .. Len(fromP) /\ m \in Messages
      BY <1>n, <3>1, TailIndices, MessageTypes
    <3>3. QED
      BY <3>1, <3>2 DEF Tells
  <2>2. /\ CancelsKnown(trip', fromP')
        /\ \A id, k : Tells(fromP', id, {k}) => Tells(fromP, id, {k})
    BY <1>n, <1>i, <2>1, OthersRead, TellsRead
  <2> HIDE DEF m
  <2>3. CASE UNCHANGED <<trip, pv, toP>>
    BY <1>i, <2>2, <2>3
    DEF ProviderStepInv, ProviderFollows, ProviderEngaged, Accepting
  <2>4. CASE /\ m.type = "trip_accepted" /\ m.id = trip.id
             /\ trip.status = "requested" /\ trip'.id = trip.id
             /\ trip'.status = "accepted" /\ TellProvider(m.type, m.id)
    <3>1. /\ pv'.stage = pv.stage /\ pv'.slot = pv.slot /\ pv'.id = pv.id
          /\ pv'.rest = pv.rest
      BY <2>4 DEF TellProvider, TypeInv, ProviderType
    <3>2. About(trip.id, toP)
      BY <1>i, <2>1, <2>4 DEF Accepting
    <3>3. ~Tells(fromP, trip.id, {"trip_cancelled"})
      BY <1>i, <2>4 DEF CancelsKnown, Tells, Known
    <3>4. ~Tells(toP, trip.id, {"trip_accepted"})
      BY <1>v, <2>4 DEF ProviderQueue, AllTruthful, Truthful, Known, Tells
    <3>5. pv.rest # "started"
      BY <1>i, <2>4
    <3>6. CASE pv.socket # "open"
      <4>1. pv'.lapse /\ toP' = toP
        BY <2>4, <3>6 DEF TellProvider, TypeInv, ProviderType
      <4>2. QED
        BY <1>i, <2>2, <2>4, <3>1, <3>2, <3>5, <4>1 DEF ProviderStepInv
    <3>7. CASE pv.socket = "open"
      <4>1. pv' = pv /\ toP' = Append(toP, m)
        <5>1. Message(m.type, m.id) = m
          BY <2>1 DEF Message, Messages
        <5>2. QED
          BY <2>4, <3>7, <5>1 DEF TellProvider
      <4>2. About(trip.id, toP')
        BY <1>n, <2>1, <2>4, <3>2, <4>1, OthersWrite
      <4>3. ASSUME ~pv.lapse PROVE ProviderFollows'
        <5>1. \A id : id \notin ProviderOpen(trip)
          BY <2>4, OpenIs
        <5>2. ProviderEngaged => pv.id # trip.id
          BY <1>v, <2>4 DEF ProviderEngaged, ProviderView, Known
        <5>3. ProviderEngaged =>
                 /\ Tells(toP', pv.id, {"trip_cancelled"})
                 /\ ~Tells(toP', pv.id, {"trip_accepted"})
          BY <1>i, <1>n, <2>1, <2>4, <3>5, <4>1, <4>3, <5>1, <5>2, TellsWrite
          DEF ProviderFollows
        <5>4. AcceptancesEnd(ProviderOpen(trip'), {"trip_cancelled"}, toP')
          <6>1. m.id \in ProviderOpen(trip')
            BY <2>4, OpenIs
          <6>2. QED
            BY <1>i, <1>n, <2>1, <4>1, <4>3, <5>1, <6>1, AcceptancesWrite
            DEF ProviderFollows
        <5>5. AcceptedOnce(toP')
          BY <1>i, <1>n, <2>1, <2>4, <3>4, <4>1, <4>3, OnceWrite
          DEF ProviderFollows
        <5>6. ~Tells(fromP', trip'.id, {"trip_cancelled"})
          BY <2>2, <2>4, <3>3
        <5>7. ~(pv.stage = "running" /\ pv.rest # "ended")
          BY <1>i, <2>4, <4>3 DEF ProviderFollows
        <5>8. QED
          BY <4>1, <5>3, <5>4, <5>5, <5>6, <5>7
          DEF ProviderFollows, ProviderEngaged
      <4>4. QED
        BY <1>i, <2>2, <2>4, <3>5, <4>1, <4>2, <4>3 DEF ProviderStepInv
    <3>8. QED
      BY <3>6, <3>7
  <2>5. CASE /\ m.type = "trip_cancelled" /\ m.id = trip.id
             /\ trip.status = "accepted" /\ trip'.id = trip.id
             /\ trip'.status = "cancelled" /\ UNCHANGED <<pv, toP>>
    <3>1. Accepting /\ pv.rest # "started"
      BY <1>i, <2>5 DEF Accepting
    <3>2. ASSUME ~pv.lapse PROVE ProviderFollows'
      <4>1. ~ProviderEngaged /\ ~Tells(toP, trip.id, {"trip_accepted"})
        BY <1>i, <2>1, <2>5, <3>2 DEF ProviderFollows
      <4>2. AcceptancesEnd(ProviderOpen(trip'), {"trip_cancelled"}, toP)
        BY <1>i, <3>2, <4>1, AcceptancesStay, OpenIs DEF ProviderFollows
      <4>3. QED
        BY <1>i, <2>5, <3>2, <4>1, <4>2 DEF ProviderFollows, ProviderEngaged
    <3>3. QED
      BY <1>i, <2>2, <2>5, <3>1, <3>2 DEF ProviderStepInv
  <2>6. QED
    BY <1>1, <1>n, <2>3, <2>4, <2>5 DEF ServerReadsProvider, m
<1>2. CASE ServerReadsClient
  <2>1. CASE UNCHANGED <<trip, pv, toP>>
    BY <1>2, <1>i, <2>1
    DEF ServerReadsClient, ProviderStepInv, ProviderFollows, ProviderEngaged,
        Accepting
  <2>2. CASE /\ trip.status = "accepted" /\ trip'.id = trip.id
             /\ trip'.status = "cancelled"
             /\ TellProvider("trip_cancelled", trip.id)
    <3> DEFINE m == Message("trip_cancelled", trip.id)
    <3>1. m \in Messages /\ m.type = "trip_cancelled" /\ m.id = trip.id
      BY <1>n DEF Message, Messages
    <3>2. /\ pv'.stage = pv.stage /\ pv'.slot = pv.slot /\ pv'.id = pv.id
          /\ pv'.rest = pv.rest /\ fromP' = fromP
      BY <1>2, <2>2 DEF ServerReadsClient, TellProvider, TypeInv, ProviderType
    <3>3. About(trip.id, toP) /\ pv.rest # "started"
      BY <1>i, <2>2 DEF Accepting
    <3>4. CASE pv.socket # "open"
      <4>1. pv'.lapse /\ toP' = toP
        BY <2>2, <3>4 DEF TellProvider, TypeInv, ProviderType
      <4>2. QED
        BY <1>i, <2>2, <3>2, <3>3, <4>1 DEF ProviderStepInv
    <3>5. CASE pv.socket = "open"
      <4>1. pv' = pv /\ toP' = Append(toP, m)
        BY <2>2, <3>5 DEF TellProvider
      <4> HIDE DEF m
      <4>2. About(trip.id, toP')
        BY <1>n, <3>1, <3>3, <4>1, OthersWrite
      <4>3. ASSUME ~pv.lapse PROVE ProviderFollows'
        <5>1. \A id \in ProviderOpen(trip) : id = m.id
          BY <3>1, OpenIs
        <5>2. ProviderEngaged =>
                 /\ Tells(toP', pv.id, {"trip_cancelled"})
                 /\ ~Tells(toP', pv.id, {"trip_accepted"})
          BY <1>i, <1>n, <3>1, <3>3, <4>1, <4>3, <5>1, TellsWrite
          DEF ProviderFollows
        <5>3. /\ AcceptancesEnd(ProviderOpen(trip'), {"trip_cancelled"}, toP')
              /\ AcceptedOnce(toP')
          BY <1>i, <1>n, <3>1, <4>1, <4>3, <5>1, AcceptancesWrite, OnceWrite
          DEF ProviderFollows
        <5>4. ~(pv.stage = "running" /\ pv.rest # "ended")
          BY <1>i, <2>2, <4>3 DEF ProviderFollows
        <5>5. QED
          BY <2>2, <4>1, <5>2, <5>3, <5>4 DEF ProviderFollows, ProviderEngaged
      <4>4. QED
        BY <1>i, <2>2, <3>2, <3>3, <4>1, <4>2, <4>3 DEF ProviderStepInv
    <3>6. QED
      BY <3>4, <3>5
  <2>3. QED
    BY <1>2, <1>n, <2>1, <2>2 DEF ServerReadsClient
<1>3. CASE ServerTakesStartEnd
  <2>1. /\ pv'.id = pv.id /\ pv'.stage = pv.stage /\ pv'.slot = pv.slot
        /\ pv'.lapse = pv.lapse /\ pv.id = trip.id
        /\ toP' = toP /\ fromP' = fromP /\ trip'.id = trip.id
    BY <1>3, <1>n DEF ServerTakesStartEnd, TypeInv, ProviderType
  <2>2. \/ /\ pv.rest = "starting" /\ pv'.rest = "started"
           /\ trip'.status = "started"
           /\ trip.status \in {"accepted", "started"}
        \/ /\ pv.rest = "ending" /\ pv'.rest = "ended"
           /\ trip'.status = "ended" /\ trip.status \in {"started", "ended"}
    BY <1>3, <1>n DEF ServerTakesStartEnd, TypeInv, ProviderType
  <2>3. /\ pv.rest = "starting" => pv.stage = "start"
        /\ pv.rest = "ending" => pv.stage = "running"
    BY <1>v DEF ProviderView
  <2>4. Accepting' => Accepting
    BY <2>1, <2>2 DEF Accepting
  <2>5. ASSUME ~pv.lapse PROVE ProviderFollows'
    <3>1. \A id \in ProviderOpen(trip) : ~Tells(toP, id, {"trip_accepted"})
      BY <1>i, <2>1, <2>2, <2>3, <2>5, OpenIs
      DEF ProviderFollows, ProviderEngaged
    <3>2. AcceptancesEnd(ProviderOpen(trip'), {"trip_cancelled"}, toP)
      BY <1>i, <2>5, <3>1, AcceptancesStay DEF ProviderFollows
    <3>3. QED
      BY <1>i, <2>1, <2>2, <2>3, <2>5, <3>2
      DEF ProviderFollows, ProviderEngaged
  <2>6. QED
    BY <1>i, <2>1, <2>2, <2>4, <2>5 DEF ProviderStepInv
<1>4. QED
  BY <1>1, <1>2, <1>3 DEF ServerStep

InStepInv == TypeInv /\ ViewInv /\ ClientStepInv /\ ProviderStepInv

\* Whoever moves, both phones keep following the server.
LEMMA InStepStep ==
    ASSUME InStepInv, TypeInv', Next
    PROVE  ClientStepInv' /\ ProviderStepInv'
<1> USE DEF InStepInv
<1>1. CASE ClientStep
  <2>1. UNCHANGED <<pv, toP, fromP>>
    BY <1>1
    DEF ClientStep, postRequest, postRequestSucceeds, postRequestFails,
        overlayTimerFires, cancelRequestThroughWS, clientOnMessage,
        distanceMatrixSucceeds, distanceMatrixFails, clientCancelsTrip,
        clientLeavesTrip, clientDisconnects, clientRelaunches, clientLogsOut,
        lateListAnswers, clientCheckIfTripExists, netVars
  <2>2. QED
    BY <1>1, <2>1, ClientOwnStep, ClientReadStep, ClientKeepsProviderStep
<1>2. CASE ProviderStep
  <2>1. UNCHANGED <<trip, reached, cl, toC, fromC>>
    BY <1>2
    DEF ProviderStep, switchValueChanged, onProviderMessage, ringFinishes,
        cancelRequest, btnAcceptRequest, onConnect, providerOnMessage,
        directionsSucceed, directionsFail, providerCancelsTrip,
        textFieldEditingChanged, btnActionPressed, startEndAnswers,
        providerLeavesTrip, providerDisconnects, providerRelaunches,
        providerCheckIfTripExists, netVars
  <2>2. ClientStepInv'
    BY <2>1
    DEF ClientStepInv, ClientSlots, ClientFollows, ClientEngaged, ClientDeaf,
        Cancelling
  <2>3. QED
    BY <1>2, <2>2, ProviderOwnStep, ProviderReadStep
<1>3. CASE ServerStep
  BY <1>3, ServerKeepsClientStep, ServerKeepsProviderStep
<1>4. QED
  BY <1>1, <1>2, <1>3 DEF Next

\* The phones follow the server: their screens and queues together always
\* account for the trip as it is.
THEOREM PhonesFollow == Spec => []InStepInv
<1>1. Init => ClientStepInv /\ ProviderStepInv
  <2>1. Init => ClientStepInv
    BY NothingTold, EmptyQueues
    DEF Init, NewClient, ClientStepInv, ClientSlots, ClientFollows,
        ClientEngaged
  <2>2. Init => ProviderStepInv
    BY NothingTold, EmptyQueues
    DEF Init, NewProvider, ProviderStepInv, ProviderFollows, ProviderEngaged
  <2>3. QED
    BY <2>1, <2>2
<1>2. InStepInv /\ [Next]_vars /\ (TypeInv /\ ViewInv)' => InStepInv'
  <2>1. ASSUME InStepInv, UNCHANGED vars
        PROVE  ClientStepInv' /\ ProviderStepInv'
    BY <2>1
    DEF InStepInv, vars, netVars, ClientStepInv, ClientSlots, ClientFollows,
        ClientEngaged, ClientDeaf, Cancelling, ProviderStepInv,
        ProviderFollows, ProviderEngaged, Accepting
  <2>2. QED
    BY <2>1, InStepStep DEF InStepInv
<1>3. QED
  BY <1>1, <1>2, ViewsAreBacked, PTL DEF Spec, InStepInv

\* When nothing is on its way, a phone that has had none of the lapses shows
\* the trip as the server has it.
THEOREM PhonesAgree == Spec => []DisagreementHasCause
<1>1. InStepInv => DisagreementHasCause
  <2>1. SUFFICES ASSUME InStepInv, Quiet
                 PROVE  /\ cl.lapse \/ ClientInStep
                        /\ pv.lapse \/ ProviderInStep
    BY DEF DisagreementHasCause
  <2>2. cl.lapse \/ ClientInStep
    <3>1. ASSUME ~cl.lapse PROVE ClientInStep
      BY <2>1, <3>1, NothingTold, OpenIs
      DEF InStepInv, Quiet, ClientStepInv, ClientFollows, ClientEngaged,
          ClientInStep, ViewInv, ClientView, Over
    <3>2. QED
      BY <3>1
  <2>3. pv.lapse \/ ProviderInStep
    <3>1. ASSUME ~pv.lapse PROVE ProviderInStep
      BY <2>1, <3>1, NothingTold, OpenIs
      DEF InStepInv, Quiet, ProviderStepInv, ProviderFollows, ProviderEngaged,
          ProviderInStep, ViewInv, ProviderView, Over
    <3>2. QED
      BY <3>1
  <2>4. QED
    BY <2>2, <2>3
<1>2. QED
  BY <1>1, PhonesFollow, PTL

=============================================================================
