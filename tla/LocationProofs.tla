--------------------------- MODULE LocationProofs ---------------------------
(***************************************************************************)
(* Proofs about Location, for any number of calls in flight: types, that   *)
(* allowed updates run, that the slot comes back to the dashboard, and     *)
(* that an indicator is always somebody's.                                 *)
(***************************************************************************)
EXTENDS Location, TLAPS

Popups == {"sheet", "form"}

\* What is shown over the client's dashboard was a sheet once, and only the
\* client has a form; the provider's slot is restored by what closes it.
SlotInv ==
    /\ role = "client" => tab = "dashboard" /\ over # "places"
    /\ role = "client" /\ over # "none" => covered
    /\ over = "form" => role = "client"
    /\ DashboardHears

\* Under a popup no tab can take a fix, and an indicator shown there is one
\* that the popup has covered.
SpinnerInv ==
    /\ over \in Popups => delegate \notin {"weather", "places"}
    /\ over \in Popups /\ spinner => stolen
    /\ spinner => tab = "weather"
    /\ delegate = "places" => over = "places"
    /\ SpinnerHasWaiter

Inv == TypeOK /\ AllowedUpdatesRun /\ SlotInv /\ SpinnerInv

\* The invariant holds at launch.
LEMMA InvInit == Init => Inv
<1> SUFFICES ASSUME Init PROVE Inv
  OBVIOUS
<1>1. /\ prompt \in BOOLEAN /\ updating \in BOOLEAN /\ missed \in BOOLEAN
      /\ spinner \in BOOLEAN /\ covered \in BOOLEAN /\ stolen \in BOOLEAN
      /\ ~spinner
  BY Zenon DEF Init
<1>2. AllowedUpdatesRun
  BY Zenon DEF Init, AllowedUpdatesRun
<1>3. TypeOK
  BY <1>1, CallsAssumption DEF Init, TypeOK, Statuses
<1>4. QED
  BY <1>1, <1>2, <1>3 DEF Init, Inv, SlotInv, SpinnerInv, SpinnerHasWaiter,
                          Popups, DashboardHears

\* No indicator is left, and none under a sheet.
LEMMA Removed ==
    ASSUME removeActivityIndicator
    PROVE  /\ spinner' \in BOOLEAN /\ stolen' \in BOOLEAN
           /\ ~spinner' /\ ~stolen'
BY Zenon DEF removeActivityIndicator

\* A search shows the indicator and is in flight, or takes it away.
LEMMA Searched ==
    ASSUME TypeOK, NEW online \in BOOLEAN, searchNearbyPlaceByKeyword(online)
    PROVE  /\ spinner' \in BOOLEAN /\ stolen' \in BOOLEAN
           /\ placeCalls' \in 0 .. MaxCalls
           /\ \/ spinner' /\ placeCalls' > 0 /\ stolen' = stolen
              \/ ~spinner' /\ placeCalls' = placeCalls
<1>1. CASE online
  <2>1. spinner' \in BOOLEAN /\ spinner' /\ stolen' \in BOOLEAN
    BY <1>1, Zenon DEF searchNearbyPlaceByKeyword, TypeOK
  <2>2. QED
    BY <1>1, <2>1, CallsAssumption DEF searchNearbyPlaceByKeyword, TypeOK
<1>2. CASE ~online
  BY <1>2, Removed DEF searchNearbyPlaceByKeyword, TypeOK
<1>3. QED
  BY <1>1, <1>2

\* What startUpdatingLocation does to the manager's own variables.
LEMMA StartUpdating ==
    ASSUME TypeOK, AllowedUpdatesRun, NEW shows \in BOOLEAN,
           startUpdatingLocation(shows)
    PROVE  /\ services' = services /\ auth' = auth
           /\ prompt' \in BOOLEAN /\ updating' \in BOOLEAN
           /\ spinner' \in BOOLEAN /\ stolen' \in BOOLEAN
           /\ missed' \in BOOLEAN
           /\ spinner' => spinner \/ shows
           /\ spinner' /\ stolen /\ ~shows => stolen'
           /\ AllowedUpdatesRun'
BY DEF startUpdatingLocation, TypeOK, AllowedUpdatesRun

\* The same of a tab that appears.
LEMMA TabAppears ==
    ASSUME TypeOK, AllowedUpdatesRun,
           NEW t \in {"dashboard", "weather", "other"}, viewWillAppear(t)
    PROVE  /\ services' = services /\ auth' = auth
           /\ prompt' \in BOOLEAN /\ updating' \in BOOLEAN
           /\ spinner' \in BOOLEAN /\ stolen' \in BOOLEAN
           /\ missed' \in BOOLEAN /\ covered' \in BOOLEAN
           /\ t # "weather" => spinner' = spinner /\ stolen' = stolen
           /\ delegate' = IF t = "other" THEN delegate ELSE t
           /\ covered' = (covered /\ t # "dashboard")
           /\ AllowedUpdatesRun'
<1>1. CASE t = "weather"
  BY <1>1, StartUpdating DEF viewWillAppear, TypeOK
<1>2. CASE t # "weather"
  BY <1>2 DEF viewWillAppear, TypeOK, AllowedUpdatesRun, phone
<1>3. QED
  BY <1>1, <1>2

\* Every step of the manager, the screens and the calls keeps the invariant.
LEMMA InvStep == ASSUME Inv, [Next]_vars PROVE Inv'
<1> USE CallsAssumption DEF Inv, Popups, screen, calls, phone, DashboardHears
<1>1. ASSUME NEW status \in {"whenInUse", "always", "denied"},
             UserDecides(status)
      PROVE  Inv'
  <2>1. /\ updating' \in BOOLEAN
        /\ status = "whenInUse" => updating'
    <3>0. updating' = CASE status = "whenInUse" -> TRUE
                        [] status = "denied" -> FALSE
                        [] OTHER -> updating
      BY <1>1 DEF UserDecides, didChangeAuthorization
    <3>1. CASE status = "whenInUse"
      BY <3>0, <3>1, Zenon
    <3>2. CASE status = "denied"
      BY <3>0, <3>2, Zenon
    <3>3. CASE status \notin {"whenInUse", "denied"}
      BY <3>0, <3>3, Zenon DEF TypeOK
    <3>4. QED
      BY <3>1, <3>2, <3>3, Zenon
  <2>2. prompt' \in BOOLEAN
    BY <1>1, Zenon DEF UserDecides
  <2>3. QED
    BY <1>1, <2>1, <2>2 DEF UserDecides, TypeOK, Statuses,
                            AllowedUpdatesRun, SlotInv, SpinnerInv,
                            SpinnerHasWaiter
<1>2. CASE UserTogglesServices
  BY <1>2 DEF UserTogglesServices, TypeOK, AllowedUpdatesRun, SlotInv,
              SpinnerInv, SpinnerHasWaiter
<1>3. ASSUME NEW t \in {"dashboard", "weather", "other"}, selectTab(t)
      PROVE  Inv'
  BY <1>3, TabAppears DEF selectTab, CanTap, TypeOK, SlotInv, SpinnerInv,
                          SpinnerHasWaiter
<1>4. CASE btnRedirectToPlacesScreenPressed
  BY <1>4, StartUpdating DEF btnRedirectToPlacesScreenPressed, CanTap, TypeOK,
                             SlotInv, SpinnerInv, SpinnerHasWaiter
<1>5. CASE placesBackPressed
  BY <1>5, TabAppears DEF placesBackPressed, CanTap, TypeOK, SlotInv,
                          SpinnerInv, SpinnerHasWaiter
<1>6. ASSUME NEW online \in BOOLEAN, btnCategoryChangePressed(online)
      PROVE  Inv'
  BY <1>6, Searched
  DEF btnCategoryChangePressed, CanTap, TypeOK, AllowedUpdatesRun, SlotInv,
              SpinnerInv, SpinnerHasWaiter
<1>7. ASSUME NEW online \in BOOLEAN, tracingLocationWeather(online)
      PROVE  Inv'
  BY <1>7, Removed DEF tracingLocationWeather, TypeOK,
              AllowedUpdatesRun, SlotInv, SpinnerInv, SpinnerHasWaiter
<1>8. ASSUME NEW online \in BOOLEAN, tracingLocationPlaces(online)
      PROVE  Inv'
  BY <1>8, Searched DEF tracingLocationPlaces, TypeOK, AllowedUpdatesRun, SlotInv,
              SpinnerInv, SpinnerHasWaiter
<1>9. CASE weatherAnswers
  BY <1>9, Removed DEF weatherAnswers, TypeOK,
              AllowedUpdatesRun, SlotInv, SpinnerInv, SpinnerHasWaiter
<1>10. CASE placesAnswer
  BY <1>10, Removed DEF placesAnswer, TypeOK,
               AllowedUpdatesRun, SlotInv, SpinnerInv, SpinnerHasWaiter
<1>11. CASE otherCallEnds
  <2>1. other' \in BOOLEAN
    BY <1>11, Zenon DEF otherCallEnds
  <2>2. QED
    BY <1>11, <2>1, Removed DEF otherCallEnds, TypeOK, AllowedUpdatesRun,
                                SlotInv, SpinnerInv, SpinnerHasWaiter
<1>12. CASE openBottomSheet
  BY <1>12 DEF openBottomSheet, TypeOK, AllowedUpdatesRun, SlotInv,
               SpinnerInv, SpinnerHasWaiter
<1>13. CASE closeSheet
  <2>1. CASE role = "provider"
    BY <1>13, <2>1, TabAppears DEF closeSheet, TypeOK, SlotInv, SpinnerInv,
                                   SpinnerHasWaiter
  <2>2. CASE role # "provider"
    BY <1>13, <2>2 DEF closeSheet, TypeOK, AllowedUpdatesRun, SlotInv,
                       SpinnerInv, SpinnerHasWaiter
  <2>3. QED
    BY <2>1, <2>2
<1>14. CASE openForm
  BY <1>14 DEF openForm, TypeOK, AllowedUpdatesRun, SlotInv, SpinnerInv,
               SpinnerHasWaiter
<1>15. CASE closeForm
  BY <1>15 DEF closeForm, TypeOK, AllowedUpdatesRun, SlotInv, SpinnerInv,
               SpinnerHasWaiter
<1>16. ASSUME NEW appears \in BOOLEAN, startTrip(appears)
       PROVE  Inv'
  <2>1. CASE role = "provider"
    BY <1>16, <2>1, StartUpdating DEF startTrip, TypeOK, SlotInv, SpinnerInv,
                                      SpinnerHasWaiter
  <2>2. CASE role # "provider"
    BY <1>16, <2>2 DEF startTrip, TypeOK, AllowedUpdatesRun, SlotInv,
                       SpinnerInv, SpinnerHasWaiter
  <2>3. QED
    BY <2>1, <2>2
<1>17. CASE leaveTrip
  <2>1. CASE role = "provider"
    BY <1>17, <2>1, TabAppears DEF leaveTrip, CanTap, TypeOK, SlotInv,
                                   SpinnerInv, SpinnerHasWaiter
  <2>2. CASE role # "provider"
    BY <1>17, <2>2 DEF leaveTrip, CanTap, TypeOK, AllowedUpdatesRun, SlotInv,
                       SpinnerInv, SpinnerHasWaiter
  <2>3. QED
    BY <2>1, <2>2
<1>18. CASE signInAgain
  BY <1>18, StartUpdating DEF signInAgain, CanTap, TypeOK, SlotInv,
                              SpinnerInv, SpinnerHasWaiter
<1>19. CASE UNCHANGED vars
  BY <1>19 DEF vars, TypeOK, AllowedUpdatesRun, SlotInv, SpinnerInv,
               SpinnerHasWaiter
<1>20. QED
  BY <1>1, <1>2, <1>3, <1>4, <1>5, <1>6, <1>7, <1>8, <1>9, <1>10, <1>11,
     <1>12, <1>13, <1>14, <1>15, <1>16, <1>17, <1>18, <1>19
  DEF Next, Fix, Answer

\* So it holds in every behaviour.
LEMMA InvAlways == Spec => []Inv
BY InvInit, InvStep, PTL DEF Spec

\* Every variable keeps its type; the calls in flight stay within their bound
\* and the nearby places are only ever shown over the weather tab.
THEOREM TypeCorrect == Spec => []TypeOK
<1>1. Inv => TypeOK
  BY DEF Inv
<1>2. QED
  BY <1>1, InvAlways, PTL

\* Updates that are allowed while the app is used run, unless
\* startUpdatingLocation once found the location services off.
THEOREM AllowedRun == Spec => []AllowedUpdatesRun
<1>1. Inv => AllowedUpdatesRun
  BY DEF Inv
<1>2. QED
  BY <1>1, InvAlways, PTL

\* The slot comes back to a dashboard in front, over every order of tabs,
\* places, sheets, forms, trips and sign-ins; only the client's dashboard loses
\* it, to a sheet that was shown over it.
THEOREM SlotComesBack == Spec => []DashboardHears
<1>1. Inv => DashboardHears
  BY DEF Inv, SlotInv
<1>2. QED
  BY <1>1, InvAlways, PTL

\* An indicator over the window belongs to a call in flight or to the screen
\* that holds the slot, unless a sheet has opened over it.
THEOREM IndicatorIsOwned == Spec => []SpinnerHasWaiter
<1>1. Inv => SpinnerHasWaiter
  BY DEF Inv, SpinnerInv
<1>2. QED
  BY <1>1, InvAlways, PTL
=============================================================================
