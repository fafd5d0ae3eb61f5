------------------------------ MODULE Location ------------------------------
(***************************************************************************)
(* ClientProviderLocationManager: one location manager and one delegate    *)
(* slot for every screen that wants a position.  The dashboards, the two   *)
(* sheets, the cancellation form and the provider's trip screen take the   *)
(* slot; the weather tab and the nearby places take it behind an activity  *)
(* indicator that covers the window, and give it up with the first fix.    *)
(*                                                                         *)
(* A popup that goes makes the screen under it appear again: the           *)
(* provider's tab takes the slot back, the client's dashboard does not.    *)
(*                                                                         *)
(* History variables: `covered' once a sheet has been shown over the       *)
(* dashboard since the dashboard last took the slot, `stolen' while an     *)
(* indicator is shown under a sheet that has opened over it, `missed' once *)
(* startUpdatingLocation was called with location services off.            *)
(***************************************************************************)
EXTENDS Integers

CONSTANT MaxCalls   \* bound: weather (and place) calls in flight

ASSUME CallsAssumption == MaxCalls \in Nat \ {0}

VARIABLES
    role,                       \* which of the two apps is in use
    services, auth, prompt,     \* iOS: location services, permission, prompt
    updating,                   \* CLLocationManager delivers fixes
    delegate,                   \* the slot
    tab, over,                  \* the tab shown, and what is shown over it
    spinner,                    \* the activity indicator
    weatherCalls, placeCalls,   \* calls in flight
    other,                      \* a call of another screen is in flight
    covered, stolen, missed

phone  == <<services, auth, prompt, updating>>
screen == <<tab, over>>
calls  == <<weatherCalls, placeCalls, other>>
vars   == <<role, phone, delegate, screen, spinner, calls, covered, stolen,
            missed>>

-----------------------------------------------------------------------------
Statuses == {"notDetermined", "whenInUse", "always", "denied"}

TypeOK ==
    /\ role \in {"client", "provider"} /\ services \in BOOLEAN
    /\ auth \in Statuses /\ prompt \in BOOLEAN /\ updating \in BOOLEAN
    /\ delegate \in {"none", "dashboard", "weather", "places", "sheet",
                     "form", "trip"}
    /\ tab \in {"dashboard", "weather", "other"}
    /\ over \in {"none", "places", "sheet", "form", "trip"}
    /\ over = "places" => tab = "weather"
    /\ spinner \in BOOLEAN /\ other \in BOOLEAN
    /\ weatherCalls \in 0 .. MaxCalls /\ placeCalls \in 0 .. MaxCalls
    /\ covered \in BOOLEAN /\ stolen \in BOOLEAN /\ missed \in BOOLEAN

\* The manager's init asks for a permission that was never decided; the
\* dashboard has taken the slot and called startUpdatingLocation.
Init ==
    /\ role \in {"client", "provider"} /\ services \in BOOLEAN
    /\ auth \in Statuses /\ prompt = (auth = "notDetermined")
    /\ updating = (services /\ auth = "whenInUse")
    /\ delegate = "dashboard" /\ tab = "dashboard" /\ over = "none"
    /\ spinner = FALSE /\ weatherCalls = 0 /\ placeCalls = 0
    /\ other \in BOOLEAN
    /\ covered = FALSE /\ stolen = FALSE /\ missed = ~services

-----------------------------------------------------------------------------
(***************************************************************************)
(* The manager                                                             *)
(***************************************************************************)

removeActivityIndicator == spinner' = FALSE /\ stolen' = FALSE

\* startUpdatingLocation, after the caller has shown (or not) the indicator:
\* only a refused permission takes it away, and a permission for always
\* starts nothing.  Whoever shows the indicator waits for it from now on.
startUpdatingLocation(shows) ==
    /\ updating' = (updating \/ (services /\ auth = "whenInUse"))
    /\ prompt' = (prompt \/ (services /\ auth = "notDetermined"))
    /\ spinner' = ((spinner \/ shows) /\ ~(services /\ auth = "denied"))
    /\ stolen' = (stolen /\ spinner' /\ ~shows)
    /\ missed' = (missed \/ ~services)
    /\ UNCHANGED <<services, auth>>

\* locationManager(didChangeAuthorization): an indicator that waits for a fix
\* is not taken away by a refusal.
didChangeAuthorization(status) ==
    updating' = CASE status = "whenInUse" -> TRUE
                  [] status = "denied" -> FALSE
                  [] OTHER -> updating

\* The user answers the prompt, or decides otherwise in the settings.
UserDecides(status) ==
    /\ IF auth = "notDetermined" THEN prompt ELSE status # auth
    /\ auth' = status /\ prompt' = FALSE
    /\ didChangeAuthorization(status)
    /\ UNCHANGED <<role, services, delegate, screen, spinner, calls, covered,
                   stolen, missed>>

UserTogglesServices ==
    /\ services' = ~services
    /\ UNCHANGED <<role, auth, prompt, updating, delegate, screen, spinner,
                   calls, covered, stolen, missed>>

Delivers == updating /\ services /\ auth \in {"whenInUse", "always"}

-----------------------------------------------------------------------------
(***************************************************************************)
(* The provider's tabs, the weather and the nearby places                  *)
(***************************************************************************)

\* The indicator covers the window: no tap while it is shown.
CanTap(place) == over = place /\ ~spinner

\* Mutant: the dashboard takes the slot when it is loaded, like the client's.
viewWillAppear_DashboardOnce(t) ==
    /\ IF t = "weather"
       THEN delegate' = "weather" /\ startUpdatingLocation(TRUE)
       ELSE UNCHANGED <<delegate, phone, spinner, stolen, missed>>
    /\ UNCHANGED covered

\* viewWillAppear of the tab's screen.
viewWillAppear(t) ==
    /\ IF t = "weather" THEN startUpdatingLocation(TRUE)
       ELSE UNCHANGED <<phone, spinner, stolen, missed>>
    /\ delegate' = IF t = "other" THEN delegate ELSE t
    /\ covered' = (covered /\ t # "dashboard")

selectTab(t) ==
    /\ role = "provider" /\ CanTap("none") /\ t # tab
    /\ tab' = t /\ viewWillAppear(t)
    /\ UNCHANGED <<role, over, calls>>

\* viewDidLoad of the nearby places, pushed from the weather tab.
btnRedirectToPlacesScreenPressed ==
    /\ CanTap("none") /\ tab = "weather"
    /\ over' = "places" /\ delegate' = "places"
    /\ startUpdatingLocation(TRUE)
    /\ UNCHANGED <<role, tab, calls, covered>>

placesBackPressed ==
    /\ CanTap("places")
    /\ over' = "none" /\ viewWillAppear(tab)
    /\ UNCHANGED <<role, tab, calls>>

\* Mutant: the permission is asked for again, and always is forgotten.
tracingLocationWeather_NotAlways(online) ==
    /\ auth = "whenInUse"
    /\ Delivers /\ delegate = "weather" /\ delegate' = "none"
    /\ IF online
       THEN /\ weatherCalls < MaxCalls /\ weatherCalls' = weatherCalls + 1
            /\ UNCHANGED <<spinner, stolen>>
       ELSE removeActivityIndicator /\ UNCHANGED weatherCalls
    /\ UNCHANGED <<role, phone, screen, placeCalls, other, covered, missed>>

\* tracingLocation of the weather tab.  Without internet a toast takes the
\* indicator away.
tracingLocationWeather(online) ==
    /\ Delivers /\ delegate = "weather" /\ delegate' = "none"
    /\ IF online
       THEN /\ weatherCalls < MaxCalls /\ weatherCalls' = weatherCalls + 1
            /\ UNCHANGED <<spinner, stolen>>
       ELSE removeActivityIndicator /\ UNCHANGED weatherCalls
    /\ UNCHANGED <<role, phone, screen, placeCalls, other, covered, missed>>

searchNearbyPlaceByKeyword(online) ==
    IF online
    THEN /\ placeCalls < MaxCalls /\ placeCalls' = placeCalls + 1
         /\ spinner' = TRUE /\ UNCHANGED stolen
    ELSE removeActivityIndicator /\ UNCHANGED placeCalls

tracingLocationPlaces(online) ==
    /\ Delivers /\ delegate = "places" /\ delegate' = "none"
    /\ searchNearbyPlaceByKeyword(online)
    /\ UNCHANGED <<role, phone, screen, weatherCalls, other, covered, missed>>

\* Another category; the position may still be missing.
btnCategoryChangePressed(online) ==
    /\ CanTap("places") /\ searchNearbyPlaceByKeyword(online)
    /\ UNCHANGED <<role, phone, screen, delegate, weatherCalls, other,
                   covered, missed>>

\* Mutant: the answer leaves the indicator.
weatherAnswers_KeepsIndicator ==
    /\ weatherCalls > 0 /\ weatherCalls' = weatherCalls - 1
    /\ UNCHANGED <<role, phone, delegate, screen, spinner, placeCalls, other,
                   covered, stolen, missed>>

\* getWeatherData ends, well or not.
weatherAnswers ==
    /\ weatherCalls > 0 /\ weatherCalls' = weatherCalls - 1
    /\ removeActivityIndicator
    /\ UNCHANGED <<role, phone, delegate, screen, placeCalls, other, covered,
                   missed>>

\* getNearbyPlaces ends, well or not.
placesAnswer ==
    /\ placeCalls > 0 /\ placeCalls' = placeCalls - 1
    /\ removeActivityIndicator
    /\ UNCHANGED <<role, phone, delegate, screen, weatherCalls, other,
                   covered, missed>>

\* A call of another screen ends, and takes the indicator away.
otherCallEnds ==
    /\ other /\ other' = FALSE
    /\ removeActivityIndicator
    /\ UNCHANGED <<role, phone, delegate, screen, weatherCalls, placeCalls,
                   covered, missed>>

-----------------------------------------------------------------------------
(***************************************************************************)
(* The sheets, the form and the trip screens                               *)
(***************************************************************************)

\* viewDidLoad of a sheet, whenever the route or the distance arrives, over
\* whatever tab is shown by then.
openBottomSheet ==
    /\ over = "none"
    /\ over' = "sheet" /\ delegate' = "sheet"
    /\ covered' = TRUE /\ stolen' = spinner
    /\ UNCHANGED <<role, phone, tab, spinner, calls, missed>>

\* The sheet is dismissed, and the popup's transition makes the screen that
\* presented it appear: on the provider the tab's viewWillAppear runs.  The
\* client's sheet may have stayed over the trip screen (see startTrip).
closeSheet ==
    /\ over = "sheet"
    /\ \/ /\ role = "provider"
          /\ over' = "none" /\ viewWillAppear(tab)
       \/ /\ role = "client"
          /\ over' \in {"none", "trip"}
          /\ UNCHANGED <<phone, delegate, spinner, covered, stolen, missed>>
    /\ UNCHANGED <<role, tab, calls>>

\* RequestCancelAlertViewController.viewDidLoad; on the provider's sheet a nil
\* date stands before it.
openForm ==
    /\ role = "client" /\ over = "sheet"
    /\ over' = "form" /\ delegate' = "form"
    /\ UNCHANGED <<role, phone, tab, spinner, calls, covered, stolen, missed>>

closeForm ==
    /\ over = "form" /\ over' \in {"sheet", "none", "trip"}
    /\ UNCHANGED <<role, phone, delegate, tab, spinner, calls, covered,
                   stolen, missed>>

\* The provider's trip screen takes the slot and starts updates; the sheet
\* that goes may then make the tab under both screens appear (UIKit decides),
\* which takes the slot again.  The client's trip screen takes no slot.
startTrip(appears) ==
    /\ over = "sheet" /\ over' = "trip"
    /\ IF role = "provider"
       THEN /\ delegate' = IF appears /\ tab # "other" THEN tab ELSE "trip"
            /\ covered' = (covered /\ ~(appears /\ tab = "dashboard"))
            /\ startUpdatingLocation(appears /\ tab = "weather")
       ELSE UNCHANGED <<phone, delegate, spinner, covered, stolen, missed>>
    /\ UNCHANGED <<role, tab, calls>>

leaveTrip ==
    /\ CanTap("trip") /\ over' = "none"
    /\ IF role = "provider" THEN viewWillAppear(tab)
       ELSE UNCHANGED <<phone, delegate, spinner, covered, stolen, missed>>
    /\ UNCHANGED <<role, tab, calls>>

\* The user logs out and in again, as either: viewDidLoad (and on the provider
\* viewWillAppear) of a new dashboard in the same process.
signInAgain ==
    /\ CanTap("none") \/ CanTap("trip")
    /\ role' \in {"client", "provider"}
    /\ tab' = "dashboard" /\ over' = "none"
    /\ delegate' = "dashboard" /\ covered' = FALSE
    /\ startUpdatingLocation(FALSE)
    /\ UNCHANGED calls

-----------------------------------------------------------------------------
Fix == \E online \in BOOLEAN :
           tracingLocationWeather(online) \/ tracingLocationPlaces(online)

Answer == weatherAnswers \/ placesAnswer

Next ==
    \/ \E status \in {"whenInUse", "always", "denied"} : UserDecides(status)
    \/ UserTogglesServices
    \/ \E t \in {"dashboard", "weather", "other"} : selectTab(t)
    \/ btnRedirectToPlacesScreenPressed \/ placesBackPressed
    \/ \E online \in BOOLEAN : btnCategoryChangePressed(online)
    \/ Fix \/ Answer \/ otherCallEnds
    \/ openBottomSheet \/ closeSheet \/ openForm \/ closeForm
    \/ \E appears \in BOOLEAN : startTrip(appears)
    \/ leaveTrip \/ signInAgain

Spec == Init /\ [][Next]_vars

\* A location manager that delivers delivers again, and every HTTP call ends.
\* What users and other screens do is not fair.
FairSpec == Spec /\ WF_vars(Fix) /\ WF_vars(Answer)

-----------------------------------------------------------------------------
(***************************************************************************)
(* Properties                                                              *)
(***************************************************************************)

\* Updates that the user allowed while the app is used do run, unless
\* startUpdatingLocation once found the services off: nothing calls it again
\* when they are switched on.
AllowedUpdatesRun == auth = "whenInUse" /\ ~updating => missed

\* Whoever shows the indicator is still being waited for: the screen under it
\* has the slot, or a call is in flight, unless a sheet has opened over the
\* indicator and taken the slot away.
SpinnerHasWaiter ==
    spinner /\ ~stolen => \/ weatherCalls + placeCalls > 0
                          \/ delegate = (IF over = "places" THEN over ELSE tab)

\* A dashboard in front hears of the position: the slot passes through the
\* weather, the places, sheets and the trip and comes back, and only a sheet
\* that was shown over the client's dashboard keeps it.
DashboardHears ==
    over = "none" /\ tab = "dashboard" /\ delegate # "dashboard" =>
    role = "client" /\ covered

\* The indicator goes away, unless no fix comes (updates not started, services
\* off) or a sheet has taken the slot from the screen that waits.
SpinnerEnds == spinner ~> (~spinner \/ ~updating \/ ~services \/ stolen)
=============================================================================
