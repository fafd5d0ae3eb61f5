---------------------------- MODULE ProviderFlow ----------------------------
(***************************************************************************)
(* What a provider may see of one trip after another, whatever the order   *)
(* in which messages, answers, timers and taps arrive: the abstract        *)
(* specification that ProviderApp implements.                              *)
(*                                                                         *)
(* A trip changes only under the dashboard, and only for a later one: the  *)
(* sheet, the code, the start and the end are all about the same trip, in  *)
(* this order, and only a launch that found a trip begins in the middle.   *)
(***************************************************************************)
EXTENDS Naturals

VARIABLES
    screen,     \* the screen in front of the provider
    trip,       \* the trip it is about, 0 if none
    found       \* the launch found an open trip

vars == <<screen, trip, found>>

\* The dashboard, with or without a request on offer.
Dashboards == {"dashboard", "offer"}

\* The screens of a trip: the client's sheet, and the trip screen before the
\* start, before the end and after it.
TripScreens == {"sheet", "start", "running", "rating"}

Init == screen = "splash" /\ trip = 0 /\ found = FALSE

\* The launch ends on the dashboard, or in a trip that has been started.
OpenDashboard == /\ screen = "splash" /\ screen' = "dashboard"
                 /\ found' \in BOOLEAN /\ UNCHANGED trip

RecoverTrip == /\ screen = "splash" /\ screen' = "running"
               /\ trip' \in Nat \ {0} /\ found' = TRUE

\* A request is offered, accepted, declined, withdrawn or timed out; or the
\* provider turns to another tab.
ChangeOffer == /\ screen \in Dashboards /\ screen' \in Dashboards
               /\ UNCHANGED <<trip, found>>

\* The server gives the provider a trip.
GiveTrip == /\ screen \in Dashboards /\ screen' = screen
            /\ trip' \in Nat /\ trip' > trip /\ UNCHANGED found

ShowSheet == /\ screen \in Dashboards /\ screen' = "sheet"
             /\ trip # 0 /\ UNCHANGED <<trip, found>>

\* The client's code has been entered.
EnterCode == /\ screen = "sheet" /\ screen' = "start"
             /\ found' = FALSE /\ UNCHANGED trip

StartTrip == /\ screen = "start" /\ screen' = "running"
             /\ UNCHANGED <<trip, found>>

EndTrip == /\ screen = "running" /\ screen' = "rating"
           /\ UNCHANGED <<trip, found>>

\* Cancelled, left or rated.
ReturnToDashboard == /\ screen \in TripScreens /\ screen' \in Dashboards
                     /\ UNCHANGED <<trip, found>>

Crash == /\ screen # "dead" /\ screen' = "dead"
         /\ trip' \in Nat /\ trip' >= trip /\ found' \in BOOLEAN

Launch == screen' = "splash" /\ trip' = 0 /\ found' = FALSE

Next == \/ OpenDashboard \/ RecoverTrip \/ ChangeOffer \/ GiveTrip
        \/ ShowSheet \/ EnterCode \/ StartTrip \/ EndTrip
        \/ ReturnToDashboard \/ Crash \/ Launch

Spec == Init /\ [][Next]_vars
=============================================================================
