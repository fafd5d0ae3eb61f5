----------------------------- MODULE ScreenFlow -----------------------------
(***************************************************************************)
(* What a client may see of one trip after another, whatever the order in  *)
(* which messages, answers, timers and taps arrive: the abstract           *)
(* specification that ClientApp implements.                                *)
(*                                                                         *)
(* A running trip is only ever reached through the provider's sheet, or    *)
(* from the dashboard when the launch found a trip; the sheet goes then or *)
(* is left up over the trip, but begins no other.  The rating form is only *)
(* reached from a running trip, and a launch or a login always passes the  *)
(* dashboard.  Sheets come in the order of their trips, and as long as the *)
(* trip that the launch found is remembered there is none of another.      *)
(***************************************************************************)
EXTENDS Naturals

VARIABLES
    screen,     \* the screen of the navigation stack in front
    sheet,      \* a provider's sheet is over it
    trip,       \* the trip whose sheet was shown last, 0 if none
    found       \* the trip that the launch found, 0 if none

vars == <<screen, sheet, trip, found>>

Screens == {"splash", "dashboard", "waiting", "trip", "rating", "dead"}

\* The dashboard, with or without the waiting overlay.
Dashboards == {"dashboard", "waiting"}

TypeOK == /\ screen \in Screens /\ sheet \in BOOLEAN
          /\ trip \in Nat /\ found \in Nat

Init == screen = "splash" /\ sheet = FALSE /\ trip = 0 /\ found = 0

\* A launch or a login ends on the dashboard; a trip can be found here only.
OpenDashboard == /\ screen = "splash" /\ screen' = "dashboard"
                 /\ found' \in Nat /\ UNCHANGED <<sheet, trip>>

\* A request is sent, cancelled or timed out, under a sheet or not, or the
\* trip screen is left, which no sheet may cover.
ReturnToDashboard == /\ \/ screen \in Dashboards
                        \/ screen \in {"trip", "rating"} /\ ~sheet
                     /\ screen' \in Dashboards
                     /\ UNCHANGED <<sheet, trip, found>>

\* The sheet of the trip that was found, or else of the same or a later trip.
ShowSheet == /\ screen \in Dashboards /\ ~sheet
             /\ screen' = "dashboard" /\ sheet'
             /\ trip' \in Nat \ {0} /\ trip' >= trip
             /\ found # 0 => trip' = found
             /\ UNCHANGED found

CloseSheet == sheet /\ ~sheet' /\ UNCHANGED <<screen, trip, found>>

\* From the sheet; the trip that the launch found is then forgotten or not.
BeginTrip == /\ screen \in Dashboards /\ sheet
             /\ screen' = "trip" /\ sheet' \in BOOLEAN
             /\ found' \in {found, 0} /\ UNCHANGED trip

RecoverTrip == /\ screen \in Dashboards /\ ~sheet /\ found # 0
               /\ screen' = "trip"
               /\ UNCHANGED <<sheet, trip, found>>

RateTrip == /\ screen = "trip" /\ screen' = "rating"
            /\ UNCHANGED <<sheet, trip, found>>

SignOut == /\ screen \in Dashboards /\ ~sheet
           /\ screen' = "splash"
           /\ UNCHANGED <<sheet, trip, found>>

Crash == /\ screen # "dead" /\ screen' = "dead"
         /\ found' \in {found, 0} /\ UNCHANGED <<sheet, trip>>

Launch == screen' = "splash" /\ sheet' = FALSE /\ trip' = 0 /\ found' = 0

Next == \/ OpenDashboard \/ ReturnToDashboard \/ ShowSheet \/ CloseSheet
        \/ BeginTrip \/ RecoverTrip \/ RateTrip \/ SignOut \/ Crash \/ Launch

Spec == Init /\ [][Next]_vars
=============================================================================
