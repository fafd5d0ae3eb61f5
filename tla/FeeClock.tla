------------------------------ MODULE FeeClock ------------------------------
(***************************************************************************)
(* The cancellation fee of an accepted trip, on the client's sheet         *)
(* (TripProviderDetailViewController), the provider's sheet                *)
(* (TripClientDetailViewController) and the form they open                 *)
(* (RequestCancelAlertViewController).                                     *)
(*                                                                         *)
(* Two pieces of code decide whether a cancellation is still free:         *)
(* timerAction, once a second, for the label, and cancelRequest, when the  *)
(* button is pressed.  Both read the minutes of stringFromTimeInterval,    *)
(* which start again every hour; the first stops for good when it sees     *)
(* minute 1, and the app may be suspended while that minute passes.        *)
(*                                                                         *)
(* Time is whole seconds since the acceptance.  The code's 60 seconds and  *)
(* 60 minutes are constants, so that an hour fits into a small instance.   *)
(* History variables: `slept' once a whole minute 1 has passed without a   *)
(* tick of a timer that was valid, `asked' the time at which the last      *)
(* alert opened.                                                           *)
(***************************************************************************)
EXTENDS Integers

CONSTANTS
    SecondsPerMinute,   \* 60
    MinutesPerHour,     \* 60
    MaxTime             \* bound: seconds modelled

ASSUME ClockAssumption ==
    /\ SecondsPerMinute \in Nat \ {0}
    /\ MinutesPerHour \in Nat \ {0, 1}
    /\ MaxTime \in Nat

VARIABLES
    role,       \* whose sheet it is
    elapsed,    \* now - acceptedDate
    suspended,  \* iOS has suspended the app
    timer,      \* the sheet's timer is valid
    due,        \* its next firing is due
    label,      \* lblCancelCharges
    screen,     \* what is on top of the sheet
    reason,     \* the form's selected button
    sent,       \* CancellationReasonCode of the last trip_cancelled written
    slept, asked,
    fault       \* a force-unwrapped nil has stopped the app

vars == <<role, elapsed, suspended, timer, due, label, screen, reason, sent,
          slept, asked, fault>>

Hour   == SecondsPerMinute * MinutesPerHour
Times  == 0 .. MaxTime
Labels == [kind : {"none", "free", "charged"}, left : 0 .. SecondsPerMinute]

-----------------------------------------------------------------------------
(***************************************************************************)
(* stringFromTimeInterval                                                  *)
(***************************************************************************)

seconds(t) == t % SecondsPerMinute

minutes(t) == (t \div SecondsPerMinute) % MinutesPerHour

hours(t) == t \div Hour

\* Minute 1 of some hour, the one timerAction looks for.
FeeMinute(t) == minutes(t) = 1

-----------------------------------------------------------------------------
TypeOK ==
    /\ role \in {"client", "provider"} /\ elapsed \in Times
    /\ suspended \in BOOLEAN /\ timer \in BOOLEAN /\ due \in BOOLEAN
    /\ label \in Labels
    /\ screen \in {"sheet", "free", "call", "form", "closed"}
    /\ reason \in {"none", "NoShow", "NoReply"}
    /\ sent \in {"none", "NoReason", "NoShow", "NoReply"}
    /\ slept \in BOOLEAN /\ asked \in Times /\ fault \in BOOLEAN

\* Mutant: the timer is not scheduled.
viewDidLoad_NoTimer(t) ==
    /\ elapsed = t /\ slept = (t >= 2 * SecondsPerMinute)
    /\ timer = FALSE /\ due = FALSE /\ label = [kind |-> "none", left |-> 0]

\* viewDidLoad of the sheet: the acceptance is now, or, for a trip found at
\* launch, TripStartTime before now.
viewDidLoad(t) ==
    /\ elapsed = t /\ slept = (t >= 2 * SecondsPerMinute)
    /\ timer = TRUE /\ due = FALSE /\ label = [kind |-> "none", left |-> 0]

Init ==
    /\ role \in {"client", "provider"}
    /\ \E t \in Times : viewDidLoad(t)
    /\ suspended = FALSE /\ screen = "sheet" /\ reason = "none"
    /\ sent = "none" /\ asked = 0 /\ fault = FALSE

Awake == ~suspended /\ ~fault

-----------------------------------------------------------------------------
(***************************************************************************)
(* Time                                                                    *)
(***************************************************************************)

\* A running app takes a due tick before the next one is due; a suspended one
\* takes a single tick when it is resumed.
SecondPasses ==
    /\ elapsed < MaxTime /\ ~fault
    /\ due => suspended
    /\ elapsed' = elapsed + 1 /\ due' = timer
    /\ slept' = (slept \/ (timer /\ FeeMinute(elapsed) /\ ~FeeMinute(elapsed')))
    /\ UNCHANGED <<role, suspended, timer, label, screen, reason, sent, asked,
                   fault>>

suspend ==
    /\ Awake /\ suspended' = TRUE
    /\ UNCHANGED <<role, elapsed, timer, due, label, screen, reason, sent,
                   slept, asked, fault>>

resume ==
    /\ suspended /\ suspended' = FALSE
    /\ UNCHANGED <<role, elapsed, timer, due, label, screen, reason, sent,
                   slept, asked, fault>>

\* Mutant: the label changes a minute late.
timerAction_Late ==
    /\ Awake /\ timer /\ due /\ due' = FALSE
    /\ IF minutes(elapsed) = 2
       THEN timer' = FALSE /\ label' = [kind |-> "charged", left |-> 0]
       ELSE /\ label' = [kind |-> "free",
                         left |-> SecondsPerMinute - seconds(elapsed)]
            /\ UNCHANGED timer
    /\ UNCHANGED <<role, elapsed, suspended, screen, reason, sent, slept,
                   asked, fault>>

\* timerAction: the timer ends itself in minute 1; in any other minute the
\* label counts down the seconds of a free cancellation.
timerAction ==
    /\ Awake /\ timer /\ due /\ due' = FALSE
    /\ IF FeeMinute(elapsed)
       THEN timer' = FALSE /\ label' = [kind |-> "charged", left |-> 0]
       ELSE /\ label' = [kind |-> "free",
                         left |-> SecondsPerMinute - seconds(elapsed)]
            /\ UNCHANGED timer
    /\ UNCHANGED <<role, elapsed, suspended, screen, reason, sent, slept,
                   asked, fault>>

-----------------------------------------------------------------------------
(***************************************************************************)
(* Cancelling                                                              *)
(***************************************************************************)

\* Mutant: the last second of the minute is no longer free.
cancelRequest_OffByOne ==
    /\ Awake /\ screen = "sheet" /\ asked' = elapsed
    /\ \/ /\ elapsed % Hour < SecondsPerMinute - 1
          /\ screen' = "free" /\ UNCHANGED fault
       \/ /\ elapsed % Hour >= SecondsPerMinute - 1 /\ role = "client"
          /\ screen' = "call" /\ UNCHANGED fault
       \/ /\ elapsed % Hour >= SecondsPerMinute - 1 /\ role = "provider"
          /\ fault' = TRUE /\ UNCHANGED screen
    /\ UNCHANGED <<role, elapsed, suspended, timer, due, label, reason, sent,
                   slept>>

\* Mutant: the free alert is offered from minute 2 of the hour on.
cancelRequest_OnlyMinuteOne ==
    /\ Awake /\ screen = "sheet" /\ asked' = elapsed
    /\ \/ /\ ~FeeMinute(elapsed)
          /\ screen' = "free" /\ UNCHANGED fault
       \/ /\ FeeMinute(elapsed) /\ role = "client"
          /\ screen' = "call" /\ UNCHANGED fault
       \/ /\ FeeMinute(elapsed) /\ role = "provider"
          /\ fault' = TRUE /\ UNCHANGED screen
    /\ UNCHANGED <<role, elapsed, suspended, timer, due, label, reason, sent,
                   slept>>

\* cancelRequest: in minute 0 of the hour the alert of a free cancellation;
\* later the client is asked to call first, and the provider's sheet unwraps
\* reachedDate, which nothing sets (no one calls notifyWhenProviderHasReached).
cancelRequest ==
    /\ Awake /\ screen = "sheet" /\ asked' = elapsed
    /\ \/ /\ minutes(elapsed) = 0
          /\ screen' = "free" /\ UNCHANGED fault
       \/ /\ minutes(elapsed) >= 1 /\ role = "client"
          /\ screen' = "call" /\ UNCHANGED fault
       \/ /\ minutes(elapsed) >= 1 /\ role = "provider"
          /\ fault' = TRUE /\ UNCHANGED screen
    /\ UNCHANGED <<role, elapsed, suspended, timer, due, label, reason, sent,
                   slept>>

\* What the alerts and the form change.
Press(from, to, code) ==
    /\ Awake /\ screen = from /\ screen' = to /\ sent' = code
    /\ UNCHANGED <<role, elapsed, suspended, timer, due, label, slept, asked,
                   fault>>

\* YES on the free alert, however long it has been shown.
CancelRequest == Press("free", "closed", "NoReason") /\ UNCHANGED reason

\* NO on the free alert, Call on the other.
keepTrip ==
    \E alert \in {"free", "call"} : Press(alert, "sheet", sent) /\ UNCHANGED reason

\* Cancel on the second alert opens the form.
openForm == Press("call", "form", sent) /\ reason' = "none"

btnReasonPressed ==
    /\ Press("form", "form", sent)
    /\ reason' \in {"NoShow", "NoReply"} /\ reason' # reason

\* A touch beside the form, or its call button.
leaveForm == Press("form", "sheet", sent) /\ UNCHANGED reason

\* Submitting without a selection says NoReply.  The sheet under the form may
\* stay: the form, already dismissed, no longer knows who presented it.
btnSubmitPressed ==
    \E to \in {"sheet", "closed"} :
        /\ Press("form", to, IF reason = "NoShow" THEN "NoShow" ELSE "NoReply")
        /\ UNCHANGED reason

-----------------------------------------------------------------------------
Next ==
    \/ SecondPasses \/ suspend \/ resume \/ timerAction
    \/ cancelRequest \/ CancelRequest \/ keepTrip \/ openForm
    \/ btnReasonPressed \/ leaveForm \/ btnSubmitPressed

Spec == Init /\ [][Next]_vars

\* Time passes, however often the app is suspended and resumed (hence strong
\* fairness), and the run loop of an app that is not suspended fires its
\* timers.  The user's presses and iOS's suspensions are not fair.
FairSpec == Spec /\ SF_vars(SecondPasses) /\ WF_vars(timerAction)

-----------------------------------------------------------------------------
(***************************************************************************)
(* Properties                                                              *)
(***************************************************************************)

\* stringFromTimeInterval splits a time without losing or repeating any of
\* it: the three labels of the trip clocks say exactly the time passed.
ClockIsLossless ==
    /\ hours(elapsed) * Hour + minutes(elapsed) * SecondsPerMinute
           + seconds(elapsed) = elapsed
    /\ minutes(elapsed) < MinutesPerHour /\ seconds(elapsed) < SecondsPerMinute

\* The label promises a free cancellation after the first minute only when
\* the app slept through the whole minute that timerAction waits for (or
\* recovered the trip after it).
FreeLabelHasCause ==
    label.kind = "free" /\ ~due /\ elapsed >= SecondsPerMinute => slept

\* A cancellation without a reason comes from an alert that was opened in
\* minute 0 of an hour: in the first minute, perhaps answered much later, or
\* when the minutes of cancelRequest have started again.
FreeCancelHasCause ==
    sent = "NoReason" => asked < SecondsPerMinute \/ asked >= Hour

\* In the first hour, with a label that is up to date and an app that has not
\* slept through minute 1, the button does what the label says: the free
\* alert under a free label, never under a charged one.
ButtonKeepsPromise ==
    [][ screen = "sheet" /\ asked' = elapsed /\ (screen' # "sheet" \/ fault')
        /\ ~due /\ ~slept /\ label.kind # "none" /\ elapsed < Hour
        => (screen' = "free") = (label.kind = "free") ]_vars

\* The label comes to announce the fee, unless the app sleeps through minute 1
\* or the sheet's own cancellation stops it.
FeeIsAnnounced == <>(label.kind = "charged" \/ slept \/ fault)
=============================================================================
