# Weather Accommodation: a TLA+ model of the client and provider apps

The repository is an iOS application (`src/WAS.S/W.A.S`, about 11,000 lines of
Swift; everything under `Pods` is vendored). A *client* asks for a provider
nearby, a *provider* accepts, goes to the client, is told a one-time password,
starts and ends the trip, and both rate each other. One binary holds both apps.
The server, Firebase, Google's directions and UIKit are not in the repository.

There are no tests and no design documents; what the code intends is read from
its identifiers, its comments and its force-unwraps. A force-unwrap (`x!`,
`as! T`, an implicitly unwrapped `var x: T!`) is an assertion that ends the
process when it does not hold, and this code makes hundreds of them about state
that another screen, a timer, a late answer or another launch is supposed to
have set. That is what most of the properties here are about.

1. [Inventory](#1-inventory)
2. [Modules and how they correspond to the code](#2-modules-and-how-they-correspond-to-the-code)
3. [Runs, bounds and fairness](#3-runs-bounds-and-fairness)
4. [Proofs](#4-proofs)
5. [Where the code does not keep what it says](#5-where-the-code-does-not-keep-what-it-says)
6. [What is not modelled](#6-what-is-not-modelled)
7. [Plan](#7-plan)

Abbreviations of source files used below:

| | file under `src/WAS.S/W.A.S/` |
|---|---|
| CD | `App Screens/Client App/Dashboard Screen/ClientDashboardViewController.swift` |
| TPD | `App Screens/Client App/BottomSheet/TripProviderDetailViewController.swift` |
| CT | `App Screens/Client App/ClientTrip/ClientTripViewController.swift` |
| RCA | `App Screens/Client-Provider/RequestCancel/RequestCancelAlertViewController.swift` |
| PD | `App Screens/Provider App/Provider Dashboard/ProviderDadhboardViewController.swift` |
| TCD | `App Screens/Provider App/ProviderBottomSheet/TripClientDetailViewController.swift` |
| ST | `App Screens/Provider App/ProviderTrip/StartTripViewController.swift` |
| WSM | `Classes/Global/WebSocketManager.swift` |
| API | `App Screens/Client-Provider/ClientProviderAPIManager.swift` |
| HV, SI, SU, FP, VO, CP | the launch, sign-in, sign-up, forgotten-password, OTP and new-password screens under `App Screens/Client-Provider/` |
| PI, PPK | `ProviderIdentityViewController.swift`, `ProviderProductKitViewController.swift` |
| EE | `App Screens/Client App/Dashboard Screen/ExtraEquipmentViewController.swift` |
| WV, AC | `WalletViewController.swift`, `AddCardViewController.swift` under `App Screens/Client App/Wallet/` |
| LM | `App Screens/Client-Provider/ClientProviderLocationManager.swift` |
| WE, NP, TB | the provider's weather, nearby-places and tab-bar screens |
| UC, RDG, DE, AD | `UtilityClass.swift`, `RDGlobalFunction.swift`, `RDDataEngineClass.swift`, `AppDelegate.swift` |

## 1. Inventory

**The client's dashboard (CD).** State: the list of online providers, the
waiting overlay `viewDisable`, the 120 s timers that remove it, `currentRequest`,
the fetch of the provider list (once, at the first location fix). Operations:
send and cancel a request (REST), hear `trip_accepted` (socket), ask the distance
matrix, open the provider's sheet, show a trip found at launch.

**The provider's sheet (TPD, RCA) and the client's trip screen (CT).** State:
the request they were opened for; the clock, `tripStartDate`, `startTimer`,
`isTripEnded`. Operations: cancel with or without a fee, hear `reached`,
`trip_cancelled`, `Trip_Started`, `Trip_Ended`, go on when the app returns to the
foreground, rate. Correct when the screen the user sees is the one that hears the
socket, when a sheet is always about an accepted trip, and when the clock of an
ended trip stands still.

**The provider's dashboard (PD).** State: the online switch, the request on offer
with its 120 s ring, the request kept for a notification, the accepted trip, the
30 s location timer, whether a location fix has come. Operations: go on- and
offline, accept, decline, hear requests, cancellations and acceptances of others,
reconnect, compute a route, open the client's sheet, recover a trip. Correct when
an offer has a request and a ring behind it, when one location timer runs at
most, and when what is unwrapped has been set.

**The client's sheet (TCD) and the start/end screen (ST).** State: the trip,
`isTripStarted`, the rating form. Operations: cancel, enter the OTP, start and end
the trip by REST, leave. Correct when they act for the accepted trip and never
run ahead of the server.

**WebSocketManager (WSM).** A singleton with up to three sockets and *one*
`delegate`. Whoever assigned it last hears everything; the others hear nothing.
Nobody ever gives it back. The location manager has one delegate slot of the same
kind. These slots are the centre of both app models.

**Accounts (HV, SI, SU, FP, VO, CP) and provider onboarding (PI, PPK).** State:
four `UserDefaults` (user type, remembered flag, profile, verification id), the
stack of presented screens, the one activity indicator of the app (UC), the calls
in flight. Operations: the launch screen's choice or trip check, sign in and up,
forgotten and new password, OTP with resend, pictures, kit, log out. Correct when
no answer, however late, leaves a remembered user who cannot be launched, a
screen under the indicator for good, or a screen without the data it unwraps.

**API manager.** `getResponse`: offline it shows a toast and never calls back;
otherwise it calls back once, and on failure shows an alert and removes the
indicator. Also directions, distance matrix, places and weather.

**The roster of providers (CD, WSM).** State: two parallel arrays, the providers and
their markers; the common-data socket. Operations: one fetch of the list, pings
that add and remove. Correct when the arrays stay parallel, when a wrong entry has
a ping that was lost behind it, and when a cancellation reaches whoever was asked.

**Extra equipment (EE, CD, AD).** State: the form, the counts of the dashboard, the
running charge of the app delegate. Correct when the charge is the price of the
counts.

**The cancellation fee (TPD, TCD, RCA, ST).** State: the label with its one-second
timer, the alert or form that is open. Correct when the button does what the label
promises.

**Wallet (WV, AC, CD).** State: the card list, the table's rows, the selected card,
what `UserDefaults` remember of card, customer and number of cards, calls in
flight. Correct when the remembered card is on file with its customer, and a
deletion is answered for the row it was asked for.

**Location manager (LM) with weather, places and tabs (WE, NP, TB).** State: the
permission, whether updates run, the one delegate slot, the indicator. Correct when
allowed updates run, when the slot comes back to the dashboard, and when the
indicator has somebody waiting under it.

**Other parts**: profiles, trip lists, the provider's wallet, support, settings,
side bars. See section 6.

**How the parts interact.** Screens present each other; they share the app
delegate's flags (`doesRequestExist`, `clientExistingTrip`, `showRequestUI`),
`UserDefaults`, the two delegate slots and the indicator. Flags and slots outlive the
screens, and also a log-out: until the process ends, a dashboard of an earlier login can
still get an answer and act on them. The two phones interact
only through the server: REST answers, and messages on the request socket
(`clientproviderRequestSocket`, opened with both ids) and on the provider's
socket.

**What is hard.** Everything runs on the main thread, so handlers are atomic, but
between any two of them a message, a REST answer, a timer, a tap, a trip to the
background, a kill or a second request may come. The list of hazards, each at its
line with the properties that guard it, is `hazards` in `PROJECT.json`.

## 2. Modules and how they correspond to the code

| module | what it is |
|---|---|
| `ClientApp` | the client's phone: dashboard, provider's sheet, trip screen, request socket, launch and recovery |
| `ScreenFlow` | abstract specification: the screens a client may see in which order, and of which trip |
| `ClientAppProofs` | theorems about `ClientApp` |
| `ProviderApp` | the provider's phone: dashboard, client's sheet, start/end screen, both sockets, both delegate slots, notifications, launch and recovery |
| `ProviderFlow` | abstract specification: the trips a provider may see, one after another |
| `ProviderAppProofs` | theorems about `ProviderApp` |
| `TripSystem` | both phones and the server: what one phone writes is what the other hears |
| `TripLife` | abstract specification: the life of a trip and what the phones may show of it |
| `TripSystemProofs` | theorems about `TripSystem` |
| `Roster` | the online providers on the client's dashboard |
| `RosterProofs` | theorems about `Roster` |
| `Equipment` | the extra-equipment form, its charge and its counts |
| `FeeClock` | the cancellation fee on both sheets |
| `ChargeProofs` | theorems about what is charged: `Equipment` and `FeeClock` |
| `Wallet` | the client's cards |
| `WalletProofs` | theorems about `Wallet` |
| `Location` | the location manager, its slot, the tabs, weather and nearby places |
| `LocationProofs` | theorems about `Location` |
| `Session` | launch, accounts and onboarding: screen stack, `UserDefaults`, indicator, calls in flight |
| `SessionProofs` | theorems about `Session` |
| `MC...` | what TLC is run on; they extend the module they are named after and define at most a constant's value |

Every definition that stands for code is in `map` of `PROJECT.json` with its
lines. Definitions named `X_Something` directly above `X`, marked *Mutant*, are
faulty variants of `X` that no specification uses: each property of a passing run
is violated when one of them takes the place of the original.

Conventions common to the modules:

- One action is one handler run to completion, with everything it calls that
  changes state. A handler that starts a call ends there; the callback is an
  action of its own, and may find a different state.
- `fault` names the value whose force-unwrap failed. The process has ended then,
  and only `Relaunch` is enabled, which keeps what is on the server and in
  `UserDefaults` and resets the rest. In the smaller modules it is a Boolean; in
  `TripSystem` a fault is a relaunch; `FeeClock` ends with it.
- A property that the code keeps only under a condition names the condition with a
  *history variable* (`lapse`, `unheard`, `drift`, `upset`, `slept`, `stolen`,
  ...): it records that a certain event has happened and no action's guard reads
  it. Such a property says that there is no other way to the bad state.
- UIKit is external and taken as: `present` does nothing unless the presenter is
  on top and shows no alert; a dismissed screen object lives on as long as
  something refers to it and still executes its handlers; `dismiss` of an STPopup
  sheet goes to the popup's container (`UIViewController+STPopup.m`:74-82,
  `STPopupController.m`:300-314), so with an alert, the cancellation form or the camera
  over the sheet it removes only that; the popup's transition makes the screen that
  presented it appear (`STPopupController.m`:286, 898), and the provider's tab bar
  passes that on to the selected tab; where the outcome
  depends on UIKit's timing (does a presented dashboard load before the next
  line runs; does a dismissal with nothing to dismiss complete) both outcomes are
  allowed.
- Messages are records with a type and the number of a trip or request; what the
  code reads from their other fields is kept as a Boolean (`hasStart`: does the
  dictionary have `TripStartTime`). Requests are numbered in order, 0 is none.
- Nothing pending on a replaced or closed socket arrives.

**ClientApp.** The variables are named after the properties of the three view
controllers and of the app delegate. `boot` is how far the dashboard came
(`isFirst`, first location, provider list); `timers` counts pending one-shot
overlay timers, none of which the code invalidates; `wsDelegate` is the slot, with
`oldDash` for the dashboard of an earlier login in the same process, and `lateList` for
a list call of such a dashboard that has not been answered. (The side menu makes no
second dashboard: its push style, CD:415, brings the one that is there to the front,
`UISideMenuNavigationController.swift`:302-313. Logging out and in does.) `signOut` is
the Log Out alert: it closes the sockets and goes back to the launch screen, and keeps
the app delegate's flag and trip and the slot. `dismiss` is what the sheet's dismissal
can do: close it, or leave it up because something was over it; `pushTripFromSheet` may
so leave the sheet above the trip screen it pushes.
`tripVC.live` and `tripVC.leaked` tell a running timer that `timer` refers to from
one whose reference was overwritten. `rest` is the postRequest call in flight:
`posting` before and `posted` after the server took it, so that an acceptance can
overtake the answer. The server's part is one trip at a time with the messages of
its life, delivered in order while the socket is open, lost otherwise. The server
may still send `reached` for a trip whose cancellation is on its way (`up`).
`AcceptHasStartTime` says whether the server's live `trip_accepted` carries a
start time; it is part of the server's data format and the proofs leave it open.

**ProviderApp.** `currentRequest` distinguishes nil from the empty dictionary
`[:]` that `cancelRequest` leaves (id 0), since PD tests for nil only.
`requestView` is the offer on screen and `ring` its `UICircularTimerRing`;
`timerRef` says whether `timer` refers to a running Timer, and `timers` counts all
that run. `reqClient` remembers the ClientId in the URL of the request socket.
`provSocket` and `reqSocket` may end at any time with no error, with POSIX 57, or
with another error, which PD:456 distinguishes. The server takes the first
acceptance of an open request, repeats its answer to a repeated start or end, and
may let the client cancel, or another provider be faster, at any moment.
`closeSheet` is the popup's closing: the dashboard's `viewWillAppear` (PD:86-103) takes
the location slot and invalidates the timer when the dashboard is the selected tab. A
cancellation heard with something over the sheet does not close it.
`hasProviderReached` (PD:49) is left out: nothing that is modelled depends on it.

**Session.** `stack` is the stack of presented screens, `calls` a small pool of
calls, each with the depth `vc` of the screen that made it, or 0 once that screen
is gone, and `kind`, the user type of the API that was called (or of the profile
that was read before the call). The callbacks read the stored user type *when they
run*, as the code does. `spinner` is the depth of the screen the indicator covers:
it is a view in the window, under whatever is presented later. The OTP screen has three
names, after the screen that presents it: `verifyLogin`, `verify` (sign-up) and
`verifyForgot`; they differ in what has been stored before. The dashboard's
first call (its profile) is taken in the same step as its presentation. What the
dashboards do afterwards is in the other two modules; here they only end calls and
log out.

**TripSystem** composes the two phones. A phone is the record of the stage of the
trip it shows (which stands for the screen on top), the screen that holds its
delegate slot, and its end of the request socket; what `ClientApp` and
`ProviderApp` have besides (overlay timers, rings, notifications, background) does
not reach the other phone and is left out. Each screen hears what its `onMessage`
answers and drops the rest: the client's dashboard hears `trip_accepted`, its sheet
`reached` and `trip_cancelled`, the trip screen `Trip_Started` and `Trip_Ended`;
the provider's trip screen never takes the slot from the sheet. `otpShown` are the
trips whose code the client's sheet has shown. The server is external: it takes the
first acceptance, a cancellation before the start, and each start or end once,
answering a repeated one alike. The sockets are FIFO and end at any time. What outlives
a login is there too: `clientLogsOut` keeps `recovered` (`doesRequestExist`) and the trip
`found` at launch, `clientCheckIfTripExists` opens a trip that is still remembered
although the server no longer has it or was not asked, and `late` is a list that an
earlier dashboard still waits for. `ClientHears` and `ProviderHears` take `over`: a
dismissal that removes what is over the sheet and leaves the sheet, on the client also
above the trip screen (`left`). An offer may come between the tap on accept and the
connection of the socket, and is then what is accepted (`onConnect`). `lapse` is the
history of a phone; its causes are listed in the module's header.

**TripLife** is what the three promise together: the server moves one trip at a time
along its life, and a phone that shows a stage of a trip shows one this trip has
come to; it may lag, skip, or return to its dashboard, and never goes back inside
one trip. The refinement mapping maps stages to stages; a trip screen that a client
recovered is mapped to `reached`, since its clock starts before the trip does.

**Roster.** A provider is here, there or offline, and the client's position decides
who is reachable. `RemoveProvider` is the loop of CD:241, with the indices of a copy
used on two arrays that shrink; the copy's indices of a provider are enumerated in
increasing order. `snapshot` is the server's list at the moment it
answers, so pings can be older or newer than it. `signInAgain` puts a new dashboard in
place of the one of the login before, whose list call may still answer (`lateCall`).

**Equipment.** Next is one action: the loop charges row by row until a row is
refused (EE:89), and only a loop that ends reports the counts. `editing` is a
quantity not yet stored, because the field still has the focus. `waiting` stands for
a request sent with the charge and the counts. `ValueOf` is the price of quantities,
summed over the rows by a recursive function. `ChargeProofs` extends this module and
`FeeClock`, so `Init`, `Next` and `Spec` carry the module's name here.

**FeeClock.** Time is whole seconds since the acceptance; the 60s of
`stringFromTimeInterval` are constants. `SecondPasses` moves the time and makes the
timer due; `timerAction` runs when the app is not suspended, so between the two the
label is out of date. Both roles' `cancelRequest` are there, the provider's with its
unset `reachedDate`.

**Wallet.** `rows` is what the table shows, `cardList` what the code indexes: the
list is emptied when the screen appears, the table is not reloaded then. List calls
are answered by the server at one moment (`answered`) and arrive in any order. A
deletion keeps its row; the history field `moved` says that the list has changed
since.

**Location.** `startUpdatingLocation` and `didChangeAuthorization` are translated
with their case distinctions (a permission for always starts nothing, services off
start nothing). Screens are reduced to the tab in front and what is shown over it. A
provider's sheet that closes makes that tab appear (`closeSheet`).

**ScreenFlow** says what a client may ever see: a running trip is reached only
through the provider's sheet, or from the dashboard when the launch found a trip;
the rating form only from a running trip; a launch always passes the dashboard.
It also says of which trip: no sheet is about an earlier trip than the sheet before
it, and as long as the trip that the launch found is remembered, none is about
another. A sheet is a variable of its own: it lies over the dashboard, may go while the
overlay is shown under it, and may be left over the trip screen, which nobody can leave
as long as it is there. `ClientApp` implements it under the mapping `screen` (what is in
front, a sheet left aside), `sheet <- sheet.shown`, `trip <- sheet.request.id` (kept when
the sheet is left) and `found <- FoundTrip` (the trip found at launch while
`doesRequestExist`, else 0). The flag may outlive the trip and the login: only a sheet
that hears `Trip_Started` clears it. The abstract `found` allows both.

**ProviderFlow** says what a provider may ever see, and of which trip: the dashboard,
then a trip's sheet, its screen before the start, before the end and its rating form,
all of the same trip. From each the provider may be back on the dashboard; only there
the trip changes, and only for a later one; only a launch that found a trip enters in
the middle. The sheet of a trip may come up again after it was left: a second answer
to a route does that in the code. `ProviderApp` implements it with `screen <- Screen`
(what is on top, or that the process has ended), `trip <- TripShown` (the trip of the
sheet or of the trip screen, else the accepted one) and `found <- doesRequestExist`.

## 3. Runs, bounds and fairness

### Passing runs

Every module has a `TypeOK`. It is proved for every bound in all of them, so no run
repeats it. The inductive invariants of section 4
were checked by TLC on these instances before they were proved.

**client** (1,445,776 distinct states, `FairSpec`). Two trips, two messages in flight, one kill.
Two trips are what is needed for a timer, a sheet, a matrix answer or the
delegate slot of one request to meet the next one; two messages let `reached`
or `trip_cancelled` queue behind an acceptance; the kill reaches every recovery.
Log-outs are not bounded; of the lists they leave behind one is late at a time.
- `OverlayHasTimer`: the overlay is never shown without a pending timer, although
  timers of earlier requests fire into later ones.
- `VisibleScreenListens`: the sheet or trip screen in front holds the delegate slot,
  whatever order lists, late matrix answers and logins come in. Its two exceptions are
  what the code does: the late list of an earlier login's dashboard takes the slot from
  any screen (CD:513), and a sheet left above its trip screen has lost it to that screen.
- `SocketBeforeWrite`: wherever a cancellation can be written, the implicitly
  unwrapped socket exists.
- `SheetAfterAcceptance`: no sheet for the empty request or for one nobody
  accepted, although it opens for whatever `currentRequest` holds when the matrix
  answers.
- `ClockStopsAtEnd`: after `Trip_Ended` no timer of the trip screen runs, started
  in the foreground or the background. It speaks of the screen that is the trip's:
  the delegate, for the request that was last on the sheet. A trip screen that was
  popped may stay the delegate and start its clock for the next trip it hears of;
  once a third trip's sheet has taken the slot, that clock runs on, unseen. The
  exception stated in it is real: on a
  trip recovered while it was only accepted, `reached` pushes a trip screen that
  starts its clock at once (CT reads `doesRequestExist`, which nobody has
  cleared), `Trip_Started` starts a second one, and `Trip_Ended` stops only the
  second. `leaked` shows it in the model.
- `RefinesScreenFlow`: every behaviour is one of `ScreenFlow`: which screen follows
  which, and which trip the next sheet may be about, although the sheet opens for
  what the dashboard holds when a distance matrix answers, the dashboard of a second
  login opens the remembered trip again, and a sheet may stay over the trip screen.

- `OverlayCleared`: a client who keeps coming back to the app is not left under the
  overlay. Fairness: strong, for the overlay timer firing in the foreground. A
  run-loop timer fires at the latest when the app is back in the foreground with
  its date passed; it need not fire during any one visit, so weak fairness would
  not do, and nothing is assumed of the server, the provider, the user or the
  network.

**provider** (2,149,292 distinct states). Two requests, one message in flight per
socket and direction, no kill (but every fault is followed by a relaunch, which
reaches recovery). Two requests give replacement, withdrawal, and acceptance of
one while the other is offered.
- `RequestViewBacked`, `OneLocationTimer`, `PromptsHaveLocation`: what a handler
  will unwrap has been set, in every order of requests, cancellations, rings, tab changes,
  notifications, reconnections and recovery.
- `SheetListens`, `SheetOfAcceptedTrip`: the sheet on screen hears the
  cancellation and is about the accepted trip, also when a second request has
  replaced the offer. (Hearing it is not closing: with an alert over the sheet the
  cancellation closes the alert.)
- `TripScreenFollowsServer`: "End Trip" and the rating form appear only after the
  server has started and ended the trip, over failed, repeated and unanswered
  calls.
- `RefinesProviderFlow`: whatever is offered, accepted, computed and answered in
  between, the provider sees one trip at a time from its sheet to its rating form,
  and then only a later one.

**provider_live** (one request, one kill, `FairSpec`). `RequestViewExpires`: a
request does not stay on screen forever. Fairness: strong, for the ring in the
foreground; it is an animation with a fixed duration.

**session** (357,133 distinct states; depth 6, two calls in flight, `FairSpec`).
Depth 6 holds the longest chain (launch, sign in, sign up or forgotten, OTP,
identity or new password, kit or sign in); two calls make an answer late relative
to another.
- `SpinnerHasCall`: a screen under the indicator has a call in flight whose end
  removes it.
- `DashboardIsRemembered`: a dashboard belongs to a remembered user of the stored
  type.
- `ScreensHaveData`: the screens that unwrap the stored profile or the
  verification id appear only after these are stored. Of the three OTP screens it
  leaves out the profile of the one that a log-in opens: section 5.
- `ScreenIsFreed`: no screen stays under the indicator. Fairness: weak, per call:
  `URLSession` times out, and `getResponse` then calls back or shows an alert.
  Both properties about the indicator leave the kit screen out: its upload
  (PPK:160-165) shows the indicator and never removes it on success.

**trip** (884,706 distinct states; two trips, two messages in flight per direction, one
relaunch or log-out, `FairSpec`). Two trips let what is left of one (queue, slot, stage,
remembered trip) meet the next. Relaunches after a fault are not bounded, so with one
more a phone still finds a trip, logs out and opens it again, both phones recover the
same trip, and a late list meets a recovered sheet. The safety properties hold as well
with two (2,576,647 states), which is too much for the liveness property.
- `StartedTripWasShown`: a trip starts only when the client's phone has shown its
  code, though the code is compared on the provider's phone alone (TCD:165) and the
  start is a REST call without it.
- `DisagreementHasCause`: when nothing is on its way, a phone that shows a stage the
  trip is not in has had a lapse: a message lost, or dropped by the screen in the slot;
  a dismissal that removed only what was over the sheet; a sheet that was due and never
  opened; a dashboard that came up without asking the server in the middle of a trip,
  with a remembered trip, or behind an event of the trip. There is no other way to
  disagree.
- `RefinesTripLife`: the refinement.
- `PhonesCatchUp`: a client's screen that lags is put right, or its phone has had a
  lapse. Fairness: weak, for the delivery of what is in flight and for calls in
  flight, which time out. Nothing is owed by the users, and nothing keeps a socket
  open.

**roster** (694,424 distinct states; two providers, two pings in flight, a second
login). Two pings let a ping overtake the list and two pings of one provider
cross a request.
- `MarkersFollowProviders`: the removal by index from two arrays keeps them parallel
  and stays in range.
- `NoProviderTwice`: list and pings never enter a provider twice, which is what the
  removal relies on.
- `RosterErrorHasCause`: a provider is wrongly listed or absent only with a ping on
  its way or not heard by this dashboard, or after the client moved.
- `CancelReachesAsked`: whoever a request was sent to is still addressed by its
  cancellation, unless their leaving was heard.

**equipment** (889,542 distinct states; two kits with different prices, quantities
up to two, two presses of Next, a second login).
- `ChargedLessHasCause`, `ChargedMoreHasCause`: the charge differs from the price of
  the counts only after the three events named in them: a cancellation (CD:567 resets
  the charge alone), a refused Next (EE:89 has charged the rows above), logging out and
  in (the new dashboard has new counts, the app delegate the old charge).

**wallet** (1,347,162 distinct states; two cards, two list calls in flight). Two
cards are the least in which a deletion can hit the wrong row.
- `TableMatchesList`, `DeletionKnowsItsRow`: table, list and pending deletions agree
  over lists in any order, unless a list has arrived or the indicator was gone.
- `RememberedCardOnFile`, `CardHasCustomer`: what a request is charged to exists and
  comes with its customer, but for the events named.

**clock** (66,877 distinct states; a minute of three seconds, an hour of four
minutes, 20 seconds, `FairSpec`). An hour is passed, so the minutes start again; a
minute has a second that is neither its first nor its last.
- `FreeLabelHasCause`, `FreeCancelHasCause`, `ButtonKeepsPromise`: label, button and
  what is finally sent agree, but for a suspension through minute 1, an alert left
  open, and the second hour.
- `FeeIsAnnounced`: the label comes to say that there is a fee. Fairness: strong for
  the passing of time (it passes, whatever else happens), weak for the timer's
  action, which the run loop owes an app that is awake.

**location** (12,798 distinct states; two calls in flight, `FairSpec`).
- `DashboardHears`, `SpinnerHasWaiter`: as in the inventory, with the exceptions the
  code really has (a sheet over the client's dashboard, a sheet over the indicator).
- `SpinnerEnds`: the indicator goes away unless no fix can come or a sheet has taken
  the slot. Fairness: weak, for fixes of a manager that delivers and for HTTP calls.

### Deadlock

It is checked in every passing run but `clock`: some step is always possible, if
only the relaunch. `clock` ends with its last second or with the fault.

### Violation runs

`client_waiting` and `provider_accepts`: section 5.

## 4. Proofs

Eight modules hold theorems. Each is about `Spec` for every value of the constants;
the only assumptions are those the model declares (`ClientBounds`, `ProviderBounds`,
`SystemBounds`, `SessionBounds`, `WalletBounds`, `RosterBounds`, `EquipmentBounds`,
`CallsAssumption`, `ClockAssumption`: bounds are naturals, those of `Session`, `Wallet`
and `Location` at least 1, the providers a finite set of positive numbers, prices
positive and a quantity of one digit, a minute and an hour of positive length with at
least two minutes in an hour). Every safety invariant, action property and refinement
that a passing run checks is proved.

**ClientAppProofs.** `TypeCorrect`; `Inductive`: `Spec => []IndInv`; from it
`OverlayIsTimed` (`OverlayHasTimer`), `ScreenIsHeard` (`VisibleScreenListens`),
`SocketIsThere` (`SocketBeforeWrite`) and `SheetIsAccepted` (`SheetAfterAcceptance`);
`ClockIsStopped` (`ClockStopsAtEnd`); `Refinement`: `Spec => RefinesScreenFlow` for
`~AcceptHasStartTime`, that is, when only the trip found at launch carries a start time
(the abstract specifications state no fairness, so this is all of it). The assumption
is what tells a request that the launch found from one accepted since; the runs of this
module make it too.

None of the safety properties is inductive by itself.
`VisibleScreenListens` needs `NoScreenWhileLoading`: that the dashboard's own list can
arrive (and take the slot) only while nothing is shown over it, and that a dashboard
which still loads is not the delegate, shows no overlay and has no call in flight.
`SocketBeforeWrite` needs
`SocketBeforeTraffic`: a matrix call or a message in flight presupposes a socket,
because either can end in a sheet. `SheetAfterAcceptance` needs `NetAccepted` and
`KnownTripsAccepted`: every message in flight, the request of the dashboard
whenever a matrix call is in flight, and the trip found at launch belong to trips
that the server has seen accepted, and trips are only ever replaced by later ones
(`Accepted` is stable). `IndInv` is the conjunction; the proof has one lemma per
group of actions, and the refinement one more per group, from facts about which
screen is on top (`ScreenFacts`) before and after the step.

`ClockStopsAtEnd` rests on the order of messages (`MessagesInOrder`): none in flight
is older than the request the sheet or the dashboard holds, none tells more than the
server has done, and no start follows the start or the end of its trip. With it
`ClockOfTrip` is inductive: while a start is still to come (`StartPending`) the trip
screen has no clock and has heard no end, and it never has a clock that runs together
with one that waits for the foreground, so nothing can leak. (`ClockInv` is the
conjunction, `ClockHolds` the lemma.) The attempt showed that
the property needs to say whose screen it is: without `wsDelegate = "trip"` it fails
with three trips (section 3), which the instance with two could not show.

For the refinement, which screen is on top is not enough. That a sheet is never about
an earlier trip than the one before it is `SheetOrder` (a matrix call in flight is for
a request not older than the last sheet), which needs `MessagesInOrder`; that none
interrupts a trip found at launch is `FoundFirst`: while it is remembered it is not
earlier than the last sheet's, and it is the only request with a start time, without
which the sheet's `viewDidLoad` ends the process. That is what keeps an acceptance that
the dashboard hears, with the flag still set from a trip that is over, from opening
another trip's sheet. `FlowInv` is their conjunction.

**ProviderAppProofs.** `TypeCorrect`; `Inductive`; from it `RequestViewIsBacked`,
`TimerIsOne`, `PromptsAreLocated`, `SheetIsListening`, `SheetIsOfTrip` and
`TripScreenIsBehind`, the six invariants of the run `provider`. `Safe` adds to them:
a process before its dashboard has no screen, no route and no slot (`HomeIsEmpty`);
the dashboard as delegate implies a location fix (`DashIsLocated`, for the prompts);
a route asked for implies an accepted trip and a socket (`RouteOfAcceptedTrip`, for
the sheet); ids in flight are not 0 and name trips the server has (`FlightHasIds`);
the phone knows no trip later than the server's (`PhoneBehindServer`,
`RequestAfterTrip`); and a call of the trip screen that is answered has been taken by
the server (`AnswerFollowsServer`), which is what keeps the screen behind it over
repeated and late answers.

`FlowRefinement`: `Spec => RefinesProviderFlow`. `Safe` does not say why the trip on
screen cannot be exchanged for another; `FlowInv` does. The trip of the trip screen
is the accepted one, and the dashboard, which alone accepts another, does not hear
the socket under it (`TripScreenOfAccepted`). Acceptances on their way come in the
order of their trips and are later than the accepted one (`AcceptancesInOrder`, from
the server's order of requests), so that a trip is followed by later ones only. A
start call waits only under a screen not started, an end call under one not ended
(`CallOfScreen`), and a process before its dashboard knows no position and no trip
(`HomeIsNew`), so that a launch cannot end in a sheet. With it `TripShown` is
`currentAcceptedRequest` in every state (`ViewIs`), and each action is a step of the
flow (`LaunchFlows`, `DashboardFlows`, `SocketFlows`, `TripFlows`) or not seen
(`ViewSame`, `ServerFlows`).

**TripSystemProofs.** `TypeCorrect`; `StartIsShown`, `LifeRefinement`, `PhonesAgree`
and the two inductive invariants they need besides, `ViewsAreBacked`, `PhonesFollow`.

- `StartIsShown` (`StartedTripWasShown`). The invariant is not inductive:
  nothing in a started trip says how it was started. `StartInv` adds the provider's
  screen: "start" is shown only for a trip whose code was shown, a start is called
  only from there, and the sheet still holds the slot, so no message (a late
  acceptance, a cancellation) can move that screen on or put another trip into it
  while the call is in flight (`ProviderHearsStart`).
- `LifeRefinement`: `Spec => RefinesTripLife`. A phone's step is a step of `TripLife`
  only if the stage it goes to is one its trip has come to. `ViewInv` says so of every
  screen and every message: `Truthful` (an id is known, a start or an end happened)
  is stable under the server's moves (`TruthStays`), each queue is in the order of
  trips, and no acceptance can reach the dashboard behind a recovered trip screen
  (`RunningTripIsDeaf`), whose call would then be answered for another trip.
- `PhonesAgree` (`DisagreementHasCause`). `ClientFollows` and `ProviderFollows` hold
  as long as a phone has had no lapse: the last message queued for the client is
  current or closes the screen, whatever a phone is engaged in is still open or the
  message that closes it is queued, acceptances come once and are followed by the end
  of their trip, and a phone's own cancellation is under way only while the phone is
  off the trip. With empty queues that is agreement. Beside them the proof keeps what
  holds with or without a lapse: which stage, slot and socket go together, and that a
  slot lost to an earlier dashboard's list leaves a screen that hears nothing.

**SessionProofs.** `TypeCorrect`, `Inductive`, `SpinnerIsRemoved` (`SpinnerHasCall`),
`DashboardRemembered` (`DashboardIsRemembered`) and `DataBeforeScreens`
(`ScreensHaveData`), for a stack of any depth and any number of calls in flight. What
a screen has, it has from the call that presented it: `CallOK` says of every call in
flight what its callback will rely on (a chosen type, a profile already stored, the
launch screen still waiting), `ScreenOK` of every screen of the stack what it
unwraps, and `SpinnerOK` that the indicator over a screen has a call which removes
it, or covers a kit with no dashboard above. The stack is used through lemmas on what
pushing, popping and restating a screen keep (`StackPush`, `StackRestate`, ...).
`DataBeforeScreens` is about the profile of the identity, kit and new-password screens and
of the OTP screens of sign-up and forgotten password, and the verification id of every OTP
screen; the OTP screen that a log-in opens is excepted from the first half, since the code
breaks it there.

**RosterProofs.** `TypeCorrect`, `Inductive`, `MarkersAreParallel`
(`MarkersFollowProviders`), `ListedOnce` (`NoProviderTwice`), `ErrorsHaveCauses`
(`RosterErrorHasCause`) and `AskedAreReached` (`CancelReachesAsked`), for any finite
set of providers. What the loop of CD:241 does is proved first: with nobody listed
twice it has at most one index, so it removes that element and no other
(`RemoveNone`, `RemoveOne`). `NoProviderTwice` then needs what the queue says: pings
of one provider alternate between coming and leaving (`PingsAlternate`), the first one
is news to the dashboard (`FirstPingNews`), the last one is the truth
(`LastPingTells`), and the list on its way was the truth but for what is in the queue
(`AnswerInv`).

**WalletProofs.** `TypeCorrect`, `Inductive`, `TableIsList` (`TableMatchesList`),
`DeletionIsOfItsRow` (`DeletionKnowsItsRow`), `RememberedIsOnFile`
(`RememberedCardOnFile`) and `CustomerGoesAlong` (`CardHasCustomer`), for any number
of cards and of list calls. `ListsInv`: every list on its way, and the one shown, has
each card once and only cards the server has had. `DelsInv`: a deletion under which
the list has not moved is covered by the indicator. `FiledInv`, unless the wallet was
upset: one deletion at a time, every row but the one being deleted is on file, and so
is what is selected or remembered. The lemmas are per variable: what a step can do to
it at all, then that this keeps its part of the invariant.

**LocationProofs.** For every number of calls in flight:
`TypeCorrect`, `AllowedRun`, `SlotComesBack` (`DashboardHears`) and
`IndicatorIsOwned` (`SpinnerHasWaiter`). The last two speak of screens in front
only; `SlotInv` and `SpinnerInv` add what holds while a popup covers them: a popup
over a tab means `covered`, no tab can take a fix under it, and an indicator under
it is one that it covered.

**ChargeProofs, the fee.** For minutes and hours of any length, so for the code's 60 and
60, and for any length of time: `TypeCorrect`; `ClockCorrect`, that
`stringFromTimeInterval` loses nothing (`ClockIsLossless`); `FreeCancelIsEarly`;
`FreeLabelIsEarly`; and the
action property `PromiseIsKept` (`ButtonKeepsPromise`). `FreeInv` adds that an alert
that is open was opened in minute 0 and that a free cancellation closes the sheet
for good, so that no later press moves `asked`. `LabelInv` adds that a timer still
valid after minute 1 has slept through it, that an up-to-date free label is not in
minute 1, and that a charged one is past the first minute. The arithmetic rests on
`DivMod`, `MinuteZero` and `MinuteOne`; `MinuteOne` needs the second minute of the hour.

**ChargeProofs, the equipment.** For any number of rows, of visits and of
logins, at any prices: `EquipmentTypeCorrect`, `EquipmentInductive`, `ChargedLess`
(`ChargedLessHasCause`) and `ChargedMore` (`ChargedMoreHasCause`). The two invariants
are inductive once it is known what sums do, and that is the work: the recursive
function of `ValueOf` has a solution (`SumsAre`), raising one row by a quantity adds
its price (`ValueAdds`), and more of every row does not cost less (`ValueGrows`). Each
is an induction over the rows, put as a least counterexample (`RowInduction`). A Next
charges the rows above the one it refuses, so `NextCharges` compares the sum before
and after with `ChargedQuantities`; a refused one leaves the charge too high and
never too low.

Only model-checked: liveness (`OverlayCleared`, `RequestViewExpires`, `ScreenIsFreed`,
`PhonesCatchUp`, `FeeIsAnnounced`, `SpinnerEnds`), which needs ENABLED and is outside
what TLAPS is used for here.

## 5. Where the code does not keep what it says

Two runs end in a counterexample; `findings` quotes the lines.

| run | what happens |
|---|---|
| `client_waiting` | The dashboard takes the slot only with the provider list. After one sheet it is never the delegate again, so the acceptance of the next request of the session is dropped while the client waits. |
| `provider_accepts` | The acceptance is written when the socket connects, for the request of that moment (PD:451); the socket was opened for another one (PD:124). |

Five more invariants are stated in the modules and are violated in the same way when
they are given to the run of their module:

| invariant | what happens |
|---|---|
| `ClientApp!SheetIsPresented` | The dismissed sheet stays the socket's delegate. The client cancels while `reached` is on its way; the sheet casts its `presentingViewController`, which is gone (TPD:256). |
| `ClientApp!EndedTripHasStartDate` | On a recovered trip the sheet consumes `Trip_Started`; the trip screen it pushes never gets a start date. `Trip_Ended` in the background, then the foreground: CT:209 unwraps nil. |
| `ProviderApp!OfferHasPosition` | `cancelRequest` leaves `[:]`, not nil; the next location update unwraps its latitude (PD:425-426). |
| `ProviderApp!OnlineProviderListens` | After a sheet nothing gives the slot back to the dashboard: an online provider hears no requests. |
| `Session!RememberedUserHasProfile` | The answer of a login comes after the user has gone back and chosen the other type: flag, type and profile no longer agree, and the next launch fails a cast (HV:81, HV:100). |

The exceptions in the other properties are real behaviours too, each reached in its
run: a lost `reached` leaves the client on the sheet of a running trip; a provider
relaunched between acceptance and start never sees the sheet again; providers who
come between the list and the socket are not heard of; a refused Next charges rows
it does not report, and a cancellation forgets the charge of equipment that the next
request still asks for; a second visit to the wallet forgets the Stripe customer
(WV:27), deleting the default card in the first row reads the row before it
(WV:152), a row tapped before the list has come is beyond the list; an app suspended
through minute 1 promises a free cancellation until the next hour's minute 1; in
minute 0 of every hour a cancellation is free again; a sheet that opens over the
weather tab leaves the indicator with nobody to remove it.

More faults are reachable in the models without a run of their own: `latitude` (a
trip recovered as accepted opens the sheet before the first fix, PD:155),
`reachedDate` (cancelling from the client's sheet after a minute, TCD:77: the
method that sets the date is never called), `error` (a socket that ends without an
error while the dashboard listens, PD:458), `profile` (a login that is not verified
opens the OTP screen on a fresh installation, SI:200, whose resend and check read the
profile, VO:100), `navigationController` (the late list of an earlier login's dashboard
finds a started trip remembered and pushes its screen from a dashboard that is no longer
in a navigation stack, CD:93), `IsProviderKYC` and the ids
(late answers in `Session`). A tap on a notification in the foreground sets a flag
that only the next return from the background looks at.

Losses that the models contain and no property forbids, since the code has nothing
against them: the matrix or route fails after an acceptance, and no sheet ever
opens; a message arrives before the request socket is open, or after it closed
(the client never reconnects); `trip_cancelled` or `reached` comes while the matrix
is pending; an overlay timer of the first request hides the overlay of the second;
a sheet stays up after the cancellation it heard, since an alert was over it (TPD:258,
TCD:232), and a trip screen begins under it; a trip that was found at launch and
cancelled comes back as a sheet after logging out and in (CD:84: nothing clears
`doesRequestExist`); the kept request is offered again on every return to the foreground;
without internet a remembered user stays on the splash.

## 6. What is not modelled

- The server: external sections that allow whatever the code can observe. In
  `ClientApp` and `ProviderApp` the other phone too; `TripSystem` has both.
- The ETA captions that CD:679's timer refreshes (nobody stops it), tips, selfies,
  the provider's reached flag, navigation to a maps app: nothing modelled depends on
  them.
- The forced log-out ("Your account has been logout.") while a sheet or a trip screen is
  shown; `Session` has it for the screens it models, and `Roster` has its effect on the
  sockets, which stay open.
- Another client on the same phone: `ClientApp`, `TripSystem`, `Roster` and `Wallet` log
  in again as the same one. The card that is remembered is kept over a log-out and is
  not the next client's; `Wallet` is about one.
- Field validation, the choice of pictures and sizes: user input for `Session`.
- Profiles, trip lists, the provider's wallet, support, settings, side bars:
  forms and read-only lists with one call each and no state shared with the rest.
- Drawing, fonts, pickers, the device-name table, vendored code.

## 7. Plan

Modelled and checked: every module of section 2. Proved: every safety property and
refinement the passing runs check. What a next step could add: `ClientApp` and
`ProviderApp` as implementations of the two phones of `TripSystem`, each with the
server's part that `TripSystem` gives it; and the wallet of the provider, once it
shares state with the rest.
