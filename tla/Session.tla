------------------------------- MODULE Session -------------------------------
(***************************************************************************)
(* Accounts: the launch screen, sign in, sign up, forgotten password, OTP, *)
(* the provider's identity and product kit, the two dashboards and logging *)
(* out, over the UserDefaults they share, the one activity indicator of    *)
(* the app, and the calls whose answers come back to a screen that may be  *)
(* gone by then.                                                           *)
(*                                                                         *)
(* Screens are presented on top of each other.  UIKit refuses to present   *)
(* from a screen that is not on top, is dismissed, or shows an alert.  The *)
(* indicator is added to the window: it covers the screen that was on top  *)
(* when it was shown, and whatever is presented later lies over it.        *)
(*                                                                         *)
(* The server and Firebase are external: every call may succeed, be        *)
(* refused or fail.  Field contents and their validation are left out.     *)
(***************************************************************************)
EXTENDS Naturals, Sequences

CONSTANTS
    MaxDepth,   \* screens on top of each other
    MaxCalls    \* calls in flight

ASSUME SessionBounds == MaxDepth \in Nat \ {0} /\ MaxCalls \in Nat \ {0}

VARIABLES
    userType,   \* UserDefaults: userLoginTypeInAppDef
    active,     \* UserDefaults: iSUerActivated
    profile,    \* UserDefaults: whose userProfileInfoDef it is
    auth,       \* UserDefaults: authVerificationID
    fault,      \* the value a failed force-unwrap missed
    home,       \* the launch screen: "launching", "splash" or "choose"
    stack,      \* presented screens, the launch screen first
    alert,      \* the alert on top, and the screen it was raised for
    spinner,    \* depth of the screen the activity indicator covers, or 0
    calls       \* calls in flight

savedVars == <<userType, active, profile, auth>>
vars == <<savedVars, fault, home, stack, alert, spinner, calls>>

-----------------------------------------------------------------------------
Types    == {"client", "provider"}
Profiles == Types \cup {"none"}
\* The OTP screen, by what opened it: a log-in, a sign-up, a forgotten
\* password.
Verifies == {"verifyLogin", "verify", "verifyForgot"}
Names    == Types \cup Verifies \cup {"home", "signin", "signup", "forgot",
                                     "change", "identity", "kit"}
Faults   == {"none", "profile", "ClientId", "ProviderId", "IsProviderKYC",
             "launch"}

\* Calls of the API manager that run under the activity indicator.
RestOps   == {"login", "register", "forgot", "verifyUser", "reset",
              "identity", "kit", "kitSize", "saveKit", "profile"}
\* Firebase, the launch screen's call, and the two delays of one second.
OtherOps  == {"phoneLogin", "phoneRegister", "phoneForgot", "resend",
              "credential", "credentialForgot", "badCredential", "trip",
              "laterVerify", "laterSignin"}

\* st: the resend button of an OTP screen, the list of a kit screen.
Screens == [name : Names,
            st : {"none", "counting", "enabled", "used",
                  "empty", "noSizes", "sized"}]
Screen(name) ==
    [name |-> name,
     st |-> IF name \in Verifies THEN "counting"
            ELSE IF name = "kit" THEN "empty" ELSE "none"]

\* vc: depth of the calling screen, 0 once it is dismissed.  kind: whose API
\* it is, or whose profile was read before the call.
Slots == 1 .. MaxCalls
Idle  == [op |-> "idle", vc |-> 0, kind |-> "none"]
Calls == [op : RestOps \cup OtherOps \cup {"idle"}, vc : 0 .. MaxDepth,
          kind : Profiles]
NoAlert == [kind |-> "none", vc |-> 0]

Alive   == fault = "none"
Depth   == Len(stack)
TopName == stack[Depth].name
IdName(type) == IF type = "client" THEN "ClientId" ELSE "ProviderId"

TypeOK ==
    /\ userType \in Profiles /\ active \in BOOLEAN
    /\ profile \in Profiles /\ auth \in {"none", "valid", "empty"}
    /\ fault \in Faults
    /\ home \in {"launching", "splash", "choose"}
    /\ stack \in Seq(Screens) /\ Depth \in 1 .. MaxDepth
    /\ alert \in [kind : {"none", "error", "logout", "confirm"},
                  vc : 0 .. MaxDepth]
    /\ spinner \in 0 .. Depth
    /\ calls \in [Slots -> Calls]
    /\ \A i \in Slots : calls[i].vc <= Depth

\* A fresh installation.
Init ==
    /\ userType = "none" /\ active = FALSE /\ profile = "none"
    /\ auth = "none"
    /\ fault = "none" /\ home = "launching"
    /\ stack = <<Screen("home")>> /\ alert = NoAlert /\ spinner = 0
    /\ calls = [i \in Slots |-> Idle]

-----------------------------------------------------------------------------
(***************************************************************************)
(* Presenting, calling, failing                                            *)
(***************************************************************************)

\* The user can reach the controls of the screen on top.
UserAt(names) ==
    /\ Alive /\ alert = NoAlert /\ spinner # Depth
    /\ TopName \in names

Presents(vc) == vc = Depth /\ alert = NoAlert

\* present(): the bound MaxDepth is a guard of the whole handler.
present(vc, name) ==
    IF Presents(vc)
    THEN Depth < MaxDepth /\ stack' = Append(stack, Screen(name))
    ELSE UNCHANGED stack

\* getResponse without internet: a toast, no call and no callback.
Offline == spinner' = 0

\* showActivityIndicator and a call of the API manager, from a button.
request(op, kind) ==
    \/ /\ \E i \in Slots :
             /\ calls[i] = Idle /\ \A j \in 1 .. i - 1 : calls[j] # Idle
             /\ calls' = [calls EXCEPT ![i] = [op |-> op, vc |-> Depth,
                                               kind |-> kind]]
       /\ spinner' = Depth
    \/ Offline /\ UNCHANGED calls

\* A call without the indicator, from a button.
ask(op, kind) ==
    \E i \in Slots :
        /\ calls[i] = Idle /\ \A j \in 1 .. i - 1 : calls[j] # Idle
        /\ calls' = [calls EXCEPT ![i] = [op |-> op, vc |-> Depth,
                                          kind |-> kind]]

Done(i) == calls' = [calls EXCEPT ![i] = Idle]

\* The callback of call i goes on with another call.
Follow(i, op, vc, kind) ==
    calls' = [calls EXCEPT ![i] = [op |-> op, vc |-> vc, kind |-> kind]]

\* The same, under the indicator.
FollowRequest(i, op, vc, kind) ==
    \/ Follow(i, op, vc, kind) /\ spinner' = Len(stack')
    \/ Done(i) /\ Offline

\* moveForwardToClient/ProviderDashboardViewController from the callback of
\* call i, and the dashboard's viewDidLoad, which reads the id of the stored
\* profile and asks for the profile again.
moveForwardToDashboard(i, type, stored, otherwise) ==
    /\ present(calls[i].vc, type)
    /\ IF Presents(calls[i].vc)
       THEN IF stored = type
            THEN /\ FollowRequest(i, "profile", Depth + 1, type)
                 /\ UNCHANGED fault
            ELSE /\ fault' = IdName(type) /\ Done(i) /\ spinner' = otherwise
       ELSE Done(i) /\ spinner' = otherwise /\ UNCHANGED fault

\* ProviderProductKitViewController.viewDidLoad calls getKit; the callback
\* that presented it then removes the indicator, unless UIKit loads the view
\* later.
presentKit(i, vc) ==
    /\ present(vc, "kit")
    /\ IF Presents(vc)
       THEN \/ /\ Follow(i, "kit", Depth + 1, "provider")
               /\ spinner' \in {0, Depth + 1}
            \/ Done(i) /\ Offline
       ELSE Done(i) /\ spinner' = 0

\* showAlertWithMessage presents on the launch screen or on the screen it
\* presents: deeper, or over another alert, nothing appears.
showAlertWithMessage(kind, vc) ==
    alert' = IF Len(stack') <= 2 /\ alert = NoAlert
             THEN [kind |-> kind, vc |-> vc] ELSE alert

\* goBackToMainViewController: the window gets a new launch screen when the
\* dismissal completes.  With nothing to dismiss that is up to UIKit, and so
\* is whether the indicator stays over the new screen.
goBackToMainViewController(vc) ==
    \/ /\ stack' = <<Screen("home")>> /\ home' = "launching"
       /\ calls' = [i \in Slots |-> [calls[i] EXCEPT !.vc = 0]]
       /\ spinner' \in {0, IF spinner = 0 THEN 0 ELSE 1}
    \/ /\ vc = 0 \/ (vc = 1 /\ Depth = 1)
       /\ UNCHANGED <<stack, home, calls, spinner>>

-----------------------------------------------------------------------------
(***************************************************************************)
(* The launch screen                                                       *)
(***************************************************************************)

\* viewDidLoad: a remembered user goes to the trip check, which reads the id
\* of the stored profile; without internet the splash stays.
homeViewDidLoad ==
    /\ Alive /\ home = "launching"
    /\ IF active
       THEN /\ home' = "splash"
            /\ IF profile = userType
               THEN (ask("trip", userType) /\ UNCHANGED <<fault, spinner>>)
                    \/ (Offline /\ UNCHANGED <<fault, calls>>)
               ELSE fault' = "launch" /\ UNCHANGED <<calls, spinner>>
       ELSE home' = "choose" /\ UNCHANGED <<fault, calls, spinner>>
    /\ UNCHANGED <<savedVars, stack, alert>>

\* clientProviderButtonAction
clientProviderButtonAction(type) ==
    /\ UserAt({"home"}) /\ home = "choose"
    /\ userType' = type
    /\ present(1, "signin")
    /\ UNCHANGED <<active, profile, auth, fault, home, alert, spinner, calls>>

\* checkClientTripExist, checkProviderTripExist: the dashboard opens whatever
\* the answer is.
tripAnswers(i) ==
    /\ Alive /\ calls[i].op = "trip"
    /\ moveForwardToDashboard(i, calls[i].kind, profile, spinner)
    /\ UNCHANGED <<savedVars, home, alert>>

-----------------------------------------------------------------------------
(***************************************************************************)
(* The user                                                                *)
(***************************************************************************)
signInButtonAction ==
    /\ UserAt({"signin"}) /\ request("login", userType)
    /\ UNCHANGED <<savedVars, fault, home, stack, alert>>

\* forgotPasswordButtonAction, doNotHaveAnAccountButtonAction
openFromSignIn(name) ==
    /\ UserAt({"signin"}) /\ present(Depth, name)
    /\ UNCHANGED <<savedVars, fault, home, alert, spinner, calls>>

signupButtonAction ==
    /\ UserAt({"signup"}) /\ request("register", userType)
    /\ UNCHANGED <<savedVars, fault, home, stack, alert>>

sendButtonAction ==
    /\ UserAt({"forgot"}) /\ request("forgot", userType)
    /\ UNCHANGED <<savedVars, fault, home, stack, alert>>

\* The back button, or the swipe that dismisses a sheet.
backButtonAction ==
    /\ UserAt(Names \ (Types \cup {"home"}))
    /\ stack' = SubSeq(stack, 1, Depth - 1)
    /\ calls' = [i \in Slots |-> IF calls[i].vc = Depth
                                 THEN [calls[i] EXCEPT !.vc = 0] ELSE calls[i]]
    /\ UNCHANGED <<savedVars, fault, home, alert, spinner>>

\* verifyButtonAction reads the stored profile before Firebase answers.
verifyButtonAction ==
    /\ UserAt(Verifies)
    /\ IF profile = "none"
       THEN fault' = "profile" /\ UNCHANGED calls
       ELSE /\ ask(IF auth # "valid" THEN "badCredential"
                   ELSE IF TopName = "verifyForgot" THEN "credentialForgot"
                   ELSE "credential", profile)
            /\ UNCHANGED fault
    /\ UNCHANGED <<savedVars, home, stack, alert, spinner>>

\* timerAction after 99 seconds.
resendTimer(d) ==
    /\ Alive /\ d <= Depth /\ stack[d].st = "counting"
    /\ stack' = [stack EXCEPT ![d].st = "enabled"]
    /\ UNCHANGED <<savedVars, fault, home, alert, spinner, calls>>

btnResendPressed ==
    /\ UserAt(Verifies) /\ stack[Depth].st = "enabled"
    /\ IF profile = "none"
       THEN fault' = "profile" /\ UNCHANGED calls
       ELSE ask("resend", "none") /\ UNCHANGED fault
    /\ UNCHANGED <<savedVars, home, stack, alert, spinner>>

\* doneButtonAction of the new password.
doneButtonAction ==
    /\ UserAt({"change"})
    /\ IF profile = userType
       THEN request("reset", userType) /\ UNCHANGED fault
       ELSE /\ fault' = IF profile = "none" THEN "profile" ELSE IdName(userType)
            /\ UNCHANGED <<spinner, calls>>
    /\ UNCHANGED <<savedVars, home, stack, alert>>

\* uploadImages, once the three pictures are chosen.
uploadImages ==
    /\ UserAt({"identity"})
    /\ IF profile = "provider"
       THEN request("identity", "provider") /\ UNCHANGED fault
       ELSE /\ fault' = IF profile = "none" THEN "profile" ELSE "ProviderId"
            /\ UNCHANGED <<spinner, calls>>
    /\ UNCHANGED <<savedVars, home, stack, alert>>

\* btnNextPressed of the kit: an empty list passes the check of the sizes.
kitNextPressed ==
    /\ UserAt({"kit"})
    /\ \/ stack[Depth].st = "noSizes" /\ spinner' = 0 /\ UNCHANGED <<fault, calls>>
       \/ /\ stack[Depth].st # "noSizes"
          /\ IF profile = "provider"
             THEN request("saveKit", "provider") /\ UNCHANGED fault
             ELSE /\ fault' = IF profile = "none" THEN "profile"
                              ELSE "ProviderId"
                  /\ UNCHANGED <<spinner, calls>>
    /\ UNCHANGED <<savedVars, home, stack, alert>>

\* btnMorePressed, or the Log Out row of the side bar.
logoutPressed ==
    /\ UserAt(Types)
    /\ alert' = [kind |-> "confirm", vc |-> Depth]
    /\ UNCHANGED <<savedVars, fault, home, stack, spinner, calls>>

\* Mutant: the flag is cleared, the dashboard stays.
confirmLogout_Stays ==
    /\ Alive /\ alert.kind = "confirm"
    /\ active' = FALSE
    /\ alert' = NoAlert
    /\ UNCHANGED <<userType, profile, auth, fault, home, stack, spinner, calls>>

confirmLogout ==
    /\ Alive /\ alert.kind = "confirm"
    /\ active' = FALSE
    /\ alert' = NoAlert
    /\ goBackToMainViewController(alert.vc)
    /\ UNCHANGED <<userType, profile, auth, fault>>

\* OK of an error, NO of the question, or OK of "Your account has been
\* logout.", which goes back to the launch screen of a user still active.
closeAlert ==
    /\ Alive /\ alert # NoAlert
    /\ alert' = NoAlert
    /\ IF alert.kind = "logout"
       THEN goBackToMainViewController(alert.vc)
       ELSE UNCHANGED <<home, stack, spinner, calls>>
    /\ UNCHANGED <<savedVars, fault>>

-----------------------------------------------------------------------------
(***************************************************************************)
(* Answers                                                                 *)
(***************************************************************************)

\* The callback of callingLoginWS: what it does depends on the type stored
\* now, and the profile on the API that was called.
loginAnswers(i) ==
    /\ Alive /\ calls[i].op = "login"
    /\ \/ /\ profile' = calls[i].kind
          /\ IF userType = "client"
             THEN /\ active' = TRUE
                  /\ moveForwardToDashboard(i, "client", calls[i].kind, 0)
             ELSE IF calls[i].kind = "client"
             THEN /\ fault' = "IsProviderKYC" /\ Done(i)
                  /\ UNCHANGED <<active, stack, spinner>>
             ELSE \/ /\ present(calls[i].vc, "identity")
                     /\ Done(i) /\ spinner' = 0 /\ UNCHANGED <<active, fault>>
                  \/ /\ presentKit(i, calls[i].vc)
                     /\ UNCHANGED <<active, fault>>
                  \/ /\ active' = TRUE
                     /\ moveForwardToDashboard(i, "provider", "provider", 0)
                  \/ /\ Done(i) /\ spinner' = 0
                     /\ UNCHANGED <<active, fault, stack>>
       \/ \* NOTVERIFIEDCODE: the profile is not stored
          /\ Follow(i, "phoneLogin", calls[i].vc, "none") /\ spinner' = 0
          /\ UNCHANGED <<active, profile, fault, stack>>
       \/ /\ Done(i) /\ spinner' = 0
          /\ UNCHANGED <<active, profile, fault, stack>>
    /\ UNCHANGED <<userType, auth, home, alert>>

\* Mutant: the profile of a forgotten password is not stored.
accountAnswers_NotStored(i) ==
    /\ Alive /\ calls[i].op \in {"register", "forgot"}
    /\ \/ Follow(i, IF calls[i].op = "register" THEN "phoneRegister"
                    ELSE "phoneForgot", calls[i].vc, "none")
       \/ Done(i)
    /\ spinner' = 0
    /\ UNCHANGED <<savedVars, fault, home, stack, alert>>

\* callingRegisterWS, callingForgotPasswordWS
accountAnswers(i) ==
    /\ Alive /\ calls[i].op \in {"register", "forgot"}
    /\ \/ /\ profile' = calls[i].kind
          /\ Follow(i, IF calls[i].op = "register" THEN "phoneRegister"
                       ELSE "phoneForgot", calls[i].vc, "none")
       \/ Done(i) /\ UNCHANGED profile
    /\ spinner' = 0
    /\ UNCHANGED <<userType, active, auth, fault, home, stack, alert>>

\* verifyPhoneNumber of Firebase, for the three screens that start it.
phoneAnswers(i) ==
    /\ Alive /\ calls[i].op \in {"phoneLogin", "phoneRegister", "phoneForgot"}
    /\ \/ /\ auth' = "valid"
          /\ IF calls[i].op = "phoneForgot"
             THEN Follow(i, "laterVerify", calls[i].vc, "none") /\ UNCHANGED stack
             ELSE /\ present(calls[i].vc, IF calls[i].op = "phoneLogin"
                                          THEN "verifyLogin" ELSE "verify")
                  /\ Done(i)
          /\ UNCHANGED spinner
       \/ Done(i) /\ spinner' = 0 /\ UNCHANGED <<auth, stack>>
    /\ UNCHANGED <<userType, active, profile, fault, home, alert>>

\* The asyncAfter of the forgotten and of the new password.
laterFires(i) ==
    /\ Alive /\ calls[i].op \in {"laterVerify", "laterSignin"}
    /\ present(calls[i].vc, IF calls[i].op = "laterVerify"
                            THEN "verifyForgot" ELSE "signin")
    /\ Done(i)
    /\ UNCHANGED <<savedVars, fault, home, alert, spinner>>

\* The callback of btnResendPressed: an error stores an empty verification
\* id, and either way the button stays disabled.
resendAnswers(i) ==
    /\ Alive /\ calls[i].op = "resend"
    /\ auth' \in {"valid", "empty"}
    /\ stack' = IF calls[i].vc = 0 THEN stack
                ELSE [stack EXCEPT ![calls[i].vc].st = "used"]
    /\ Done(i) /\ spinner' = 0
    /\ UNCHANGED <<userType, active, profile, fault, home, alert>>

\* Auth.auth().signIn: the type is read now, the profile was read before.
credentialAnswers(i) ==
    /\ Alive
    /\ \/ /\ calls[i].op = "credentialForgot"
          /\ present(calls[i].vc, "change") /\ Done(i)
          /\ UNCHANGED <<fault, spinner>>
       \/ /\ calls[i].op = "credential" /\ UNCHANGED stack
          /\ IF calls[i].kind = userType
             THEN /\ FollowRequest(i, "verifyUser", calls[i].vc, userType)
                  /\ UNCHANGED fault
             ELSE fault' = IdName(userType) /\ Done(i) /\ UNCHANGED spinner
       \/ /\ calls[i].op \in {"credential", "credentialForgot",
                              "badCredential"}
          /\ Done(i) /\ spinner' = 0 /\ UNCHANGED <<fault, stack>>
    /\ UNCHANGED <<savedVars, home, alert>>

\* verifyUserThroughWS
verifyUserAnswers(i) ==
    /\ Alive /\ calls[i].op = "verifyUser"
    /\ \/ /\ profile' = calls[i].kind
          /\ IF userType = "client"
             THEN /\ active' = TRUE
                  /\ moveForwardToDashboard(i, "client", calls[i].kind, 0)
             ELSE /\ present(calls[i].vc, "identity")
                  /\ Done(i) /\ spinner' = 0 /\ UNCHANGED <<active, fault>>
       \/ /\ Done(i) /\ spinner' = 0
          /\ UNCHANGED <<active, profile, fault, stack>>
    /\ UNCHANGED <<userType, auth, home, alert>>

\* Mutant: the indicator is only removed with the new password.
resetAnswers_KeepsSpinner(i) ==
    /\ Alive /\ calls[i].op = "reset"
    /\ \/ Follow(i, "laterSignin", calls[i].vc, "none") /\ spinner' = 0
       \/ Done(i) /\ UNCHANGED spinner
    /\ UNCHANGED <<savedVars, fault, home, stack, alert>>

\* resetPasswordThroughWS
resetAnswers(i) ==
    /\ Alive /\ calls[i].op = "reset"
    /\ Follow(i, "laterSignin", calls[i].vc, "none") \/ Done(i)
    /\ spinner' = 0
    /\ UNCHANGED <<savedVars, fault, home, stack, alert>>

\* uploadImages
identityAnswers(i) ==
    /\ Alive /\ calls[i].op = "identity"
    /\ \/ presentKit(i, calls[i].vc)
       \/ Done(i) /\ spinner' = 0 /\ UNCHANGED stack
    /\ UNCHANGED <<savedVars, fault, home, alert>>

\* The list of the kit screen at depth vc, if it is still there.
SetKit(vc, st) ==
    stack' = IF vc = 0 THEN stack ELSE [stack EXCEPT ![vc].st = st]

\* getKit, getKitSize and uploadKitSize, which leaves the indicator on.
kitAnswers(i) ==
    /\ Alive
    /\ \/ /\ calls[i].op = "kit" /\ SetKit(calls[i].vc, "noSizes")
          /\ FollowRequest(i, "kitSize", calls[i].vc, "provider")
       \/ /\ calls[i].op = "kitSize" /\ SetKit(calls[i].vc, "sized")
          /\ Done(i) /\ spinner' = 0
       \/ /\ calls[i].op = "saveKit" /\ present(calls[i].vc, "signin")
          /\ Done(i) /\ UNCHANGED spinner
       \/ /\ calls[i].op = "saveKit" /\ Done(i) /\ spinner' = 0
          /\ UNCHANGED stack
    /\ UNCHANGED <<savedVars, fault, home, alert>>

\* getClientProfileUserInformationAPI, getProviderProfileUserInformationAPI
profileAnswers(i) ==
    /\ Alive /\ calls[i].op = "profile"
    /\ profile' \in {profile, calls[i].kind}
    /\ Done(i) /\ spinner' = 0
    /\ UNCHANGED <<userType, active, auth, fault, home, stack, alert>>

\* getResponse, failure: the callback does nothing without success, except
\* that of the trip check; then an alert, and the indicator goes.
getResponseFails(i, kind) ==
    /\ Alive
    /\ \/ /\ calls[i].op \in RestOps /\ Done(i) /\ spinner' = 0
          /\ UNCHANGED <<fault, stack>>
       \/ /\ calls[i].op = "trip"
          /\ moveForwardToDashboard(i, calls[i].kind, profile, 0)
    /\ showAlertWithMessage(kind, calls[i].vc)
    /\ UNCHANGED <<savedVars, home>>

\* Another call of the dashboard ends (the list of online providers, the
\* earnings, ...) and removes the one indicator of the app.
dashboardCallEnds ==
    /\ Alive /\ TopName \in Types /\ spinner # 0
    /\ spinner' = 0
    /\ UNCHANGED <<savedVars, fault, home, stack, alert, calls>>

\* The process starts again, with its UserDefaults.
Relaunch ==
    /\ fault' = "none" /\ home' = "launching"
    /\ stack' = <<Screen("home")>> /\ alert' = NoAlert /\ spinner' = 0
    /\ calls' = [i \in Slots |-> Idle]
    /\ UNCHANGED savedVars

-----------------------------------------------------------------------------
UserStep ==
    \/ homeViewDidLoad
    \/ \E type \in Types : clientProviderButtonAction(type)
    \/ signInButtonAction \/ openFromSignIn("forgot")
    \/ openFromSignIn("signup")
    \/ signupButtonAction \/ sendButtonAction \/ backButtonAction
    \/ verifyButtonAction \/ btnResendPressed \/ doneButtonAction
    \/ uploadImages \/ kitNextPressed
    \/ logoutPressed \/ confirmLogout \/ closeAlert
    \/ \E d \in 1 .. MaxDepth : resendTimer(d)
    \/ Relaunch

AnswerStep ==
    \/ \E i \in Slots :
          \/ tripAnswers(i) \/ loginAnswers(i) \/ accountAnswers(i)
          \/ phoneAnswers(i) \/ laterFires(i) \/ resendAnswers(i)
          \/ credentialAnswers(i) \/ verifyUserAnswers(i) \/ resetAnswers(i)
          \/ identityAnswers(i) \/ kitAnswers(i) \/ profileAnswers(i)
          \/ \E kind \in {"logout", "error"} : getResponseFails(i, kind)
    \/ dashboardCallEnds

Next == UserStep \/ AnswerStep

Spec == Init /\ [][Next]_vars

\* Every call ends: URLSession times out, and getResponse calls back or shows
\* an alert in each case.
Ends(i) ==
    \/ loginAnswers(i) \/ accountAnswers(i) \/ verifyUserAnswers(i)
    \/ resetAnswers(i) \/ identityAnswers(i) \/ kitAnswers(i)
    \/ profileAnswers(i)
    \/ \E kind \in {"logout", "error"} : getResponseFails(i, kind)

FairSpec == Spec /\ \A i \in Slots : WF_vars(Ends(i))

-----------------------------------------------------------------------------
(***************************************************************************)
(* Safety                                                                  *)
(***************************************************************************)

\* The one indicator of the app is shown by ten kinds of calls and removed by
\* the end of any of them, by every toast and by other screens' calls.  A
\* screen under it always has a call in flight that will remove it; only the
\* kit screen, whose upload never removes it, is left out.
SpinnerHasCall ==
    Alive /\ spinner # 0 /\ stack[spinner].name # "kit" =>
        \E i \in Slots : calls[i].op \in RestOps

\* A dashboard on screen is that of a remembered user of the stored type, so
\* that the next launch comes back to it, whichever answers arrive late.
DashboardIsRemembered ==
    \A d \in 1 .. Depth : stack[d].name \in Types =>
        active /\ stack[d].name = userType

\* Every screen that unwraps the stored profile has one, over all the ways to
\* get there, but for the OTP screen that a log-in opens: an unverified user's
\* log-in does not store it.  Every OTP screen has a verification id.
ScreensHaveData ==
    \A d \in 1 .. Depth :
        /\ stack[d].name \in {"verify", "verifyForgot", "change", "identity",
                             "kit"} => profile # "none"
        /\ stack[d].name \in Verifies => auth # "none"

-----------------------------------------------------------------------------
(***************************************************************************)
(* Liveness                                                                *)
(***************************************************************************)

\* A user is not left under the indicator: every screen but the kit gets its
\* controls back, or the process ends.
ScreenIsFreed ==
    spinner = Depth /\ TopName # "kit" ~> spinner # Depth \/ ~Alive

-----------------------------------------------------------------------------
(***************************************************************************)
(* What the code says and does not keep                                    *)
(***************************************************************************)

\* viewDidLoad of the launch screen: the profile of a remembered user has the
\* id of the stored user type (`as! Int').
RememberedUserHasProfile == fault # "launch"
=============================================================================
