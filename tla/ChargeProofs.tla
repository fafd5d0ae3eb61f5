---------------------------- MODULE ChargeProofs ----------------------------
(***************************************************************************)
(* Proofs about what the apps charge a client: the cancellation fee        *)
(* (FeeClock) and the extra equipment (Equipment).                         *)
(*                                                                         *)
(* FeeClock for minutes and hours of any length, so for the code's 60      *)
(* seconds and 60 minutes too, and for any length of time; Equipment for   *)
(* any number of kits at any prices.                                       *)
(***************************************************************************)
EXTENDS FeeClock, Equipment, WellFoundedInduction, TLAPS

\* Whole divisions and remainders.
LEMMA DivMod ==
    ASSUME NEW t \in Nat, NEW s \in Nat \ {0}
    PROVE  /\ t \div s \in Nat /\ t % s \in 0 .. s - 1
           /\ t = (t \div s) * s + (t % s)
OBVIOUS

\* Dividing in two steps divides by the product.
LEMMA DivDiv ==
    ASSUME NEW t \in Nat, NEW s \in Nat \ {0}, NEW m \in Nat \ {0}
    PROVE  (t \div s) \div m = t \div (s * m)
OBVIOUS

\* A product with a natural number keeps the order.
LEMMA Times2 ==
    ASSUME NEW a \in Nat, NEW b \in Nat, NEW s \in Nat, a <= b
    PROVE  a * s <= b * s
OBVIOUS

\* stringFromTimeInterval: nothing of a time is lost, for every time.
LEMMA Lossless ==
    ASSUME NEW t \in Nat
    PROVE  /\ hours(t) * Hour + minutes(t) * SecondsPerMinute + seconds(t) = t
           /\ minutes(t) < MinutesPerHour /\ seconds(t) < SecondsPerMinute
<1> DEFINE s == SecondsPerMinute
           m == MinutesPerHour
           q == t \div s
           h == q \div m
           k == q % m
           r == t % s
<1>1. s \in Nat \ {0} /\ m \in Nat \ {0}
  BY ClockAssumption
<1>2. q \in Nat /\ r \in 0 .. s - 1 /\ t = q * s + r
  BY <1>1, DivMod
<1>3. h \in Nat /\ k \in 0 .. m - 1 /\ q = h * m + k
  <2> HIDE DEF q
  <2>1. QED
    BY <1>1, <1>2, DivMod
<1>4. hours(t) = h /\ minutes(t) = k /\ seconds(t) = r /\ Hour = s * m
  BY <1>1, DivDiv DEF hours, minutes, seconds, Hour
<1> HIDE DEF s, m, q, h, k, r
<1>5. q * s = h * (s * m) + k * s
  BY <1>1, <1>2, <1>3
<1>6. t = h * (s * m) + k * s + r
  BY <1>2, <1>5
<1>7. QED
  BY <1>1, <1>3, <1>2, <1>4, <1>6 DEF s, m

\* Minute 0 is the first minute of an hour.
LEMMA MinuteZero ==
    ASSUME NEW t \in Nat, minutes(t) = 0
    PROVE  t < SecondsPerMinute \/ t >= Hour
<1> DEFINE q == t \div SecondsPerMinute
<1>1. q \in Nat /\ q * SecondsPerMinute <= t
      /\ t < q * SecondsPerMinute + SecondsPerMinute
  BY ClockAssumption
<1>2. q % MinutesPerHour = 0
  BY DEF minutes
<1> HIDE DEF q
<1>3. CASE q = 0
  BY <1>1, <1>3, ClockAssumption
<1>4. CASE q # 0
  <2>1. MinutesPerHour <= q
    BY <1>1, <1>2, <1>4, ClockAssumption
  <2>2. MinutesPerHour * SecondsPerMinute <= q * SecondsPerMinute
    BY <1>1, <2>1, Times2, ClockAssumption
  <2>3. QED
    BY <1>1, <2>2, ClockAssumption DEF Hour
<1>5. QED
  BY <1>3, <1>4

\* The second minute of the trip is minute 1 of its hour.
LEMMA MinuteOne ==
    ASSUME NEW t \in Nat, SecondsPerMinute <= t, t < 2 * SecondsPerMinute
    PROVE  FeeMinute(t)
<1>1. t \div SecondsPerMinute = 1
  BY ClockAssumption
<1>2. 1 % MinutesPerHour = 1
  BY ClockAssumption
<1>3. QED
  BY <1>1, <1>2 DEF FeeMinute, minutes

\* Minute 1 is not the first minute of the trip.
LEMMA NotMinuteZero ==
    ASSUME NEW t \in Nat, FeeMinute(t)
    PROVE  t >= SecondsPerMinute
<1>1. SUFFICES ASSUME t < SecondsPerMinute PROVE FALSE
  BY ClockAssumption
<1>2. t \div SecondsPerMinute = 0
  BY <1>1, ClockAssumption
<1>3. 0 % MinutesPerHour = 0
  BY ClockAssumption
<1>4. QED
  BY <1>2, <1>3 DEF FeeMinute, minutes

-----------------------------------------------------------------------------
(***************************************************************************)
(* The free cancellation is sent from an alert that is still as it was     *)
(* opened: nothing but cancelRequest writes `asked', and it cannot run     *)
(* while an alert is shown nor once the sheet is closed.                   *)
(*                                                                         *)
(* The label: a timer that is still valid after minute 1 has slept through *)
(* it; a label that is up to date says "free" only outside minute 1, and   *)
(* "charged" only after the first minute.                                  *)
(***************************************************************************)
FreeInv ==
    /\ screen = "free" => asked < SecondsPerMinute \/ asked >= Hour
    /\ sent = "NoReason" => screen = "closed"
    /\ FreeCancelHasCause

LabelInv ==
    /\ timer /\ elapsed >= 2 * SecondsPerMinute => slept
    /\ label.kind = "free" => timer
    /\ label.kind = "free" /\ ~due => ~FeeMinute(elapsed)
    /\ due => timer
    /\ label.kind = "charged" => elapsed >= SecondsPerMinute
    /\ fault => ~suspended

Inv == TypeOK /\ FreeInv /\ LabelInv

\* The invariant holds when the sheet opens.
LEMMA InvInit == Init => Inv
<1> SUFFICES ASSUME Init PROVE Inv
  OBVIOUS
<1>1. PICK t \in Times : viewDidLoad(t)
  BY DEF Init
<1>2. /\ timer \in BOOLEAN /\ due \in BOOLEAN /\ suspended \in BOOLEAN
      /\ fault \in BOOLEAN /\ timer /\ ~due /\ ~fault
  BY <1>1, Zenon DEF Init, viewDidLoad
<1>b. slept \in BOOLEAN
  BY <1>1 DEF viewDidLoad
<1>3. t >= 2 * SecondsPerMinute => slept
  BY <1>1 DEF viewDidLoad
<1>4. /\ elapsed \in Times /\ asked \in Times /\ label \in Labels
      /\ label.kind = "none"
  BY <1>1, ClockAssumption DEF Init, viewDidLoad, Times, Labels
<1>5. TypeOK
  BY <1>2, <1>b, <1>4 DEF Init, TypeOK
<1>6. FreeInv
  BY DEF Init, FreeInv, FreeCancelHasCause
<1>7. LabelInv
  BY <1>1, <1>2, <1>3, <1>4 DEF viewDidLoad, LabelInv
<1>8. QED
  BY <1>5, <1>6, <1>7 DEF Inv

\* What Press leaves alone, and when it can be pressed.
LEMMA Pressed ==
    ASSUME Inv, NEW from \in {"free", "call", "form"},
           NEW to \in {"sheet", "free", "call", "form", "closed"},
           NEW code \in {"none", "NoReason", "NoShow", "NoReply"},
           Press(from, to, code), reason' \in {"none", "NoShow", "NoReply"},
           to # "free", code = "NoReason" => from = "free" /\ to = "closed"
    PROVE  Inv'
<1>1. TypeOK'
  BY DEF Press, Inv, TypeOK, Times, Labels
<1>2. FreeInv'
  BY DEF Press, Inv, FreeInv, FreeCancelHasCause
<1>3. LabelInv'
  BY DEF Press, Inv, LabelInv, FeeMinute, minutes
<1>4. QED
  BY <1>1, <1>2, <1>3 DEF Inv

\* Every step of the clock, the timer and the user keeps the invariant.
LEMMA InvStep == ASSUME Inv, [Next]_vars PROVE Inv'
<1> USE ClockAssumption
<1>1. CASE SecondPasses
  <2>1. elapsed \in Nat /\ elapsed' = elapsed + 1 /\ elapsed' \in Times
    BY <1>1 DEF SecondPasses, Inv, TypeOK, Times
  <2>2. slept' \in BOOLEAN /\ due' \in BOOLEAN /\ (slept => slept')
        /\ due' = timer /\ timer' = timer
    BY <1>1 DEF SecondPasses, Inv, TypeOK
  <2>3. TypeOK'
    BY <1>1, <2>1, <2>2 DEF SecondPasses, Inv, TypeOK
  <2>4. FreeInv'
    BY <1>1 DEF SecondPasses, Inv, FreeInv, FreeCancelHasCause
  <2>5. timer' /\ elapsed' >= 2 * SecondsPerMinute => slept'
    <3> SUFFICES ASSUME timer, elapsed + 1 >= 2 * SecondsPerMinute
                 PROVE  slept'
      BY <2>1, <2>2
    <3>1. CASE elapsed >= 2 * SecondsPerMinute
      BY <3>1, <2>2 DEF Inv, LabelInv
    <3>2. CASE elapsed < 2 * SecondsPerMinute
      <4>1. elapsed' = 2 * SecondsPerMinute /\ SecondsPerMinute <= elapsed
        BY <2>1, <3>2
      <4>2. FeeMinute(elapsed)
        BY <2>1, <3>2, <4>1, MinuteOne
      <4>3. CASE ~FeeMinute(elapsed')
        BY <1>1, <4>2, <4>3 DEF SecondPasses
      <4>4. CASE FeeMinute(elapsed')
        BY <4>4, <4>1 DEF FeeMinute, minutes
      <4>5. QED
        BY <4>3, <4>4
    <3>3. QED
      BY <2>1, <3>1, <3>2
  <2>6. LabelInv'
    BY <1>1, <2>1, <2>2, <2>5 DEF SecondPasses, Inv, LabelInv
  <2>7. QED
    BY <2>3, <2>4, <2>6 DEF Inv
<1>2. CASE suspend
  <2>1. suspended' \in BOOLEAN /\ ~fault /\ ~fault'
    BY <1>2, Zenon DEF suspend, Awake
  <2>2. QED
    BY <1>2, <2>1 DEF suspend, Inv, TypeOK, FreeInv, LabelInv,
                      FreeCancelHasCause, FeeMinute, minutes
<1>3. CASE resume
  <2>1. suspended' \in BOOLEAN
    BY <1>3, Zenon DEF resume
  <2>2. QED
    BY <1>3, <2>1 DEF resume, Inv, TypeOK, FreeInv, LabelInv,
                      FreeCancelHasCause, FeeMinute, minutes
<1>4. CASE timerAction
  <2>0. due' \in BOOLEAN /\ ~due' /\ timer
    BY <1>4, Zenon DEF timerAction
  <2>1. /\ due' \in BOOLEAN /\ ~due' /\ elapsed' = elapsed
        /\ elapsed \in Nat /\ timer
    BY <1>4, <2>0 DEF timerAction, Inv, TypeOK, Times
  <2>2. CASE FeeMinute(elapsed)
    <3>1. timer' \in BOOLEAN /\ ~timer'
      BY <1>4, <2>2, Zenon DEF timerAction
    <3>2. label' \in Labels /\ label'.kind = "charged"
      BY <1>4, <2>2 DEF timerAction, Labels
    <3>3. elapsed >= SecondsPerMinute
      BY <2>1, <2>2, NotMinuteZero
    <3>4. QED
      BY <1>4, <2>1, <3>1, <3>2, <3>3 DEF timerAction, Inv, TypeOK, FreeInv,
                                    LabelInv, FreeCancelHasCause
  <2>3. CASE ~FeeMinute(elapsed)
    <3>1. timer' = timer /\ label'.kind = "free"
      BY <1>4, <2>3 DEF timerAction
    <3>2. seconds(elapsed) \in 0 .. SecondsPerMinute - 1
      BY <2>1, DivMod DEF seconds
    <3>3. SecondsPerMinute - seconds(elapsed) \in 0 .. SecondsPerMinute
      BY <3>2
    <3>4. label' \in Labels
      BY <1>4, <2>3, <3>3 DEF timerAction, Labels
    <3>5. ~FeeMinute(elapsed)'
      BY <2>1, <2>3 DEF FeeMinute, minutes
    <3>6. QED
      BY <1>4, <2>1, <3>1, <3>4, <3>5
      DEF timerAction, Inv, TypeOK, FreeInv, LabelInv, FreeCancelHasCause
  <2>4. QED
    BY <2>2, <2>3
<1>5. CASE cancelRequest
  <2>1. /\ asked' = elapsed /\ elapsed' = elapsed /\ elapsed \in Nat
        /\ screen = "sheet" /\ sent' = sent
    BY <1>5 DEF cancelRequest, Inv, TypeOK, Times
  <2>2. screen' \in {"sheet", "free", "call"} /\ fault' \in BOOLEAN
    <3>1. CASE fault' = fault
      BY <1>5, <3>1 DEF cancelRequest, Inv, TypeOK
    <3>2. CASE fault' = TRUE
      BY <1>5, <3>2, Zenon DEF cancelRequest, Inv, TypeOK
    <3>3. QED
      BY <1>5, <3>1, <3>2 DEF cancelRequest
  <2>3. screen' = "free" => minutes(elapsed) = 0
    BY <1>5 DEF cancelRequest
  <2>4. FreeInv'
    BY <2>1, <2>3, MinuteZero DEF Inv, FreeInv, FreeCancelHasCause
  <2>5. ~suspended /\ ~suspended'
    BY <1>5, Zenon DEF cancelRequest, Awake
  <2>6. QED
    BY <1>5, <2>1, <2>2, <2>4, <2>5 DEF cancelRequest, Inv, TypeOK, LabelInv,
                                  FeeMinute, minutes
<1>6. CASE CancelRequest
  BY <1>6, Pressed DEF CancelRequest, Inv, TypeOK
<1>7. CASE keepTrip
  <2>1. PICK alert \in {"free", "call"} :
            Press(alert, "sheet", sent) /\ UNCHANGED reason
    BY <1>7 DEF keepTrip
  <2>2. sent # "NoReason"
    BY <2>1 DEF Press, Inv, FreeInv
  <2>3. QED
    BY <2>1, <2>2, Pressed DEF Inv, TypeOK
<1>8. CASE openForm
  BY <1>8, Pressed DEF openForm, Press, Inv, TypeOK, FreeInv
<1>9. CASE btnReasonPressed
  BY <1>9, Pressed DEF btnReasonPressed, Press, Inv, TypeOK, FreeInv
<1>10. CASE leaveForm
  BY <1>10, Pressed DEF leaveForm, Press, Inv, TypeOK, FreeInv
<1>11. CASE btnSubmitPressed
  BY <1>11, Pressed DEF btnSubmitPressed, Inv, TypeOK
<1>12. CASE UNCHANGED vars
  BY <1>12 DEF vars, Inv, TypeOK, FreeInv, LabelInv, FreeCancelHasCause,
               FeeMinute, minutes
<1>13. QED
  BY <1>1, <1>2, <1>3, <1>4, <1>5, <1>6, <1>7, <1>8, <1>9, <1>10, <1>11,
     <1>12
  DEF Next

\* Only cancelRequest leaves the sheet or stops the app.
LEMMA OnlyTheButton ==
    ASSUME Inv, [Next]_vars, screen = "sheet", vars' # vars,
           screen' # "sheet" \/ fault'
    PROVE  cancelRequest
<1>1. ~Press("free", "closed", "NoReason") /\ ~keepTrip
  BY DEF Press, keepTrip
<1>2. ~openForm /\ ~btnReasonPressed /\ ~leaveForm /\ ~btnSubmitPressed
  BY DEF Press, openForm, btnReasonPressed, leaveForm, btnSubmitPressed
<1>3. ~SecondPasses /\ ~suspend /\ ~resume /\ ~timerAction
  BY DEF SecondPasses, suspend, resume, timerAction, Awake, Inv, LabelInv
<1>4. QED
  BY <1>1, <1>2, <1>3 DEF Next, CancelRequest

\* In the first hour the button agrees with a label that is up to date.
LEMMA PromiseStep ==
    ASSUME Inv, [Next]_vars, screen = "sheet", vars' # vars,
           screen' # "sheet" \/ fault', ~due, ~slept, label.kind # "none",
           elapsed < Hour
    PROVE  (screen' = "free") <=> (label.kind = "free")
<1>1. cancelRequest /\ elapsed \in Nat
  BY OnlyTheButton DEF Inv, TypeOK, Times
<1>2. (screen' = "free") <=> (minutes(elapsed) = 0)
  <2>1. minutes(elapsed) \in Nat
    BY <1>1, ClockAssumption DEF minutes
  <2>2. QED
    BY <1>1, <2>1 DEF cancelRequest
<1>3. CASE label.kind = "free"
  <2>1. timer /\ ~FeeMinute(elapsed) /\ elapsed < 2 * SecondsPerMinute
    BY <1>1, <1>3, ClockAssumption DEF Inv, LabelInv
  <2>2. elapsed < SecondsPerMinute
    BY <1>1, <2>1, MinuteOne, ClockAssumption
  <2>3. elapsed \div SecondsPerMinute = 0
    BY <1>1, <2>2, ClockAssumption
  <2>4. minutes(elapsed) = 0
    BY <2>3, ClockAssumption DEF minutes
  <2>5. QED
    BY <1>2, <1>3, <2>4
<1>4. CASE label.kind = "charged"
  <2>1. elapsed >= SecondsPerMinute
    BY <1>4 DEF Inv, LabelInv
  <2>2. Hour \in Nat
    BY ClockAssumption DEF Hour
  <2>3. minutes(elapsed) # 0
    BY <1>1, <2>1, <2>2, MinuteZero, ClockAssumption
  <2>4. QED
    BY <1>2, <1>4, <2>3
<1>5. QED
  BY <1>3, <1>4 DEF Inv, TypeOK, Labels

\* So it holds in every behaviour.
LEMMA InvAlways == Spec => []Inv
BY InvInit, InvStep, PTL DEF Spec

\* Every variable keeps its type; what is left of the free minute is never
\* negative and never more than a minute.
THEOREM TypeCorrect == Spec => []TypeOK
<1>1. Inv => TypeOK
  BY DEF Inv
<1>2. QED
  BY <1>1, InvAlways, PTL

\* stringFromTimeInterval says exactly the time that has passed.
THEOREM ClockCorrect == Spec => []ClockIsLossless
<1>1. Inv => ClockIsLossless
  BY Lossless DEF Inv, TypeOK, Times, ClockIsLossless
<1>2. QED
  BY <1>1, InvAlways, PTL

\* A cancellation without a reason comes from an alert opened in minute 0 of
\* an hour.
THEOREM FreeCancelIsEarly == Spec => []FreeCancelHasCause
<1>1. Inv => FreeCancelHasCause
  BY DEF Inv, FreeInv
<1>2. QED
  BY <1>1, InvAlways, PTL

\* The label promises a free cancellation after the first minute only when
\* the app slept through minute 1.
THEOREM FreeLabelIsEarly == Spec => []FreeLabelHasCause
<1>1. Inv => FreeLabelHasCause
  <2> SUFFICES ASSUME Inv, label.kind = "free", ~due,
                      elapsed >= SecondsPerMinute
               PROVE  slept
    BY DEF FreeLabelHasCause
  <2>1. elapsed \in Nat /\ timer /\ ~FeeMinute(elapsed)
    BY DEF Inv, TypeOK, Times, LabelInv
  <2>2. elapsed >= 2 * SecondsPerMinute
    BY <2>1, MinuteOne, ClockAssumption
  <2>3. QED
    BY <2>1, <2>2 DEF Inv, LabelInv
<1>2. QED
  BY <1>1, InvAlways, PTL

\* In the first hour, with a label that is up to date and an app that has not
\* slept through minute 1, the button does what the label says.
THEOREM PromiseIsKept == Spec => ButtonKeepsPromise
<1> DEFINE A == screen = "sheet" /\ asked' = elapsed
                /\ (screen' # "sheet" \/ fault')
                /\ ~due /\ ~slept /\ label.kind # "none" /\ elapsed < Hour
                => (screen' = "free") = (label.kind = "free")
<1>1. Inv /\ [Next]_vars => [A]_vars
  BY PromiseStep
<1>2. QED
  BY <1>1, InvAlways, PTL DEF Spec, ButtonKeepsPromise

-----------------------------------------------------------------------------
(***************************************************************************)
(* Extra equipment: sums over any number of kits                           *)
(***************************************************************************)

\* What holds of 0 and goes from each row to the next holds of every row.
LEMMA RowInduction ==
    ASSUME NEW n \in Nat, NEW S, 0 \in S,
           \A k \in 1 .. n : k - 1 \in S => k \in S
    PROVE  0 .. n \subseteq S
<1> DEFINE R    == {ss \in Nat \X Nat : ss[1] < ss[2]}
           Left == (0 .. n) \ S
<1>1. SUFFICES ASSUME Left # {} PROVE FALSE
  OBVIOUS
<1>2. PICK k \in Left : \A j \in Left : ~(<<j, k>> \in R)
  <2>1. Left \subseteq Nat
    OBVIOUS
  <2>2. IsWellFoundedOn(R, Nat)
    BY NatLessThanWellFounded DEF OpToRel
  <2> HIDE DEF R, Left
  <2> QED
    BY <1>1, <2>1, <2>2, WFMin
<1>3. k \in 1 .. n /\ k - 1 \in 0 .. n /\ k - 1 \in Nat /\ k \in Nat
  OBVIOUS
<1>4. <<k - 1, k>> \in R
  BY <1>3
<1>5. k - 1 \notin Left
  BY <1>2, <1>4
<1> QED
  BY <1>3, <1>5

\* Sums adds up row by row: its recursion has a solution, so it is one.
LEMMA SumsAre ==
    ASSUME NEW q \in [Kits -> Int]
    PROVE  /\ Sums(q) \in [0 .. Rows -> Int] /\ Sums(q)[0] = 0
           /\ \A k \in Kits :
                  Sums(q)[k] = Sums(q)[k - 1] + Price[k] * q[k]
<1> DEFINE Step(f, k) == IF k = 0 THEN 0 ELSE f[k - 1] + Price[k] * q[k]
           Eq(f, n)   == f = [k \in 0 .. n |-> Step(f, k)]
           Solved     == {n \in 0 .. Rows : \E f : f \in [0 .. n -> Int] /\ Eq(f, n)}
<1>1. Rows \in Nat /\ \A k \in 1 .. Rows : Price[k] * q[k] \in Int
  BY EquipmentBounds DEF Kits
<1>2. 0 \in Solved
  <2> DEFINE f == [k \in 0 .. 0 |-> 0]
  <2>1. f \in [0 .. 0 -> Int] /\ Eq(f, 0)
    OBVIOUS
  <2> HIDE DEF f, Eq
  <2> QED
    BY <1>1, <2>1
<1>3. ASSUME NEW n \in 1 .. Rows, n - 1 \in Solved
      PROVE  n \in Solved
  <2>1. PICK f : f \in [0 .. n - 1 -> Int] /\ Eq(f, n - 1)
    BY <1>3
  <2> DEFINE g == [k \in 0 .. n |-> IF k = n THEN f[n - 1] + Price[n] * q[n]
                                             ELSE f[k]]
  <2>2. g \in [0 .. n -> Int]
    BY <1>1, <2>1
  <2>3. ASSUME NEW k \in 0 .. n PROVE g[k] = Step(g, k)
    <3>1. CASE k = n
      BY <1>1, <3>1
    <3>2. CASE k # n
      <4>1. k \in 0 .. n - 1 /\ g[k] = f[k] /\ f[k] = Step(f, k)
        BY <1>1, <2>1, <3>2
      <4>2. k # 0 => k - 1 \in 0 .. n /\ k - 1 # n /\ g[k - 1] = f[k - 1]
        BY <1>1, <3>2
      <4> QED
        BY <4>1, <4>2
    <3> QED
      BY <3>1, <3>2
  <2>4. Eq(g, n)
    BY <2>3
  <2> HIDE DEF g, Eq
  <2> QED
    BY <2>2, <2>4
<1>4. PICK f : f \in [0 .. Rows -> Int] /\ Eq(f, Rows)
  <2> HIDE DEF Solved
  <2>1. 0 .. Rows \subseteq Solved
    BY <1>1, <1>2, <1>3, RowInduction
  <2>2. Rows \in Solved
    BY <1>1, <2>1
  <2> QED
    BY <2>2 DEF Solved
<1> DEFINE s == Sums(q)
<1>5. s = CHOOSE g : Eq(g, Rows)
  BY DEF Sums
<1>6. Eq(s, Rows)
  <2> HIDE DEF Eq, s
  <2> QED
    BY <1>4, <1>5
<1>7. ASSUME NEW k \in 0 .. Rows PROVE s[k] = Step(s, k)
  <2> HIDE DEF s
  <2> QED
    BY <1>6
<1> HIDE DEF s
<1>8. s = [k \in 0 .. Rows |-> s[k]]
  BY <1>6
<1>9. 0 .. Rows \subseteq {k \in 0 .. Rows : s[k] \in Int}
  <2>1. s[0] = 0
    BY <1>1, <1>7
  <2>2. ASSUME NEW k \in 1 .. Rows, s[k - 1] \in Int
        PROVE  s[k] \in Int
    <3>1. s[k] = s[k - 1] + Price[k] * q[k]
      BY <1>1, <1>7
    <3> QED
      BY <1>1, <2>2, <3>1
  <2> DEFINE Typed == {k \in 0 .. Rows : s[k] \in Int}
  <2>3. 0 \in Typed /\ \A k \in 1 .. Rows : k - 1 \in Typed => k \in Typed
    BY <1>1, <2>1, <2>2
  <2> HIDE DEF Typed
  <2>4. 0 .. Rows \subseteq Typed
    BY <1>1, <2>3, RowInduction
  <2> QED
    BY <2>4 DEF Typed
<1>10. s \in [0 .. Rows -> Int]
  BY <1>8, <1>9
<1>11. s[0] = 0 /\ \A k \in 1 .. Rows : s[k] = s[k - 1] + Price[k] * q[k]
  BY <1>1, <1>7
<1> QED
  BY <1>10, <1>11 DEF Kits, s

\* A sum over two quantities per row is the sum of the two sums.
LEMMA ValueAdds ==
    ASSUME NEW a \in [Kits -> Int], NEW b \in [Kits -> Int],
           NEW c \in [Kits -> Int], \A k \in Kits : c[k] = a[k] + b[k]
    PROVE  ValueOf(c) = ValueOf(a) + ValueOf(b)
<1> DEFINE Adds == {k \in 0 .. Rows : Sums(c)[k] = Sums(a)[k] + Sums(b)[k]}
<1>1. Rows \in Nat /\ Kits = 1 .. Rows /\ Price \in [Kits -> Nat]
  BY EquipmentBounds DEF Kits
<1>2. 0 \in Adds
  <2>1. Sums(a)[0] = 0 /\ Sums(b)[0] = 0 /\ Sums(c)[0] = 0
    BY SumsAre
  <2> QED
    BY <1>1, <2>1
<1>3. ASSUME NEW k \in 1 .. Rows, k - 1 \in Adds
      PROVE  k \in Adds
  <2>1. /\ Sums(a)[k] = Sums(a)[k - 1] + Price[k] * a[k]
        /\ Sums(b)[k] = Sums(b)[k - 1] + Price[k] * b[k]
        /\ Sums(c)[k] = Sums(c)[k - 1] + Price[k] * c[k]
    BY <1>1, SumsAre
  <2>2. /\ Sums(a)[k - 1] \in Int /\ Sums(b)[k - 1] \in Int
        /\ Sums(c)[k - 1] \in Int
    <3>1. k - 1 \in 0 .. Rows
      BY <1>1
    <3> QED
      BY <3>1, SumsAre
  <2>3. Price[k] * c[k] = Price[k] * a[k] + Price[k] * b[k]
    <3>1. Price[k] \in Nat /\ a[k] \in Int /\ b[k] \in Int /\ c[k] = a[k] + b[k]
      BY <1>1
    <3> QED
      BY <3>1
  <2>4. Price[k] * a[k] \in Int /\ Price[k] * b[k] \in Int
    BY <1>1
  <2>5. Sums(c)[k - 1] = Sums(a)[k - 1] + Sums(b)[k - 1]
    BY <1>3
  <2> QED
    BY <2>1, <2>2, <2>3, <2>4, <2>5
<1> HIDE DEF Adds
<1>4. Rows \in Adds
  <2>1. 0 .. Rows \subseteq Adds
    BY <1>1, <1>2, <1>3, RowInduction
  <2> QED
    BY <1>1, <2>1
<1> QED
  BY <1>4 DEF Adds, ValueOf

\* More of a kit is not cheaper.
LEMMA ValueGrows ==
    ASSUME NEW a \in [Kits -> Int], NEW b \in [Kits -> Int],
           \A k \in Kits : a[k] <= b[k]
    PROVE  ValueOf(a) <= ValueOf(b)
<1> DEFINE Grows == {k \in 0 .. Rows : Sums(a)[k] <= Sums(b)[k]}
<1>1. Rows \in Nat /\ Kits = 1 .. Rows /\ Price \in [Kits -> Nat]
  BY EquipmentBounds DEF Kits
<1>2. 0 \in Grows
  <2>1. Sums(a)[0] = 0 /\ Sums(b)[0] = 0
    BY SumsAre
  <2> QED
    BY <1>1, <2>1
<1>3. ASSUME NEW k \in 1 .. Rows, k - 1 \in Grows
      PROVE  k \in Grows
  <2>1. /\ Sums(a)[k] = Sums(a)[k - 1] + Price[k] * a[k]
        /\ Sums(b)[k] = Sums(b)[k - 1] + Price[k] * b[k]
    BY <1>1, SumsAre
  <2>2. Sums(a)[k - 1] \in Int /\ Sums(b)[k - 1] \in Int
    <3>1. k - 1 \in 0 .. Rows
      BY <1>1
    <3> QED
      BY <3>1, SumsAre
  <2>3. Price[k] * a[k] <= Price[k] * b[k]
    <3>1. Price[k] \in Nat /\ b[k] - a[k] \in Nat /\ a[k] \in Int
          /\ b[k] = a[k] + (b[k] - a[k])
      BY <1>1
    <3>2. Price[k] * (b[k] - a[k]) \in Nat
      BY <3>1
    <3>3. Price[k] * b[k] = Price[k] * a[k] + Price[k] * (b[k] - a[k])
      BY <3>1
    <3>4. Price[k] * a[k] \in Int
      BY <3>1
    <3> QED
      BY <3>2, <3>3, <3>4
  <2>4. Price[k] * a[k] \in Int /\ Price[k] * b[k] \in Int
    BY <1>1
  <2>5. Sums(a)[k - 1] <= Sums(b)[k - 1]
    BY <1>3
  <2> QED
    BY <2>1, <2>2, <2>3, <2>4, <2>5
<1> HIDE DEF Grows
<1>4. Rows \in Grows
  <2>1. 0 .. Rows \subseteq Grows
    BY <1>1, <1>2, <1>3, RowInduction
  <2> QED
    BY <1>1, <2>1
<1> QED
  BY <1>4 DEF Grows, ValueOf

\* Quantities cost nothing if there are none, and never less than nothing.
LEMMA ValueNat ==
    ASSUME NEW a \in [Kits -> Nat]
    PROVE  /\ ValueOf(a) \in Nat
           /\ (\A k \in Kits : a[k] = 0) => ValueOf(a) = 0
<1> DEFINE zero == [k \in Kits |-> 0]
<1>1. Rows \in Nat /\ a \in [Kits -> Int] /\ zero \in [Kits -> Int]
  BY EquipmentBounds
<1>2. ValueOf(a) \in Int /\ ValueOf(zero) \in Int
  BY <1>1, SumsAre DEF ValueOf
<1>3. ValueOf(zero) = 0
  <2>1. ValueOf(zero) = ValueOf(zero) + ValueOf(zero)
    <3>1. \A k \in Kits : zero[k] = zero[k] + zero[k]
      OBVIOUS
    <3> HIDE DEF zero
    <3> QED
      BY <1>1, <3>1, ValueAdds
  <2>2. \A v \in Int : v = v + v => v = 0
    OBVIOUS
  <2> HIDE DEF zero
  <2> QED
    BY <1>2, <2>1, <2>2
<1>4. ValueOf(zero) <= ValueOf(a)
  <2>1. \A k \in Kits : zero[k] <= a[k]
    OBVIOUS
  <2> HIDE DEF zero
  <2> QED
    BY <1>1, <2>1, ValueGrows
<1>5. (\A k \in Kits : a[k] = 0) => a = zero
  OBVIOUS
<1> HIDE DEF zero
<1> QED
  BY <1>2, <1>3, <1>4, <1>5

-----------------------------------------------------------------------------
(***************************************************************************)
(* Extra equipment: types and the two invariants                           *)
(***************************************************************************)

\* Type correctness, with what bounds the counts: each visit adds MaxQty at
\* most.
EquipmentTyped ==
    /\ EquipmentTypeOK
    /\ \A k \in Kits : counts[k] <= 1 + visits * MaxQty

\* The quantities that a press of Next charges.
Charged ==
    LET charged == {k \in Kits :
                      /\ Selected(k)
                      /\ \A r \in {j \in Kits : Refused(j)} : k < r}
    IN  [k \in Kits |-> IF k \in charged THEN productKitList[k].Quantity ELSE 0]

\* What is charged are natural numbers, at most what the field takes.
LEMMA ChargedQuantities ==
    ASSUME EquipmentTypeOK
    PROVE  /\ Charged \in [Kits -> Nat]
           /\ \A k \in Kits : Charged[k] <= MaxQty
<1>1. ASSUME NEW k \in Kits
      PROVE  /\ productKitList[k].Quantity \in Int
             /\ productKitList[k].Quantity <= MaxQty
             /\ MaxQty \in Nat
  BY EquipmentBounds DEF EquipmentTypeOK, Quantities, Blank
<1> QED
  BY <1>1 DEF Charged, Selected

\* btnNextPressed adds these to the charge.  It adds them to the counts too,
\* or else is remembered as refused, unless nothing was charged.
LEMMA NextCharges ==
    ASSUME EquipmentTypeOK, btnNextPressed
    PROVE  /\ extraCharge' = extraCharge + ValueOf(Charged)
           /\ \/ /\ counts' = [k \in Kits |-> counts[k] + Charged[k]]
                 /\ drift' = drift
              \/ /\ counts' = counts
                 /\ \/ drift' = drift /\ ValueOf(Charged) = 0
                    \/ drift' = drift \union {"refused"}
<1> DEFINE refused == {j \in Kits : Refused(j)}
           charged == {k \in Kits :
                         Selected(k) /\ \A r \in refused : k < r}
<1>1. Charged = [k \in Kits |-> IF k \in charged
                                  THEN productKitList[k].Quantity ELSE 0]
  BY DEF Charged
<1>2. extraCharge' = extraCharge + ValueOf(Charged)
  BY <1>1 DEF btnNextPressed, Charge
<1>3. CASE refused = {}
  <2>1. /\ drift' = drift
        /\ counts' = [k \in Kits |-> IF Selected(k)
                                       THEN counts[k] + productKitList[k].Quantity
                                       ELSE counts[k]]
    BY <1>3 DEF btnNextPressed
  <2>2. ASSUME NEW k \in Kits
        PROVE  counts[k] + Charged[k] = IF Selected(k)
                                        THEN counts[k] + productKitList[k].Quantity
                                        ELSE counts[k]
    <3>1. counts[k] \in Int
      BY EquipmentBounds DEF EquipmentTypeOK
    <3>2. Charged[k] = IF Selected(k) THEN productKitList[k].Quantity ELSE 0
      BY <1>1, <1>3
    <3> QED
      BY <3>1, <3>2
  <2>3. counts' = [k \in Kits |-> counts[k] + Charged[k]]
    BY <2>1, <2>2
  <2> QED
    BY <1>2, <2>1, <2>3
<1>4. CASE refused # {}
  <2>1. /\ counts' = counts
        /\ drift' = IF charged = {} THEN drift ELSE drift \union {"refused"}
    BY <1>4 DEF btnNextPressed
  <2>2. charged = {} => ValueOf(Charged) = 0
    <3>1. charged = {} => \A k \in Kits : Charged[k] = 0
      BY <1>1
    <3> QED
      BY <3>1, ChargedQuantities, ValueNat
  <2> QED
    BY <1>2, <2>1, <2>2
<1> QED
  BY <1>3, <1>4

\* The form, between its fields and the stored quantities, keeps its types.
LEMMA FormTyped ==
    ASSUME EquipmentTyped,
           \/ buyExtraEquipments \/ getKit \/ getKitSize
           \/ \E k \in Kits : btnSizePressed(k)
           \/ \E k \in Kits, text \in Quantities :
                  shouldChangeCharactersIn(k, text)
           \/ textFieldDidEndEditing \/ btnBackPressed
    PROVE  /\ EquipmentTyped'
           /\ UNCHANGED <<counts, extraCharge, drift>>
<1> USE DEF NoForm, NoEdit, Quantities, Blank
<1>0. Rows \in Nat /\ MaxQty \in Nat /\ Kits = 1 .. Rows
  BY EquipmentBounds DEF Kits
<1>1. UNCHANGED <<counts, extraCharge, drift, visits, screens, waiting>>
  BY DEF buyExtraEquipments, getKit, getKitSize, btnSizePressed,
         shouldChangeCharactersIn, textFieldDidEndEditing,
         btnBackPressed
<1> DEFINE Placed == /\ visibleScreen' \in {"dashboard", "equipment"}
                     /\ loaded' \in {"none", "kits", "sizes"}
                     /\ editing' \in [row : 0 .. Rows, text : Quantities]
<1>2. Placed
  <2>1. /\ visibleScreen \in {"dashboard", "equipment"}
        /\ loaded \in {"none", "kits", "sizes"}
        /\ editing \in [row : 0 .. Rows, text : Quantities]
    BY DEF EquipmentTyped, EquipmentTypeOK
  <2>2. NoEdit \in [row : 0 .. Rows, text : Quantities]
    BY <1>0
  <2>3. CASE buyExtraEquipments
    BY <2>1, <2>2, <2>3 DEF buyExtraEquipments
  <2>4. CASE getKit \/ getKitSize \/ btnBackPressed
    BY <2>1, <2>4 DEF getKit, getKitSize, btnBackPressed
  <2>5. CASE \E k \in Kits : btnSizePressed(k)
    BY <2>1, <2>2, <2>5 DEF btnSizePressed
  <2>6. CASE \E k \in Kits, text \in Quantities :
                 shouldChangeCharactersIn(k, text)
    BY <1>0, <2>1, <2>6 DEF shouldChangeCharactersIn
  <2>7. CASE textFieldDidEndEditing
    BY <2>1, <2>2, <2>7 DEF textFieldDidEndEditing
  <2> QED
    BY <2>3, <2>4, <2>5, <2>6, <2>7
<1>3. productKitList' \in [Kits -> [size : BOOLEAN, Quantity : Quantities]]
  <2>1. CASE buyExtraEquipments
    BY <1>0, <2>1 DEF buyExtraEquipments
  <2>2. CASE \E k \in Kits : btnSizePressed(k)
    <3>1. PICK k \in Kits : btnSizePressed(k)
      BY <2>2
    <3>2. PICK list \in {productKitList} \union
                   (IF editing.row = 0 THEN {}
                    ELSE {[productKitList EXCEPT
                             ![editing.row].Quantity = editing.text]}) :
              productKitList' = [list EXCEPT ![k].size = ~@]
      BY <3>1 DEF btnSizePressed
    <3>3. list \in [Kits -> [size : BOOLEAN, Quantity : Quantities]]
      <4>1. /\ editing.row \in 0 .. Rows /\ editing.text \in Quantities
            /\ productKitList \in
                  [Kits -> [size : BOOLEAN, Quantity : Quantities]]
        BY DEF EquipmentTyped, EquipmentTypeOK
      <4>2. CASE list = productKitList
        BY <4>1, <4>2
      <4>3. CASE /\ editing.row # 0
                 /\ list = [productKitList EXCEPT
                              ![editing.row].Quantity = editing.text]
        BY <1>0, <4>1, <4>3
      <4> QED
        BY <3>2, <4>2, <4>3
    <3> QED
      BY <3>2, <3>3
  <2>3. CASE textFieldDidEndEditing
    BY <1>0, <2>3 DEF EquipmentTyped, EquipmentTypeOK, textFieldDidEndEditing
  <2>4. CASE UNCHANGED productKitList
    BY <2>4 DEF EquipmentTyped, EquipmentTypeOK
  <2> QED
    BY <2>1, <2>2, <2>3, <2>4
    DEF getKit, getKitSize, shouldChangeCharactersIn, btnBackPressed
<1> QED
  BY <1>1, <1>2, <1>3 DEF EquipmentTyped, EquipmentTypeOK

\* A press of Next keeps the types: a visit more, MaxQty more per row.
LEMMA NextTyped ==
    ASSUME EquipmentTyped, btnNextPressed
    PROVE  EquipmentTyped'
<1>1. MaxQty \in Nat /\ MaxVisits \in Nat /\ visits \in 0 .. MaxVisits - 1
      /\ visits' = visits + 1
  BY EquipmentBounds DEF EquipmentTyped, EquipmentTypeOK, btnNextPressed
<1>2. /\ Charged \in [Kits -> Nat] /\ \A k \in Kits : Charged[k] <= MaxQty
      /\ ValueOf(Charged) \in Nat
  BY ChargedQuantities, ValueNat DEF EquipmentTyped
<1>3. visits' \in 0 .. MaxVisits /\ extraCharge' \in Nat
      /\ drift' \subseteq Causes
  <2>1. extraCharge \in Nat /\ drift \subseteq Causes
    BY DEF EquipmentTyped, EquipmentTypeOK
  <2>2. /\ extraCharge' = extraCharge + ValueOf(Charged)
        /\ drift' = drift \/ drift' = drift \union {"refused"}
    BY NextCharges DEF EquipmentTyped
  <2>3. drift' \subseteq Causes
    BY <2>1, <2>2 DEF Causes
  <2> QED
    BY <1>1, <1>2, <2>1, <2>2, <2>3
<1>4. visits' * MaxQty = visits * MaxQty + MaxQty /\ visits * MaxQty \in Nat
      /\ visits' * MaxQty <= MaxVisits * MaxQty
  <2>1. visits' * MaxQty <= MaxVisits * MaxQty
    BY <1>1, <1>3, Times2
  <2>2. visits' * MaxQty = visits * MaxQty + MaxQty /\ visits * MaxQty \in Nat
    BY <1>1
  <2> QED
    BY <2>1, <2>2
<1>5. MaxVisits * MaxQty \in Nat /\ visits' * MaxQty \in Nat
  BY <1>1, <1>3
<1>6. ASSUME NEW k \in Kits
      PROVE  counts'[k] \in Nat \ {0} /\ counts'[k] <= 1 + visits' * MaxQty
  <2>1. counts[k] \in Nat \ {0} /\ counts[k] <= 1 + visits * MaxQty
    BY DEF EquipmentTyped, EquipmentTypeOK
  <2>2. counts'[k] = counts[k] \/ counts'[k] = counts[k] + Charged[k]
    BY NextCharges DEF EquipmentTyped
  <2>3. Charged[k] \in Nat /\ Charged[k] <= MaxQty
    BY <1>2
  <2> DEFINE before == visits * MaxQty
             after  == visits' * MaxQty
  <2>4. after = before + MaxQty /\ before \in Nat
    BY <1>4
  <2>5. counts[k] <= 1 + before
    BY <2>1
  <2> HIDE DEF before, after
  <2>6. counts'[k] \in Nat \ {0} /\ counts'[k] <= 1 + after
    BY <1>1, <2>1, <2>2, <2>3, <2>4, <2>5
  <2> QED
    BY <2>6 DEF after
<1>7. counts' \in [Kits -> 1 .. 1 + MaxVisits * MaxQty]
  <2>1. counts' = [k \in Kits |-> counts'[k]]
    BY NextCharges DEF EquipmentTyped, EquipmentTypeOK
  <2>2. ASSUME NEW k \in Kits PROVE counts'[k] \in 1 .. 1 + MaxVisits * MaxQty
    BY <1>4, <1>5, <1>6
  <2> QED
    BY <2>1, <2>2
<1> QED
  BY <1>3, <1>6, <1>7 DEF EquipmentTyped, EquipmentTypeOK, btnNextPressed

\* Requests, cancellations and new logins keep the types.
LEMMA DashboardTyped ==
    ASSUME EquipmentTyped,
           \/ postRequest \/ requestEnds \/ cancelRequestThroughWS
           \/ signInAgain
    PROVE  EquipmentTyped'
<1>1. /\ MaxQty \in Nat /\ MaxVisits \in Nat /\ MaxScreens \in Nat
      /\ visits \in 0 .. MaxVisits
  BY EquipmentBounds DEF EquipmentTyped, EquipmentTypeOK
<1>2. visits * MaxQty \in Nat /\ MaxVisits * MaxQty \in Nat
  BY <1>1
<1>3. CASE postRequest \/ requestEnds \/ cancelRequestThroughWS
  <2>1. /\ UNCHANGED <<visibleScreen, productKitList, loaded, editing, counts,
                      visits, screens>>
        /\ waiting' \in BOOLEAN
        /\ extraCharge' = extraCharge \/ extraCharge' = 0
        /\ drift' = drift \/ drift' = drift \union {"cancelled"}
    BY <1>3 DEF postRequest, requestEnds, cancelRequestThroughWS
  <2>2. drift' \subseteq Causes /\ extraCharge' \in Nat
    <3>1. drift \subseteq Causes /\ extraCharge \in Nat
      BY DEF EquipmentTyped, EquipmentTypeOK
    <3>2. extraCharge' \in Nat
      BY <2>1, <3>1
    <3>3. drift' \subseteq Causes
      <4>1. drift' = drift \/ drift' = drift \union {"cancelled"}
        BY <2>1
      <4>2. "cancelled" \in Causes
        BY DEF Causes
      <4> QED
        BY <3>1, <4>1, <4>2
    <3> QED
      BY <3>2, <3>3
  <2> QED
    BY <2>1, <2>2 DEF EquipmentTyped, EquipmentTypeOK
<1>4. CASE signInAgain
  <2>1. counts' = [k \in Kits |-> 1] /\ visits' = visits
    BY <1>4 DEF signInAgain
  <2>2. 1 \in 1 .. 1 + MaxVisits * MaxQty /\ 1 <= 1 + visits * MaxQty
    BY <1>2
  <2>3. counts' \in [Kits -> 1 .. 1 + MaxVisits * MaxQty]
        /\ \A k \in Kits : counts'[k] <= 1 + visits' * MaxQty
    BY <2>1, <2>2
  <2>4. screens' \in 0 .. MaxScreens /\ drift' \subseteq Causes
    BY <1>1, <1>4 DEF Causes, EquipmentTyped, EquipmentTypeOK, signInAgain
  <2> QED
    BY <1>4, <2>3, <2>4 DEF EquipmentTyped, EquipmentTypeOK, signInAgain
<1> QED
  BY <1>3, <1>4

\* What the counts are worth, and that it is worth nothing without extras.
LEMMA AddedValue ==
    ASSUME EquipmentTypeOK
    PROVE  /\ Added \in [Kits -> Nat] /\ ValueOf(Added) \in Nat
           /\ (\A k \in Kits : counts[k] = 1) => ValueOf(Added) = 0
<1>1. Added \in [Kits -> Nat]
  <2>1. ASSUME NEW k \in Kits PROVE counts[k] - 1 \in Nat
    BY DEF EquipmentTypeOK
  <2> QED
    BY <2>1 DEF Added
<1>2. (\A k \in Kits : counts[k] = 1) => \A k \in Kits : Added[k] = 0
  BY DEF Added
<1> QED
  BY <1>1, <1>2, ValueNat

\* Both invariants of the charge.
ChargeInv == ChargedLessHasCause /\ ChargedMoreHasCause

\* A press of Next charges what it reports, or is remembered as refused.
LEMMA NextKeepsCharge ==
    ASSUME EquipmentTyped, ChargeInv, btnNextPressed
    PROVE  ChargeInv'
<1>1. /\ extraCharge \in Nat /\ ValueOf(Charged) \in Nat
      /\ Charged \in [Kits -> Int]
      /\ Added \in [Kits -> Int] /\ ValueOf(Added) \in Nat
  BY ChargedQuantities, AddedValue, ValueNat DEF EquipmentTyped, EquipmentTypeOK
<1>2. extraCharge' = extraCharge + ValueOf(Charged)
  BY NextCharges DEF EquipmentTyped
<1>3. CASE counts' = counts
  <2>1. ValueOf(Added)' = ValueOf(Added)
    BY <1>3 DEF Added, ValueOf, Sums
  <2>2. \/ drift' = drift /\ ValueOf(Charged) = 0
        \/ drift' = drift \union {"refused"}
        \/ drift' = drift /\ \A k \in Kits : Charged[k] = 0
    <3>1. ASSUME counts' = [k \in Kits |-> counts[k] + Charged[k]],
                 NEW k \in Kits
          PROVE  Charged[k] = 0
      <4>1. counts[k] \in Int /\ Charged[k] \in Int
        BY <1>1 DEF EquipmentTyped, EquipmentTypeOK
      <4> QED
        BY <1>3, <3>1, <4>1
    <3> QED
      BY <3>1, NextCharges DEF EquipmentTyped
  <2>3. (\A k \in Kits : Charged[k] = 0) => ValueOf(Charged) = 0
    BY ChargedQuantities, ValueNat DEF EquipmentTyped
  <2> QED
    BY <1>1, <1>2, <2>1, <2>2, <2>3
    DEF ChargeInv, ChargedLessHasCause, ChargedMoreHasCause
<1>4. CASE counts' = [k \in Kits |-> counts[k] + Charged[k]] /\ drift' = drift
  <2>1. Added' = [k \in Kits |-> Added[k] + Charged[k]]
    <3>1. \A k \in Kits : counts[k] \in Int /\ Charged[k] \in Int
      BY <1>1 DEF EquipmentTyped, EquipmentTypeOK
    <3>2. \A k \in Kits : counts'[k] = counts[k] + Charged[k]
      BY <1>4
    <3>3. Added' = [k \in Kits |-> counts'[k] - 1]
      BY DEF Added
    <3>4. \A k \in Kits : Added[k] = counts[k] - 1
      BY DEF Added
    <3>5. ASSUME NEW k \in Kits
          PROVE  counts'[k] - 1 = Added[k] + Charged[k]
      <4>1. /\ counts[k] \in Int /\ Charged[k] \in Int
            /\ counts'[k] = counts[k] + Charged[k]
            /\ Added[k] = counts[k] - 1
        BY <3>1, <3>2, <3>4
      <4> QED
        BY <4>1
    <3> QED
      BY <3>3, <3>5
  <2>2. ValueOf(Added)' = ValueOf(Added')
    BY DEF ValueOf, Sums
  <2>3. Added' \in [Kits -> Int]
        /\ \A k \in Kits : Added'[k] = Added[k] + Charged[k]
    BY <1>1, <2>1
  <2>4. ValueOf(Added)' = ValueOf(Added) + ValueOf(Charged)
    BY <1>1, <2>2, <2>3, ValueAdds
  <2> QED
    BY <1>1, <1>2, <1>4, <2>4
    DEF ChargeInv, ChargedLessHasCause, ChargedMoreHasCause
<1> QED
  BY <1>3, <1>4, NextCharges DEF EquipmentTyped

\* A cancellation takes the charge away, a new dashboard the counts; both are
\* remembered unless there was nothing to lose.  Nothing else moves either.
LEMMA DashboardKeepsCharge ==
    ASSUME EquipmentTyped, ChargeInv,
           \/ postRequest \/ requestEnds \/ cancelRequestThroughWS
           \/ signInAgain
    PROVE  ChargeInv'
<1>1. /\ extraCharge \in Nat /\ ValueOf(Added) \in Nat
      /\ EquipmentTypeOK'
  BY AddedValue, DashboardTyped DEF EquipmentTyped, EquipmentTypeOK
<1>2. counts' = counts => ValueOf(Added)' = ValueOf(Added)
  BY DEF Added, ValueOf, Sums
<1>3. CASE postRequest \/ requestEnds
  <2>1. UNCHANGED <<counts, extraCharge, drift>>
    BY <1>3 DEF postRequest, requestEnds
  <2> QED
    BY <1>1, <1>2, <2>1
    DEF ChargeInv, ChargedLessHasCause, ChargedMoreHasCause
<1>4. CASE cancelRequestThroughWS
  <2>1. /\ extraCharge' = 0 /\ counts' = counts
        /\ \/ drift' = drift /\ extraCharge = 0
           \/ drift' = drift \union {"cancelled"}
    BY <1>4 DEF cancelRequestThroughWS
  <2> QED
    BY <1>1, <1>2, <2>1
    DEF ChargeInv, ChargedLessHasCause, ChargedMoreHasCause
<1>5. CASE signInAgain
  <2>1. /\ extraCharge' = extraCharge /\ counts' = [k \in Kits |-> 1]
        /\ \/ drift' = drift /\ extraCharge = 0
           \/ drift' = drift \union {"newDashboard"}
    BY <1>5 DEF signInAgain
  <2>2. ValueOf(Added)' = 0
    <3>1. Added' \in [Kits -> Nat] /\ \A k \in Kits : Added'[k] = 0
      BY <2>1 DEF Added
    <3>2. ValueOf(Added)' = ValueOf(Added')
      BY DEF ValueOf, Sums
    <3> QED
      BY <3>1, <3>2, ValueNat
  <2> QED
    BY <1>1, <2>1, <2>2
    DEF ChargeInv, ChargedLessHasCause, ChargedMoreHasCause
<1> QED
  BY <1>3, <1>4, <1>5

\* What is left alone stays as it was.
LEMMA EquipmentStutters ==
    ASSUME EquipmentTyped, ChargeInv, UNCHANGED equipmentVars
    PROVE  EquipmentTyped' /\ ChargeInv'
BY DEF EquipmentTyped, ChargeInv, EquipmentTypeOK, ChargedLessHasCause,
       ChargedMoreHasCause, Added, ValueOf, Sums, equipmentVars

\* A new dashboard has counts of one of each and no charge.
LEMMA EquipmentStarts ==
    ASSUME EquipmentInit
    PROVE  EquipmentTyped /\ ChargeInv
<1>1. Rows \in Nat /\ MaxQty \in Nat /\ MaxVisits \in Nat /\ MaxScreens \in Nat
      /\ MaxVisits * MaxQty \in Nat /\ 0 * MaxQty = 0
  BY EquipmentBounds
<1>2. counts \in [Kits -> 1 .. 1 + MaxVisits * MaxQty]
  <2>1. 1 \in 1 .. 1 + MaxVisits * MaxQty
    BY <1>1
  <2> QED
    BY <2>1 DEF EquipmentInit
<1>3. \A k \in Kits : counts[k] <= 1 + visits * MaxQty
  BY <1>1 DEF EquipmentInit
<1>4. /\ productKitList \in [Kits -> [size : BOOLEAN, Quantity : Quantities]]
      /\ editing \in [row : 0 .. Rows, text : Quantities]
  BY <1>1 DEF EquipmentInit, NoForm, NoEdit, Quantities, Blank
<1>5. EquipmentTyped
  <2>1. visits \in 0 .. MaxVisits /\ screens \in 0 .. MaxScreens
        /\ extraCharge \in Nat
    BY <1>1 DEF EquipmentInit
  <2>2. /\ visibleScreen \in {"dashboard", "equipment"}
        /\ loaded \in {"none", "kits", "sizes"}
        /\ waiting \in BOOLEAN /\ drift \subseteq Causes
    BY DEF EquipmentInit
  <2> QED
    BY <1>2, <1>3, <1>4, <2>1, <2>2 DEF EquipmentTyped, EquipmentTypeOK
<1>6. extraCharge = 0 /\ ValueOf(Added) = 0
  BY <1>5, AddedValue DEF EquipmentInit, EquipmentTyped
<1> QED
  BY <1>5, <1>6 DEF ChargeInv, ChargedLessHasCause, ChargedMoreHasCause

\* Every step keeps types and invariants.
LEMMA EquipmentStep ==
    ASSUME EquipmentTyped, ChargeInv, [EquipmentNext]_equipmentVars
    PROVE  EquipmentTyped' /\ ChargeInv'
<1>1. CASE \/ buyExtraEquipments \/ getKit \/ getKitSize
           \/ \E k \in Kits : btnSizePressed(k)
           \/ \E k \in Kits, text \in Quantities :
                  shouldChangeCharactersIn(k, text)
           \/ textFieldDidEndEditing \/ btnBackPressed
  <2>1. EquipmentTyped' /\ UNCHANGED <<counts, extraCharge, drift>>
    BY <1>1, FormTyped
  <2>2. ValueOf(Added)' = ValueOf(Added)
    BY <2>1 DEF Added, ValueOf, Sums
  <2> QED
    BY <2>1, <2>2 DEF ChargeInv, ChargedLessHasCause, ChargedMoreHasCause
<1>2. CASE btnNextPressed
  BY <1>2, NextTyped, NextKeepsCharge
<1>3. CASE \/ postRequest \/ requestEnds \/ cancelRequestThroughWS
           \/ signInAgain
  BY <1>3, DashboardTyped, DashboardKeepsCharge
<1>4. CASE UNCHANGED equipmentVars
  BY <1>4, EquipmentStutters
<1> QED
  BY <1>1, <1>2, <1>3, <1>4 DEF EquipmentNext

\* The inductive invariant of the extra equipment (ExtraEquipmentView-
\* Controller, the dashboard's counts and AppDelegate.extraCharge).
THEOREM EquipmentInductive ==
    EquipmentSpec => [](EquipmentTyped /\ ChargeInv)
<1>1. EquipmentInit => EquipmentTyped /\ ChargeInv
  BY EquipmentStarts
<1>2. (EquipmentTyped /\ ChargeInv) /\ [EquipmentNext]_equipmentVars
          => (EquipmentTyped /\ ChargeInv)'
  BY EquipmentStep
<1> QED
  BY <1>1, <1>2, PTL DEF EquipmentSpec

\* The form, the counts and the charge are always of their types.
THEOREM EquipmentTypeCorrect == EquipmentSpec => []EquipmentTypeOK
<1>1. EquipmentTyped /\ ChargeInv => EquipmentTypeOK
  BY DEF EquipmentTyped
<1> QED
  BY <1>1, EquipmentInductive, PTL

\* Over any sequence of visits to the form, with any number of kits at any
\* prices, the client is asked for less than the counts are worth only after
\* a cancellation (cancelRequestThroughWS).
THEOREM ChargedLess ==
    EquipmentSpec => []ChargedLessHasCause
<1>1. EquipmentTyped /\ ChargeInv => ChargedLessHasCause
  BY DEF ChargeInv
<1> QED
  BY <1>1, EquipmentInductive, PTL

\* And for more only after a refused Next (btnNextPressed) or on a new
\* dashboard.
THEOREM ChargedMore ==
    EquipmentSpec => []ChargedMoreHasCause
<1>1. EquipmentTyped /\ ChargeInv => ChargedMoreHasCause
  BY DEF ChargeInv
<1> QED
  BY <1>1, EquipmentInductive, PTL
=============================================================================
