---------------------------- MODULE SessionProofs ----------------------------
(***************************************************************************)
(* Proofs about Session: its type invariant, and the three safety          *)
(* invariants of accounts and launch.  None of them is inductive: what a   *)
(* screen has depends on the call that presented it, so the calls in       *)
(* flight have to carry it.                                                *)
(***************************************************************************)
EXTENDS Session, SequenceTheorems, TLAPS

-----------------------------------------------------------------------------
(***************************************************************************)
(* The inductive invariant                                                 *)
(***************************************************************************)
WithProfile == {"verify", "verifyForgot", "change", "identity", "kit"}

\* What a screen of the stack presupposes; the launch screen is at the bottom
\* and nowhere else, and the kit never comes directly after it.
ScreenOK(name, d, ut, act, prof, au) ==
    /\ name = "home" <=> d = 1
    /\ name \in Types => act /\ name = ut
    /\ name \in WithProfile => prof # "none"
    /\ name \in Verifies => au # "none"
    /\ name = "kit" => d > 2

StackOK(s, ut, act, prof, au) ==
    \A d \in 1 .. Len(s) : ScreenOK(s[d].name, d, ut, act, prof, au)

\* What a call in flight presupposes: it was made by somebody who has chosen
\* a type; only the trip check is called from the launch screen, and while
\* that screen is there it waits for the remembered user; a call that stores
\* a profile has one; a call that leads to a screen with a profile comes
\* after it was stored.
CallOK(c, ut, act, prof, au, hm) ==
    /\ c.op # "idle" => ut # "none"
    /\ c.vc = 1 => c.op = "trip"
    /\ c.op = "trip" /\ c.vc # 0 => hm = "splash" /\ act /\ c.kind = ut
    /\ c.op \in {"login", "register", "forgot", "verifyUser", "profile", "trip"}
          => c.kind # "none"
    /\ c.op \in {"phoneRegister", "phoneForgot", "laterVerify",
                 "credentialForgot", "identity"} => prof # "none"
    /\ c.op = "laterVerify" => au # "none"

CallsOK(cs, ut, act, prof, au, hm) ==
    \A i \in Slots : CallOK(cs[i], ut, act, prof, au, hm)

\* The indicator over a screen has a call that removes it.  Over the kit it
\* may have none: then no dashboard has been opened above it.
Removers == RestOps \ {"saveKit"}
SpinnerOK(s, sp, cs) ==
    sp # 0 => \/ \E i \in Slots : cs[i].op \in Removers
              \/ /\ s[sp].name = "kit"
                 /\ \A d \in sp + 1 .. Len(s) : s[d].name \notin Types

AlertOK(s, a) ==
    /\ a.kind = "confirm" => s[Len(s)].name \in Types /\ a.vc = Len(s)
    /\ a.kind = "logout" => Len(s) <= 2

SavedOK == active \/ Depth > 1 => userType # "none"

SafeInv ==
    /\ SavedOK
    /\ StackOK(stack, userType, active, profile, auth)
    /\ CallsOK(calls, userType, active, profile, auth, home)
    /\ Alive => SpinnerOK(stack, spinner, calls)
    /\ AlertOK(stack, alert)

Inv == TypeOK /\ SafeInv

-----------------------------------------------------------------------------
(***************************************************************************)
(* Screens and the stack                                                   *)
(***************************************************************************)

\* The bounds are numbers above zero.
LEMMA BoundTypes == MaxDepth \in Nat /\ MaxDepth >= 1 /\ MaxCalls \in Nat
BY SessionBounds

\* A presented screen is a screen of the given name.
LEMMA ScreenType ==
    ASSUME NEW name \in Names
    PROVE  Screen(name) \in Screens /\ Screen(name).name = name
BY DEF Screen, Screens, Names, Types

\* One screen more on the stack: the others stay, and what the stack has to
\* satisfy is what the new screen has to.
LEMMA StackPush ==
    ASSUME NEW s \in Seq(Screens), NEW name \in Names,
           NEW ut, NEW act, NEW prof, NEW au,
           StackOK(s, ut, act, prof, au),
           ScreenOK(name, Len(s) + 1, ut, act, prof, au)
    PROVE  LET t == Append(s, Screen(name)) IN
           /\ t \in Seq(Screens) /\ Len(t) = Len(s) + 1
           /\ \A d \in 1 .. Len(s) : t[d] = s[d]
           /\ t[Len(t)].name = name
           /\ StackOK(t, ut, act, prof, au)
<1> DEFINE n == Len(s)
           t == Append(s, Screen(name))
<1>1. n \in Nat
  BY LenProperties
<1>2. Screen(name) \in Screens /\ Screen(name).name = name
  BY ScreenType
<1>3. /\ t \in Seq(Screens) /\ Len(t) = n + 1
      /\ \A d \in 1 .. n : t[d] = s[d]
      /\ t[n + 1] = Screen(name)
  BY <1>2, AppendProperties
<1>4. ASSUME NEW d \in 1 .. n + 1
      PROVE  ScreenOK(t[d].name, d, ut, act, prof, au)
  <2>1. CASE d \in 1 .. n
    BY <1>3, <2>1 DEF StackOK
  <2>2. CASE d = n + 1
    BY <1>2, <1>3, <2>2
  <2> QED BY <1>1, <2>1, <2>2
<1> QED BY <1>2, <1>3, <1>4 DEF StackOK

\* A stack stays right when a profile, an id or the flag is stored.
LEMMA StackMono ==
    ASSUME NEW s, NEW ut, NEW act, NEW prof, NEW au,
           NEW act2, NEW prof2, NEW au2,
           StackOK(s, ut, act, prof, au),
           act => act2,
           prof # "none" => prof2 # "none", au # "none" => au2 # "none"
    PROVE  StackOK(s, ut, act2, prof2, au2)
BY DEF StackOK, ScreenOK

\* Only the state of a screen changes, never its name.
LEMMA StackRestate ==
    ASSUME stack \in Seq(Screens), NEW d \in 1 .. Len(stack),
           NEW st \in {"none", "counting", "enabled", "used",
                       "empty", "noSizes", "sized"},
           stack' = [stack EXCEPT ![d].st = st]
    PROVE  /\ stack' \in Seq(Screens) /\ Len(stack') = Len(stack)
           /\ \A e \in 1 .. Len(stack) : stack'[e].name = stack[e].name
<1>1. stack[d] \in Screens
  BY ElementOfSeq
<1> DEFINE r == [stack[d] EXCEPT !.st = st]
<1>2. r \in Screens /\ r.name = stack[d].name
  BY <1>1 DEF Screens
<1>3. stack' = [stack EXCEPT ![d] = r]
  OBVIOUS
<1> HIDE DEF r
<1>4. stack' \in Seq(Screens) /\ Len(stack') = Len(stack)
  BY <1>2, <1>3, ExceptSeq
<1>5. \A e \in 1 .. Len(stack) : stack'[e] = IF e = d THEN r ELSE stack[e]
  BY <1>2, <1>3, ExceptSeq
<1> QED BY <1>2, <1>4, <1>5

\* The names are all that the stack has to satisfy.
LEMMA StackByNames ==
    ASSUME NEW s, NEW t, NEW ut, NEW act, NEW prof, NEW au,
           StackOK(s, ut, act, prof, au),
           Len(t) = Len(s), \A e \in 1 .. Len(s) : t[e].name = s[e].name
    PROVE  StackOK(t, ut, act, prof, au)
BY DEF StackOK

\* The stack of the launch screen alone.
LEMMA StackHome ==
    ASSUME NEW t, t = <<Screen("home")>>,
           NEW ut, NEW act, NEW prof, NEW au
    PROVE  /\ t \in Seq(Screens) /\ Len(t) = 1 /\ t[1].name = "home"
           /\ StackOK(t, ut, act, prof, au)
<1>1. Screen("home") \in Screens /\ Screen("home").name = "home"
  BY ScreenType DEF Names
<1>2. t \in Seq(Screens) /\ Len(t) = 1 /\ t[1].name = "home"
  BY <1>1
<1>3. ScreenOK("home", 1, ut, act, prof, au)
  BY DEF ScreenOK, Types, WithProfile, Verifies
<1> QED BY <1>2, <1>3 DEF StackOK

-----------------------------------------------------------------------------
(***************************************************************************)
(* Calls, the indicator and the alert                                      *)
(***************************************************************************)
CallsType(cs, n) ==
    cs \in [Slots -> Calls] /\ \A i \in Slots : cs[i].vc <= n

\* What a call presupposes stays when something is stored.
LEMMA CallsMono ==
    ASSUME NEW cs, NEW ut, NEW act, NEW prof, NEW au, NEW hm,
           NEW act2, NEW prof2, NEW au2,
           CallsOK(cs, ut, act, prof, au, hm),
           act => act2,
           prof # "none" => prof2 # "none", au # "none" => au2 # "none"
    PROVE  CallsOK(cs, ut, act2, prof2, au2, hm)
BY DEF CallsOK, CallOK

\* The idle slot presupposes nothing.
LEMMA IdleOK ==
    ASSUME NEW ut, NEW act, NEW prof, NEW au, NEW hm
    PROVE  /\ CallOK(Idle, ut, act, prof, au, hm)
           /\ Idle \in Calls /\ Idle.vc = 0 /\ Idle.op = "idle"
BY BoundTypes DEF CallOK, Idle, Calls, RestOps, OtherOps, Profiles, Types

\* More screens are no harm to the calls below them.
LEMMA CallsDeeper ==
    ASSUME NEW cs, NEW n \in Nat, NEW m \in Nat, n <= m, CallsType(cs, n)
    PROVE  CallsType(cs, m)
<1>1. \A j \in Slots : cs[j].vc \in Nat
  BY BoundTypes DEF CallsType, Calls
<1> QED BY <1>1 DEF CallsType

\* Without an indicator nothing has to remove it.
LEMMA SpinnerOff ==
    ASSUME NEW s, NEW cs
    PROVE  SpinnerOK(s, 0, cs)
BY DEF SpinnerOK

\* A call that removes the indicator is enough.
LEMMA SpinnerCalled ==
    ASSUME NEW s, NEW sp, NEW cs, NEW i \in Slots, cs[i].op \in Removers
    PROVE  SpinnerOK(s, sp, cs)
BY DEF SpinnerOK

\* The indicator stays where it is: the calls that remove it stay, and what
\* is presented over it is no dashboard.
LEMMA SpinnerStays ==
    ASSUME NEW s, NEW t, NEW sp, NEW cs, NEW ds,
           SpinnerOK(s, sp, cs),
           Len(s) \in Nat, Len(t) \in Nat, sp \in 0 .. Len(s), sp <= Len(t),
           \A j \in Slots : cs[j].op \in Removers => ds[j].op \in Removers,
           \A d \in 1 .. Len(s) : d <= Len(t) => t[d].name = s[d].name,
           \A d \in 1 .. Len(t) : d > Len(s) => t[d].name \notin Types
    PROVE  SpinnerOK(t, sp, ds)
<1>1. CASE sp = 0
  BY <1>1 DEF SpinnerOK
<1>2. CASE sp # 0 /\ \E i \in Slots : cs[i].op \in Removers
  BY <1>2 DEF SpinnerOK
<1>3. CASE /\ sp # 0 /\ s[sp].name = "kit"
           /\ \A d \in sp + 1 .. Len(s) : s[d].name \notin Types
  <2>1. t[sp].name = "kit"
    BY <1>3
  <2>2. ASSUME NEW d \in sp + 1 .. Len(t)
        PROVE  t[d].name \notin Types
    BY <1>3, <2>2
  <2> QED BY <2>1, <2>2 DEF SpinnerOK
<1> QED BY <1>1, <1>2, <1>3 DEF SpinnerOK

\* No alert asks for nothing.
LEMMA AlertOff ==
    ASSUME NEW s
    PROVE  AlertOK(s, NoAlert)
BY DEF AlertOK, NoAlert

\* An alert stays over the same names.
LEMMA AlertStays ==
    ASSUME NEW s, NEW t, NEW a, AlertOK(s, a), Len(t) = Len(s),
           t[Len(s)].name = s[Len(s)].name
    PROVE  AlertOK(t, a)
BY DEF AlertOK

\* present() and what it may put on the stack.
LEMMA Presented ==
    ASSUME TypeOK, NEW vc, NEW name \in Names, present(vc, name),
           NEW ut, NEW act, NEW prof, NEW au,
           StackOK(stack, ut, act, prof, au),
           Presents(vc) =>
               ScreenOK(name, Depth + 1, ut, act, prof, au)
    PROVE  /\ stack' \in Seq(Screens) /\ Len(stack') \in 1 .. MaxDepth
           /\ Len(stack') \in Depth .. Depth + 1
           /\ \A d \in 1 .. Depth : stack'[d] = stack[d]
           /\ \A d \in 1 .. Len(stack') : d > Depth => stack'[d].name = name
           /\ Presents(vc) => /\ Len(stack') = Depth + 1
                              /\ Depth + 1 \in 1 .. MaxDepth
           /\ ~Presents(vc) => stack' = stack
           /\ StackOK(stack', ut, act, prof, au)
           /\ AlertOK(stack, alert) => AlertOK(stack', alert)
<1>1. /\ Depth \in Nat /\ Depth \in 1 .. MaxDepth /\ stack \in Seq(Screens)
      /\ Depth = Len(stack)
  BY BoundTypes DEF TypeOK, Depth
<1>2. CASE Presents(vc)
  <2>1. /\ Depth < MaxDepth /\ stack' = Append(stack, Screen(name))
        /\ alert = NoAlert
    BY <1>2 DEF present, Presents
  <2>2. /\ stack' \in Seq(Screens) /\ Len(stack') = Depth + 1
        /\ \A d \in 1 .. Depth : stack'[d] = stack[d]
        /\ stack'[Len(stack')].name = name
        /\ StackOK(stack', ut, act, prof, au)
    <3>1. ScreenOK(name, Len(stack) + 1, ut, act, prof, au)
      BY <1>1, <1>2
    <3>2. /\ stack' \in Seq(Screens) /\ Len(stack') = Len(stack) + 1
          /\ \A d \in 1 .. Len(stack) : stack'[d] = stack[d]
          /\ stack'[Len(stack')].name = name
          /\ StackOK(stack', ut, act, prof, au)
      BY <1>1, <2>1, <3>1, StackPush
    <3> QED BY <1>1, <3>2
  <2>3. AlertOK(stack', alert)
    BY <2>1, AlertOff
  <2>4. \A d \in 1 .. Len(stack') : d > Depth => d = Len(stack')
    BY <1>1, <2>2
  <2> QED BY <1>1, <1>2, <2>1, <2>2, <2>3, <2>4, BoundTypes
<1>3. CASE ~Presents(vc)
  <2>1. stack' = stack
    BY <1>3 DEF present
  <2> QED BY <1>1, <1>3, <2>1, BoundTypes
<1> QED BY <1>2, <1>3

-----------------------------------------------------------------------------
(***************************************************************************)
(* The invariant, one part for each variable a step can change             *)
(***************************************************************************)
SavedInv ==
    /\ userType \in Profiles /\ active \in BOOLEAN
    /\ profile \in Profiles /\ auth \in {"none", "valid", "empty"}
    /\ fault \in Faults /\ home \in {"launching", "splash", "choose"}
    /\ active => userType # "none"
StackInv ==
    /\ stack \in Seq(Screens) /\ Len(stack) \in 1 .. MaxDepth
    /\ Len(stack) > 1 => userType # "none"
    /\ StackOK(stack, userType, active, profile, auth)
CallsInv ==
    /\ CallsType(calls, Len(stack))
    /\ CallsOK(calls, userType, active, profile, auth, home)
SpinnerInv ==
    /\ spinner \in 0 .. Len(stack)
    /\ fault = "none" => SpinnerOK(stack, spinner, calls)
AlertInv ==
    /\ alert \in [kind : {"none", "error", "logout", "confirm"},
                  vc : 0 .. MaxDepth]
    /\ AlertOK(stack, alert)
Parts == SavedInv /\ StackInv /\ CallsInv /\ SpinnerInv /\ AlertInv

\* The parts are the invariant.
LEMMA InvParts == Inv <=> Parts
<1>1. Inv => Parts
  BY BoundTypes DEF Inv, TypeOK, SafeInv, SavedOK, Depth, Alive, Parts, SavedInv,
     StackInv, CallsInv, CallsType, SpinnerInv, AlertInv
<1>2. Parts => Inv
  BY BoundTypes DEF Inv, TypeOK, SafeInv, SavedOK, Depth, Alive, Parts, SavedInv,
     StackInv, CallsInv, CallsType, SpinnerInv, AlertInv
<1> QED BY <1>1, <1>2

\* Nothing stored is lost, and the user type and the launch screen stay: what
\* all steps do but those of the launch screen, of logging out, and Relaunch.
SavedMono ==
    /\ userType' = userType /\ home' = home
    /\ active => active'
    /\ profile # "none" => profile' # "none"
    /\ auth # "none" => auth' # "none"

\* The numbers that the other steps compare.
LEMMA Numbers ==
    ASSUME Parts
    PROVE  /\ Len(stack) \in Nat /\ Len(stack) >= 1 /\ Len(stack) <= MaxDepth
           /\ stack \in Seq(Screens) /\ Depth = Len(stack)
           /\ spinner \in Nat /\ spinner <= Len(stack)
           /\ calls \in [Slots -> Calls]
           /\ \A i \in Slots : /\ calls[i].vc \in 0 .. MaxDepth
                               /\ calls[i].vc <= Len(stack)
                               /\ calls[i].kind \in Profiles
           /\ \A d \in 1 .. Len(stack) : stack[d] \in Screens
           /\ TypeOK
<1>1. Inv
  BY InvParts
<1>2. TypeOK
  BY <1>1 DEF Inv
<1>3. \A d \in 1 .. Len(stack) : stack[d] \in Screens
  BY <1>2, ElementOfSeq DEF TypeOK
<1> QED BY <1>2, <1>3, BoundTypes DEF TypeOK, Depth, Calls

\* The stack stays.
LEMMA StackKept ==
    ASSUME Parts, SavedMono, stack' = stack
    PROVE  StackInv'
<1>1. StackOK(stack, userType, active', profile', auth')
  BY StackMono DEF Parts, StackInv, SavedMono
<1> QED BY <1>1 DEF Parts, StackInv, SavedMono

\* A screen is presented.
LEMMA StackPresented ==
    ASSUME Parts, SavedMono, NEW vc, NEW name \in Names, present(vc, name),
           Presents(vc) => /\ userType # "none"
                           /\ ScreenOK(name, Len(stack) + 1, userType, active',
                                       profile', auth')
    PROVE  /\ StackInv' /\ Len(stack') \in Nat /\ Len(stack') >= Len(stack)
           /\ \A d \in 1 .. Len(stack) : stack'[d] = stack[d]
           /\ \A d \in 1 .. Len(stack') : d > Len(stack) => stack'[d].name = name
           /\ Presents(vc) => /\ Len(stack') = Len(stack) + 1
                              /\ Len(stack) + 1 \in 1 .. MaxDepth
           /\ ~Presents(vc) => stack' = stack
           /\ alert' = alert => AlertInv'
<1>1. StackOK(stack, userType, active', profile', auth')
  BY StackMono DEF Parts, StackInv, SavedMono
<1>2. TypeOK /\ Depth = Len(stack) /\ Len(stack) \in Nat
  BY Numbers
<1>3. Presents(vc) =>
          ScreenOK(name, Depth + 1, userType, active', profile', auth')
  BY <1>2
<1>4. /\ stack' \in Seq(Screens) /\ Len(stack') \in 1 .. MaxDepth
      /\ Len(stack') \in Depth .. Depth + 1
      /\ \A d \in 1 .. Depth : stack'[d] = stack[d]
      /\ \A d \in 1 .. Len(stack') : d > Depth => stack'[d].name = name
      /\ Presents(vc) => /\ Len(stack') = Depth + 1
                         /\ Depth + 1 \in 1 .. MaxDepth
      /\ ~Presents(vc) => stack' = stack
      /\ StackOK(stack', userType, active', profile', auth')
      /\ AlertOK(stack, alert) => AlertOK(stack', alert)
  BY <1>1, <1>2, <1>3, Presented
<1>5. StackInv'
  <2>1. Len(stack') > 1 => userType # "none"
    BY <1>2, <1>4 DEF Parts, StackInv
  <2> QED BY <1>4, <2>1 DEF StackInv, SavedMono
<1>6. alert' = alert => AlertInv'
  BY <1>4 DEF Parts, AlertInv
<1> QED BY <1>2, <1>4, <1>5, <1>6, BoundTypes

\* The calls stay, under a stack that may be deeper.
LEMMA CallsKept ==
    ASSUME Parts, SavedMono, calls' = calls,
           Len(stack') \in Nat, Len(stack') >= Len(stack)
    PROVE  CallsInv'
<1>1. CallsOK(calls, userType, active', profile', auth', home)
  BY CallsMono DEF Parts, CallsInv, SavedMono
<1>2. CallsType(calls, Len(stack'))
  BY CallsDeeper, Numbers DEF Parts, CallsInv
<1> QED BY <1>1, <1>2 DEF CallsInv, SavedMono

\* One call of them is replaced.
LEMMA CallsReplaced ==
    ASSUME Parts, SavedMono, NEW i \in Slots, NEW c \in Calls,
           calls' = [calls EXCEPT ![i] = c],
           Len(stack') \in Nat, Len(stack') >= Len(stack), c.vc <= Len(stack'),
           CallOK(c, userType, active', profile', auth', home)
    PROVE  /\ CallsInv' /\ calls'[i] = c
           /\ \A j \in Slots : j # i => calls'[j] = calls[j]
<1>1. CallsOK(calls, userType, active', profile', auth', home)
  BY CallsMono DEF Parts, CallsInv, SavedMono
<1>2. CallsType(calls, Len(stack)) /\ Len(stack) \in Nat
  BY Numbers DEF Parts, CallsInv
<1>3. /\ calls' \in [Slots -> Calls] /\ calls'[i] = c
      /\ \A j \in Slots : j # i => calls'[j] = calls[j]
  BY <1>2 DEF CallsType
<1>4. \A j \in Slots : calls[j].vc \in Nat /\ calls[j].vc <= Len(stack)
  BY <1>2, BoundTypes DEF CallsType, Calls
<1>5. \A j \in Slots : calls'[j].vc <= Len(stack')
  BY <1>2, <1>3, <1>4
<1>6. CallsOK(calls', userType, active', profile', auth', home)
  BY <1>1, <1>3 DEF CallsOK
<1> QED BY <1>3, <1>5, <1>6 DEF CallsInv, CallsType, SavedMono

\* A call ends.
LEMMA CallsDone ==
    ASSUME Parts, SavedMono, NEW i \in Slots, Done(i),
           Len(stack') \in Nat, Len(stack') >= Len(stack)
    PROVE  /\ CallsInv' /\ \A j \in Slots : j # i => calls'[j] = calls[j]
<1>1. /\ CallOK(Idle, userType, active', profile', auth', home)
      /\ Idle \in Calls /\ Idle.vc = 0
  BY IdleOK
<1>2. Idle.vc <= Len(stack')
  BY <1>1
<1>3. calls' = [calls EXCEPT ![i] = Idle]
  BY DEF Done
<1> QED BY <1>1, <1>2, <1>3, CallsReplaced

\* The indicator is removed, shown with a call that removes it, or left to
\* a process that ends.
LEMMA SpinnerChanged ==
    ASSUME Len(stack') \in Nat, spinner' \in 0 .. Len(stack'),
           \/ spinner' = 0 \/ fault' # "none"
           \/ \E i \in Slots : calls'[i].op \in Removers
    PROVE  SpinnerInv'
BY DEF SpinnerInv, SpinnerOK

\* The indicator stays; call i, if any, did not remove it.
LEMMA SpinnerKept ==
    ASSUME Parts, fault = "none", spinner' = spinner,
           Len(stack') \in Nat, Len(stack') >= Len(stack),
           \A j \in Slots : calls[j].op \in Removers => calls'[j].op \in Removers,
           \A d \in 1 .. Len(stack) : stack'[d].name = stack[d].name,
           \A d \in 1 .. Len(stack') : d > Len(stack) => stack'[d].name \notin Types
    PROVE  SpinnerInv'
<1>1. SpinnerOK(stack, spinner, calls) /\ Len(stack) \in Nat
      /\ spinner \in 0 .. Len(stack)
  BY Numbers DEF Parts, SpinnerInv
<1>2. spinner \in 0 .. Len(stack') /\ spinner <= Len(stack')
  BY <1>1
<1>3. SpinnerOK(stack', spinner, calls')
  BY <1>1, <1>2, SpinnerStays
<1> QED BY <1>2, <1>3 DEF SpinnerInv

-----------------------------------------------------------------------------
(***************************************************************************)
(* Buttons                                                                 *)
(***************************************************************************)

\* A button of a screen other than the launch screen: somebody has chosen a
\* type, and no alert is shown.
LEMMA AtScreen ==
    ASSUME Parts, NEW names, UserAt(names), "home" \notin names
    PROVE  /\ Len(stack) >= 2 /\ userType # "none"
           /\ fault = "none" /\ alert = NoAlert /\ spinner # Len(stack)
           /\ stack[Len(stack)].name \in names
<1>1. /\ Depth = Len(stack) /\ Len(stack) \in Nat /\ Len(stack) >= 1
      /\ Len(stack) \in 1 .. Len(stack)
  BY Numbers
<1>2. /\ fault = "none" /\ alert = NoAlert /\ spinner # Len(stack)
      /\ stack[Len(stack)].name \in names
  BY <1>1 DEF UserAt, Alive, TopName
<1>3. Len(stack) # 1
  BY <1>1, <1>2 DEF Parts, StackInv, StackOK, ScreenOK
<1>4. userType # "none"
  BY <1>1, <1>3 DEF Parts, StackInv
<1> QED BY <1>1, <1>2, <1>3, <1>4

\* Nothing stored changes.
LEMMA SavedKept ==
    ASSUME Parts, UNCHANGED <<savedVars, home>>
    PROVE  SavedMono /\ (fault' \in Faults => SavedInv')
BY DEF savedVars, SavedMono, Parts, SavedInv

\* An alert stays over a stack that stays.
LEMMA AlertKept ==
    ASSUME Parts, alert' = alert, stack' = stack
    PROVE  AlertInv'
BY DEF Parts, AlertInv

\* The record of a call.
LEMMA CallType ==
    ASSUME NEW op \in RestOps \cup OtherOps, NEW vc \in 0 .. MaxDepth,
           NEW kind \in Profiles
    PROVE  LET c == [op |-> op, vc |-> vc, kind |-> kind] IN
           c \in Calls /\ c.op = op /\ c.vc = vc /\ c.kind = kind
BY DEF Calls

\* What a call made from a presented screen presupposes: it is not the trip
\* check of the launch screen.
LEMMA CallMade ==
    ASSUME NEW op, NEW vc \in Nat, NEW kind, NEW ut, NEW act, NEW prof, NEW au,
           NEW hm, ut # "none", op # "trip", vc # 1,
           op \in {"login", "register", "forgot", "verifyUser", "profile"} =>
               kind # "none",
           op \in {"phoneRegister", "phoneForgot", "laterVerify",
                  "credentialForgot", "identity"}
               => prof # "none",
           op = "laterVerify" => au # "none"
    PROVE  CallOK([op |-> op, vc |-> vc, kind |-> kind],
                  ut, act, prof, au, hm)
<1> DEFINE c == [op |-> op, vc |-> vc, kind |-> kind]
<1>1. c.op = op /\ c.vc = vc /\ c.kind = kind
  OBVIOUS
<1> HIDE DEF c
<1>2. CallOK(c, ut, act, prof, au, hm)
  BY <1>1 DEF CallOK
<1> QED BY <1>2 DEF c

\* A call is sent without the indicator.
LEMMA Asked ==
    ASSUME Parts, SavedMono, NEW op \in RestOps \cup OtherOps,
           NEW kind \in Profiles, ask(op, kind), stack' = stack,
           CallOK([op |-> op, vc |-> Len(stack), kind |-> kind],
                  userType, active', profile', auth', home)
    PROVE  /\ CallsInv'
           /\ \E i \in Slots : calls'[i].op = op
           /\ \A j \in Slots : calls[j].op \in Removers =>
                                   calls'[j].op \in Removers
<1> DEFINE c == [op |-> op, vc |-> Len(stack), kind |-> kind]
<1>1. /\ Len(stack) \in Nat /\ Len(stack) >= 1 /\ Len(stack) <= MaxDepth
      /\ Depth = Len(stack)
  BY Numbers
<1>2. Len(stack) \in 0 .. MaxDepth
  BY <1>1, BoundTypes
<1>3. c \in Calls /\ c.op = op /\ c.vc = Len(stack)
  BY <1>2, CallType
<1>4. PICK i \in Slots : calls[i] = Idle /\ calls' = [calls EXCEPT ![i] = c]
  BY <1>1 DEF ask
<1>5. c.vc <= Len(stack') /\ Len(stack') \in Nat /\ Len(stack') >= Len(stack)
  BY <1>1, <1>3
<1>6. CallOK(c, userType, active', profile', auth', home)
  OBVIOUS
<1> HIDE DEF c
<1>7. /\ CallsInv' /\ calls'[i] = c
      /\ \A j \in Slots : j # i => calls'[j] = calls[j]
  BY <1>3, <1>4, <1>5, <1>6, CallsReplaced
<1>8. "idle" \notin Removers /\ Idle.op = "idle"
  BY DEF Removers, RestOps, Idle
<1> QED BY <1>3, <1>4, <1>7, <1>8

\* A call is sent under the indicator, or there is no internet.
LEMMA Requested ==
    ASSUME Parts, fault = "none", SavedMono, NEW op \in RestOps,
           NEW kind \in Profiles, request(op, kind), stack' = stack,
           CallOK([op |-> op, vc |-> Len(stack), kind |-> kind],
                  userType, active', profile', auth', home),
           op = "saveKit" => stack[Len(stack)].name = "kit"
    PROVE  CallsInv' /\ SpinnerInv'
<1>1. /\ Len(stack) \in Nat /\ Len(stack) >= 1 /\ Depth = Len(stack)
      /\ Len(stack') \in Nat /\ Len(stack') >= Len(stack)
  BY Numbers
<1>2. CASE ask(op, kind) /\ spinner' = Depth
  <2>1. CallsInv' /\ \E i \in Slots : calls'[i].op = op
    BY <1>2, Asked
  <2>2. spinner' \in 0 .. Len(stack')
    BY <1>1, <1>2
  <2>3. CASE op = "saveKit"
    <3>1. stack'[spinner'].name = "kit"
      BY <1>1, <1>2, <2>3
    <3>2. spinner' + 1 .. Len(stack') = {}
      BY <1>1, <1>2
    <3>3. SpinnerOK(stack', spinner', calls')
      BY <3>1, <3>2 DEF SpinnerOK
    <3> QED BY <2>1, <2>2, <3>3 DEF SpinnerInv
  <2>4. CASE op # "saveKit"
    <3>1. \E i \in Slots : calls'[i].op \in Removers
      BY <2>1, <2>4 DEF Removers
    <3> QED BY <1>1, <2>1, <2>2, <3>1, SpinnerChanged
  <2> QED BY <2>3, <2>4
<1>3. CASE spinner' = 0 /\ calls' = calls
  <2>1. CallsInv'
    BY <1>1, <1>3, CallsKept
  <2>2. spinner' \in 0 .. Len(stack')
    BY <1>1, <1>3
  <2> QED BY <1>1, <1>3, <2>1, <2>2, SpinnerChanged
<1>4. \/ ask(op, kind) /\ spinner' = Depth
      \/ spinner' = 0 /\ calls' = calls
  BY Zenon DEF request, ask, Offline
<1> QED BY <1>2, <1>3, <1>4

\* Sign in, sign up, a forgotten password: the call knows the chosen type.
LEMMA AccountButtonsSafe ==
    ASSUME Parts, signInButtonAction \/ signupButtonAction \/ sendButtonAction
    PROVE  Parts'
<1>1. PICK op \in {"login", "register", "forgot"}, name \in {"signin", "signup", "forgot"} :
          /\ UserAt({name}) /\ request(op, userType)
          /\ UNCHANGED <<savedVars, fault, home, stack, alert>>
  BY Zenon DEF signInButtonAction, signupButtonAction, sendButtonAction
<1>2. /\ Len(stack) >= 2 /\ userType # "none" /\ fault = "none"
      /\ Len(stack) \in Nat
  BY <1>1, AtScreen, Numbers
<1>3. SavedMono /\ SavedInv'
  BY <1>1, SavedKept DEF Parts, SavedInv
<1>4. StackInv' /\ AlertInv'
  BY <1>1, <1>3, StackKept, AlertKept
<1>5. CallsInv' /\ SpinnerInv'
  <2>1. op \in RestOps /\ userType \in Profiles /\ op # "saveKit"
    BY DEF RestOps, Parts, SavedInv
  <2>2. CallOK([op |-> op, vc |-> Len(stack), kind |-> userType],
               userType, active', profile', auth', home)
    BY <1>2, CallMade
  <2> QED BY <1>1, <1>2, <1>3, <2>1, <2>2, Requested
<1> QED BY <1>3, <1>4, <1>5 DEF Parts

\* From sign in to sign up or to the forgotten password.
LEMMA OpenFromSignInSafe ==
    ASSUME Parts, NEW name \in {"forgot", "signup"}, openFromSignIn(name)
    PROVE  Parts'
<1>1. /\ UserAt({"signin"}) /\ present(Depth, name)
      /\ UNCHANGED <<savedVars, fault, home, alert, spinner, calls>>
  BY DEF openFromSignIn
<1>2. /\ Len(stack) >= 2 /\ userType # "none" /\ fault = "none"
      /\ Len(stack) \in Nat
  BY <1>1, AtScreen, Numbers
<1>3. SavedMono /\ SavedInv'
  BY <1>1, SavedKept DEF Parts, SavedInv
<1>4. name \in Names /\ name \notin Types
  BY DEF Names, Types
<1>5. ScreenOK(name, Len(stack) + 1, userType, active', profile', auth')
  BY <1>2 DEF ScreenOK, Types, WithProfile, Verifies
<1>6. /\ StackInv' /\ AlertInv'
      /\ Len(stack') \in Nat /\ Len(stack') >= Len(stack)
      /\ \A d \in 1 .. Len(stack) : stack'[d] = stack[d]
      /\ \A d \in 1 .. Len(stack') : d > Len(stack) => stack'[d].name = name
  BY <1>1, <1>2, <1>3, <1>4, <1>5, StackPresented
<1>7. CallsInv'
  BY <1>1, <1>3, <1>6, CallsKept
<1>8. SpinnerInv'
  BY <1>1, <1>2, <1>4, <1>6, SpinnerKept
<1> QED BY <1>3, <1>6, <1>7, <1>8 DEF Parts

\* The indicator is left alone, and so is every call that removes it.
LEMMA SpinnerAlone ==
    ASSUME Parts, fault = "none", spinner' = spinner, stack' = stack,
           \A j \in Slots : calls[j].op \in Removers => calls'[j].op \in Removers
    PROVE  SpinnerInv'
<1>1. Len(stack') \in Nat /\ Len(stack') >= Len(stack)
  BY Numbers
<1>2. /\ \A d \in 1 .. Len(stack) : stack'[d].name = stack[d].name
      /\ \A d \in 1 .. Len(stack') : d > Len(stack) => stack'[d].name \notin Types
  BY Numbers
<1> QED BY <1>1, <1>2, SpinnerKept

\* Dismissing the screen on top: its calls lose it, the indicator is below.
LEMMA BackButtonSafe ==
    ASSUME Parts, backButtonAction
    PROVE  Parts'
<1>1. /\ UserAt(Names \ (Types \cup {"home"}))
      /\ stack' = SubSeq(stack, 1, Len(stack) - 1)
      /\ calls' = [i \in Slots |-> IF calls[i].vc = Len(stack)
                                   THEN [calls[i] EXCEPT !.vc = 0] ELSE calls[i]]
      /\ UNCHANGED <<savedVars, fault, home, alert, spinner>>
  BY Numbers DEF backButtonAction
<1>2. /\ Len(stack) >= 2 /\ userType # "none" /\ fault = "none"
      /\ alert = NoAlert /\ spinner # Len(stack)
  BY <1>1, AtScreen
<1>3. /\ Len(stack) \in Nat /\ Len(stack) <= MaxDepth /\ spinner \in Nat
      /\ spinner <= Len(stack)
      /\ \A d \in 1 .. Len(stack) : stack[d] \in Screens
  BY Numbers
<1>4. SavedMono /\ SavedInv'
  BY <1>1, SavedKept DEF Parts, SavedInv
<1>5. /\ stack' \in Seq(Screens) /\ Len(stack') = Len(stack) - 1
      /\ \A d \in 1 .. Len(stack) - 1 : stack'[d] = stack[d]
  BY <1>1, <1>2, <1>3
<1>6. StackInv'
  <2>1. StackOK(stack', userType, active, profile, auth)
    BY <1>2, <1>3, <1>5 DEF Parts, StackInv, StackOK
  <2> QED BY <1>1, <1>2, <1>3, <1>5, <2>1, BoundTypes DEF StackInv, savedVars
<1>7. CallsInv' /\ \A j \in Slots : calls'[j].op = calls[j].op
  <2>1. ASSUME NEW j \in Slots
        PROVE  /\ calls'[j] \in Calls /\ calls'[j].vc <= Len(stack) - 1
               /\ calls'[j].op = calls[j].op
               /\ calls'[j].kind = calls[j].kind
               /\ calls'[j].vc \in {0, calls[j].vc}
    <3>1. calls[j] \in Calls /\ calls[j].vc <= Len(stack) /\ calls[j].vc \in Nat
      BY BoundTypes, Numbers DEF Calls
    <3>2. CASE calls[j].vc = Len(stack)
      <4>1. calls'[j] = [calls[j] EXCEPT !.vc = 0]
        BY <1>1, <3>2
      <4> QED BY <1>2, <1>3, <3>1, <4>1, BoundTypes DEF Calls
    <3>3. CASE calls[j].vc # Len(stack)
      BY <1>1, <1>3, <3>1, <3>3
    <3> QED BY <3>2, <3>3
  <2>2. CallsType(calls', Len(stack'))
    BY <1>1, <1>5, <2>1 DEF CallsType
  <2>3. CallsOK(calls', userType, active, profile, auth, home)
    BY <2>1, BoundTypes DEF Parts, CallsInv, CallsOK, CallOK
  <2> QED BY <1>1, <2>1, <2>2, <2>3 DEF CallsInv, savedVars
<1>8. SpinnerInv'
  <2>1. SpinnerOK(stack, spinner, calls)
    BY <1>2 DEF Parts, SpinnerInv
  <2>2. /\ Len(stack') \in Nat /\ spinner \in 0 .. Len(stack')
        /\ spinner \in 0 .. Len(stack) /\ spinner <= Len(stack')
        /\ \A d \in 1 .. Len(stack) : d <= Len(stack') =>
               stack'[d].name = stack[d].name
        /\ \A d \in 1 .. Len(stack') : ~(d > Len(stack))
    BY <1>2, <1>3, <1>5
  <2>3. SpinnerOK(stack', spinner, calls')
    BY <1>3, <1>7, <2>1, <2>2, SpinnerStays
  <2> QED BY <1>1, <2>2, <2>3 DEF SpinnerInv
<1>9. AlertInv'
  BY <1>1, <1>2, AlertOff DEF Parts, AlertInv
<1> QED BY <1>4, <1>6, <1>7, <1>8, <1>9 DEF Parts

\* Verify and resend: a call only once a profile is stored.
LEMMA VerifyButtonsSafe ==
    ASSUME Parts, verifyButtonAction \/ btnResendPressed
    PROVE  Parts'
<1>1. /\ UserAt(Verifies)
      /\ UNCHANGED <<savedVars, home, stack, alert, spinner>>
      /\ \/ fault' = "profile" /\ calls' = calls
         \/ /\ profile # "none" /\ fault' = fault
            /\ \E op \in {"badCredential", "credential", "credentialForgot",
                          "resend"}, kind \in {profile, "none"} : ask(op, kind)
  BY Zenon DEF verifyButtonAction, btnResendPressed
<1>2. /\ Len(stack) >= 2 /\ userType # "none" /\ fault = "none"
      /\ Len(stack) \in Nat
  BY <1>1, AtScreen, Numbers DEF Verifies
<1>3. SavedMono /\ SavedInv'
  BY <1>1, SavedKept DEF Parts, SavedInv, Faults
<1>4. StackInv' /\ AlertInv'
  BY <1>1, <1>3, StackKept, AlertKept
<1>5. /\ CallsInv'
      /\ \A j \in Slots : calls[j].op \in Removers => calls'[j].op \in Removers
  <2>1. CASE fault' = "profile" /\ calls' = calls
    BY <1>1, <1>2, <1>3, <2>1, CallsKept
  <2>2. ASSUME profile # "none",
               NEW op \in {"badCredential", "credential", "credentialForgot",
                           "resend"},
               NEW kind \in {profile, "none"}, ask(op, kind)
        PROVE  /\ CallsInv'
               /\ \A j \in Slots : calls[j].op \in Removers =>
                                       calls'[j].op \in Removers
    <3>1. op \in RestOps \cup OtherOps /\ kind \in Profiles
      BY DEF OtherOps, Parts, SavedInv, Profiles
    <3>2. profile' # "none"
      BY <1>3, <2>2 DEF SavedMono
    <3>3. CallOK([op |-> op, vc |-> Len(stack), kind |-> kind],
                 userType, active', profile', auth', home)
      BY <1>2, <3>2, CallMade
    <3> QED BY <1>1, <1>3, <2>2, <3>1, <3>3, Asked
  <2> QED BY <1>1, <2>1, <2>2
<1>6. SpinnerInv'
  BY <1>1, <1>2, <1>5, SpinnerAlone
<1> QED BY <1>3, <1>4, <1>5, <1>6 DEF Parts

\* The new password, the identity and the kit: a call only with the profile
\* of the type they ask for.
LEMMA ProfileButtonsSafe ==
    ASSUME Parts, doneButtonAction \/ uploadImages \/ kitNextPressed
    PROVE  Parts'
<1>1. /\ UserAt({"change"}) \/ UserAt({"identity"}) \/ UserAt({"kit"})
      /\ UNCHANGED <<savedVars, home, stack, alert>>
      /\ \/ spinner' = 0 /\ fault' = fault /\ calls' = calls
         \/ /\ fault' \in {"profile", "ClientId", "ProviderId"}
            /\ calls' = calls /\ spinner' = spinner
         \/ request("reset", userType) /\ fault' = fault
         \/ request("identity", "provider") /\ fault' = fault
            /\ profile = "provider"
         \/ request("saveKit", "provider") /\ fault' = fault
            /\ UserAt({"kit"})
  <2>1. CASE doneButtonAction
    BY <2>1 DEF doneButtonAction, IdName
  <2>2. CASE uploadImages
    BY <2>2 DEF uploadImages
  <2>3. CASE kitNextPressed
    BY <2>3 DEF kitNextPressed
  <2> QED BY <2>1, <2>2, <2>3
<1>2. /\ Len(stack) >= 2 /\ userType # "none" /\ fault = "none"
      /\ Len(stack) \in Nat
  BY <1>1, AtScreen, Numbers
<1>3. /\ SavedMono
      /\ fault' \in {"none", "profile", "ClientId", "ProviderId"} => SavedInv'
  BY <1>1, SavedKept DEF Faults
<1>4. SavedInv'
  BY <1>1, <1>2, <1>3
<1>5. StackInv' /\ AlertInv'
  BY <1>1, <1>3, StackKept, AlertKept
<1>6. CASE spinner' = 0 /\ fault' = fault /\ calls' = calls
  <2>1. CallsInv'
    BY <1>1, <1>2, <1>3, <1>6, CallsKept
  <2>2. SpinnerInv'
    BY <1>1, <1>2, <1>6, SpinnerChanged
  <2> QED BY <1>4, <1>5, <2>1, <2>2 DEF Parts
<1>7. CASE calls' = calls /\ spinner' = spinner
  <2>1. CallsInv'
    BY <1>1, <1>2, <1>3, <1>7, CallsKept
  <2>2. SpinnerInv'
    BY <1>1, <1>2, <1>7, SpinnerAlone
  <2> QED BY <1>4, <1>5, <2>1, <2>2 DEF Parts
<1>8. CASE request("reset", userType)
  <2>1. "reset" \in RestOps /\ userType \in Profiles
    BY DEF RestOps, Parts, SavedInv
  <2>2. CallOK([op |-> "reset", vc |-> Len(stack), kind |-> userType],
               userType, active', profile', auth', home)
    BY <1>2, CallMade
  <2>3. CallsInv' /\ SpinnerInv'
    BY <1>1, <1>2, <1>3, <1>8, <2>1, <2>2, Requested
  <2> QED BY <1>4, <1>5, <2>3 DEF Parts
<1>9. CASE request("identity", "provider") /\ profile = "provider"
  <2>1. "identity" \in RestOps /\ "provider" \in Profiles
    BY DEF RestOps, Profiles, Types
  <2>2. profile' # "none"
    BY <1>3, <1>9 DEF SavedMono
  <2>3. CallOK([op |-> "identity", vc |-> Len(stack), kind |-> "provider"],
               userType, active', profile', auth', home)
    BY <1>2, <2>2, CallMade
  <2>4. CallsInv' /\ SpinnerInv'
    BY <1>1, <1>2, <1>3, <1>9, <2>1, <2>3, Requested
  <2> QED BY <1>4, <1>5, <2>4 DEF Parts
<1>10. CASE request("saveKit", "provider") /\ UserAt({"kit"})
  <2>1. "saveKit" \in RestOps /\ "provider" \in Profiles
    BY DEF RestOps, Profiles, Types
  <2>2. CallOK([op |-> "saveKit", vc |-> Len(stack), kind |-> "provider"],
               userType, active', profile', auth', home)
    BY <1>2, CallMade
  <2>3. stack[Len(stack)].name = "kit"
    BY <1>10, AtScreen
  <2>4. CallsInv' /\ SpinnerInv'
    BY <1>1, <1>2, <1>3, <1>10, <2>1, <2>2, <2>3, Requested
  <2> QED BY <1>4, <1>5, <2>4 DEF Parts
<1> QED BY <1>1, <1>6, <1>7, <1>8, <1>9, <1>10

\* The question before logging out is raised by a dashboard on top.
LEMMA LogoutPressedSafe ==
    ASSUME Parts, logoutPressed
    PROVE  Parts'
<1>1. /\ UserAt(Types) /\ alert' = [kind |-> "confirm", vc |-> Len(stack)]
      /\ UNCHANGED <<savedVars, fault, home, stack, spinner, calls>>
  BY Numbers DEF logoutPressed
<1>2. /\ Len(stack) \in Nat /\ Len(stack) <= MaxDepth /\ Len(stack) >= 1
      /\ fault = "none" /\ stack[Len(stack)].name \in Types
  BY <1>1, AtScreen, Numbers DEF Types
<1>3. SavedMono /\ SavedInv'
  BY <1>1, SavedKept DEF Parts, SavedInv
<1>4. StackInv'
  BY <1>1, <1>3, StackKept
<1>5. CallsInv'
  BY <1>1, <1>2, <1>3, CallsKept
<1>6. SpinnerInv'
  BY <1>1, <1>2, SpinnerAlone
<1>7. AlertInv'
  BY <1>1, <1>2, BoundTypes DEF AlertInv, AlertOK
<1> QED BY <1>3, <1>4, <1>5, <1>6, <1>7 DEF Parts

\* A screen's state changes and nothing else: the resend timer.
LEMMA ResendTimerSafe ==
    ASSUME Parts, NEW d \in 1 .. MaxDepth, resendTimer(d)
    PROVE  Parts'
<1>1. /\ d \in 1 .. Len(stack) /\ fault = "none"
      /\ stack' = [stack EXCEPT ![d].st = "enabled"]
      /\ UNCHANGED <<savedVars, fault, home, alert, spinner, calls>>
  BY Numbers, BoundTypes DEF resendTimer, Alive
<1>2. /\ stack' \in Seq(Screens) /\ Len(stack') = Len(stack)
      /\ \A e \in 1 .. Len(stack) : stack'[e].name = stack[e].name
  <2>1. stack \in Seq(Screens)
    BY Numbers
  <2> QED BY <1>1, <2>1, StackRestate
<1>3. SavedMono /\ SavedInv'
  BY <1>1, SavedKept DEF Parts, SavedInv
<1>4. StackInv'
  <2>1. StackOK(stack', userType, active, profile, auth)
    BY <1>2, StackByNames DEF Parts, StackInv
  <2> QED BY <1>1, <1>2, <2>1 DEF Parts, StackInv, savedVars
<1>5. CallsInv'
  BY <1>1, <1>2, <1>3, CallsKept, Numbers
<1>6. SpinnerInv'
  <2>1. \A e \in 1 .. Len(stack') : ~(e > Len(stack))
    BY <1>2, Numbers
  <2>2. Len(stack') \in Nat /\ Len(stack') >= Len(stack)
    BY <1>2, Numbers
  <2> QED BY <1>1, <1>2, <2>1, <2>2, SpinnerKept
<1>7. AlertInv'
  <2>1. Len(stack) \in 1 .. Len(stack)
    BY Numbers
  <2> QED BY <1>1, <1>2, <2>1, AlertStays DEF Parts, AlertInv
<1> QED BY <1>3, <1>4, <1>5, <1>6, <1>7 DEF Parts

\* Another call of the dashboard removes the indicator.
LEMMA DashboardCallSafe ==
    ASSUME Parts, dashboardCallEnds
    PROVE  Parts'
<1>1. /\ spinner' = 0
      /\ UNCHANGED <<savedVars, fault, home, stack, alert, calls>>
  BY DEF dashboardCallEnds
<1>2. SavedMono /\ SavedInv'
  BY <1>1, SavedKept DEF Parts, SavedInv
<1>3. StackInv' /\ AlertInv'
  BY <1>1, <1>2, StackKept, AlertKept
<1>4. CallsInv' /\ SpinnerInv'
  BY <1>1, <1>2, CallsKept, SpinnerChanged, Numbers
<1> QED BY <1>2, <1>3, <1>4 DEF Parts

-----------------------------------------------------------------------------
(***************************************************************************)
(* The launch screen and logging out                                       *)
(***************************************************************************)

\* Before the splash no call belongs to the launch screen, so it is free to
\* show either.
LEMMA CallsBeforeSplash ==
    ASSUME Parts, home # "splash", NEW hm
    PROVE  CallsOK(calls, userType, active, profile, auth, hm)
BY DEF Parts, CallsInv, CallsOK, CallOK

\* The launch screen loads: the only call it makes is the trip check of a
\* remembered user.
LEMMA HomeViewSafe ==
    ASSUME Parts, homeViewDidLoad
    PROVE  Parts'
<1>1. /\ fault = "none" /\ home = "launching"
      /\ UNCHANGED <<savedVars, stack, alert>>
      /\ home' \in {"splash", "choose"}
      /\ \/ /\ active /\ home' = "splash" /\ ask("trip", userType)
            /\ UNCHANGED <<fault, spinner>>
         \/ spinner' = 0 /\ UNCHANGED <<fault, calls>>
         \/ fault' \in {fault, "launch"} /\ UNCHANGED <<calls, spinner>>
  BY Zenon DEF homeViewDidLoad, Alive, Offline
<1>2. Len(stack) \in Nat /\ Len(stack) \in 0 .. MaxDepth /\ Depth = Len(stack)
  BY Numbers, BoundTypes
<1>3. SavedInv'
  <2>1. fault' \in Faults
    BY <1>1 DEF Faults
  <2> QED BY <1>1, <2>1 DEF Parts, SavedInv, savedVars
<1>4. StackInv' /\ AlertInv'
  BY <1>1, AlertKept DEF Parts, StackInv, savedVars
<1>5. CallsOK(calls, userType, active, profile, auth, home')
  BY <1>1, CallsBeforeSplash
<1>6. CASE active /\ home' = "splash" /\ ask("trip", userType)
           /\ UNCHANGED <<fault, spinner>>
  <2> DEFINE c == [op |-> "trip", vc |-> Len(stack), kind |-> userType]
  <2>1. PICK i \in Slots : calls[i] = Idle /\ calls' = [calls EXCEPT ![i] = c]
    BY <1>2, <1>6 DEF ask
  <2>2. c \in Calls /\ c.op = "trip" /\ c.vc = Len(stack) /\ c.kind = userType
    BY <1>2 DEF Calls, OtherOps, Parts, SavedInv
  <2> HIDE DEF c
  <2>3. CallOK(c, userType, active, profile, auth, home')
    BY <1>6, <2>2 DEF CallOK, Parts, SavedInv
  <2>4. /\ calls' \in [Slots -> Calls] /\ calls'[i] = c
        /\ \A j \in Slots : j # i => calls'[j] = calls[j]
    BY <2>1, <2>2 DEF Parts, CallsInv, CallsType
  <2>5. CallsOK(calls', userType, active, profile, auth, home')
    BY <1>5, <2>3, <2>4 DEF CallsOK
  <2>6. \A j \in Slots : calls'[j].vc <= Len(stack)
    BY <1>2, <2>2, <2>4 DEF Parts, CallsInv, CallsType
  <2>7. CallsInv'
    BY <1>1, <2>4, <2>5, <2>6 DEF CallsInv, CallsType, savedVars
  <2>8. \A j \in Slots : calls[j].op \in Removers => calls'[j].op \in Removers
    BY <2>1, <2>4 DEF Removers, RestOps, Idle
  <2>9. SpinnerInv'
    BY <1>1, <1>6, <2>8, SpinnerAlone
  <2> QED BY <1>3, <1>4, <2>7, <2>9 DEF Parts
<1>7. CASE spinner' = 0 /\ UNCHANGED <<fault, calls>>
  <2>1. CallsInv'
    BY <1>1, <1>5, <1>7 DEF Parts, CallsInv, savedVars
  <2>2. SpinnerInv'
    BY <1>1, <1>2, <1>7, SpinnerChanged
  <2> QED BY <1>3, <1>4, <2>1, <2>2 DEF Parts
<1>8. CASE UNCHANGED <<calls, spinner>>
  <2>1. CallsInv'
    BY <1>1, <1>5, <1>8 DEF Parts, CallsInv, savedVars
  <2>2. SpinnerInv'
    BY <1>1, <1>8, SpinnerAlone
  <2> QED BY <1>3, <1>4, <2>1, <2>2 DEF Parts
<1> QED BY <1>1, <1>6, <1>7, <1>8

\* Choosing a type: nothing but the launch screen is there, and no call
\* waits for the type that was chosen before.
LEMMA ChooseTypeSafe ==
    ASSUME Parts, NEW type \in Types, clientProviderButtonAction(type)
    PROVE  Parts'
<1>1. /\ UserAt({"home"}) /\ home = "choose" /\ userType' = type
      /\ present(1, "signin")
      /\ UNCHANGED <<active, profile, auth, fault, home, alert, spinner, calls>>
  BY DEF clientProviderButtonAction
<1>2. /\ Depth = Len(stack) /\ Len(stack) \in Nat /\ Len(stack) >= 1
      /\ stack \in Seq(Screens) /\ TypeOK
      /\ Len(stack) \in 1 .. Len(stack)
  BY Numbers
<1>3. /\ fault = "none" /\ alert = NoAlert
      /\ stack[Len(stack)].name = "home"
  BY <1>1, <1>2 DEF UserAt, Alive, TopName
<1>4. Len(stack) = 1
  BY <1>2, <1>3 DEF Parts, StackInv, StackOK, ScreenOK
<1>5. type # "none" /\ type \in Profiles
  BY DEF Types, Profiles
<1>6. SavedInv'
  BY <1>1, <1>5 DEF Parts, SavedInv
<1>7. StackOK(stack, type, active, profile, auth)
  <2>1. ScreenOK("home", 1, type, active, profile, auth)
    BY DEF ScreenOK, Types, WithProfile, Verifies
  <2> QED BY <1>3, <1>4, <2>1 DEF StackOK
<1>8. ScreenOK("signin", Depth + 1, type, active, profile, auth)
  BY <1>2, <1>4 DEF ScreenOK, Types, WithProfile, Verifies
<1>9. /\ stack' \in Seq(Screens) /\ Len(stack') \in 1 .. MaxDepth
      /\ Len(stack') \in Depth .. Depth + 1
      /\ \A d \in 1 .. Depth : stack'[d] = stack[d]
      /\ \A d \in 1 .. Len(stack') : d > Depth => stack'[d].name = "signin"
      /\ StackOK(stack', type, active, profile, auth)
      /\ AlertOK(stack, alert) => AlertOK(stack', alert)
  <2>1. "signin" \in Names
    BY DEF Names
  <2> QED BY <1>1, <1>2, <1>7, <1>8, <2>1, Presented
<1>10. StackInv' /\ AlertInv'
  BY <1>1, <1>5, <1>9 DEF Parts, StackInv, AlertInv
<1>11. Len(stack') \in Nat /\ Len(stack') >= Len(stack)
  BY <1>2, <1>9, BoundTypes
<1>12. CallsInv'
  <2>1. CallsType(calls, Len(stack'))
    BY <1>2, <1>11, CallsDeeper DEF Parts, CallsInv
  <2>2. CallsOK(calls, type, active, profile, auth, home)
    BY <1>1, <1>5 DEF Parts, CallsInv, CallsOK, CallOK
  <2> QED BY <1>1, <2>1, <2>2 DEF CallsInv
<1>13. SpinnerInv'
  <2>1. "signin" \notin Types
    BY DEF Types
  <2> QED BY <1>1, <1>2, <1>3, <1>9, <1>11, <2>1, SpinnerKept
<1> QED BY <1>6, <1>10, <1>12, <1>13 DEF Parts

\* Every call loses its screen with the window.
LEMMA CallsDropped ==
    ASSUME Parts, calls' = [i \in Slots |-> [calls[i] EXCEPT !.vc = 0]],
           NEW n \in Nat, NEW act, NEW hm
    PROVE  /\ CallsType(calls', n)
           /\ CallsOK(calls', userType, act, profile, auth, hm)
           /\ \A j \in Slots : calls'[j].op = calls[j].op
<1>1. ASSUME NEW j \in Slots
      PROVE  /\ calls'[j] \in Calls /\ calls'[j].vc = 0
             /\ calls'[j].op = calls[j].op /\ calls'[j].kind = calls[j].kind
  <2>1. calls[j] \in Calls
    BY Numbers
  <2>2. calls'[j] = [calls[j] EXCEPT !.vc = 0]
    OBVIOUS
  <2> QED BY <2>1, <2>2, BoundTypes DEF Calls
<1>2. CallsType(calls', n)
  BY <1>1 DEF CallsType
<1>3. CallsOK(calls', userType, act, profile, auth, hm)
  BY <1>1 DEF Parts, CallsInv, CallsOK, CallOK
<1> QED BY <1>1, <1>2, <1>3

\* A new launch screen in the window.  The indicator over it still has its
\* call: an indicator without one lies over the kit, and logging out starts
\* neither above nor below a kit that has one.
LEMMA NewWindowSafe ==
    ASSUME Parts, fault = "none", alert.kind \in {"confirm", "logout"},
           stack' = <<Screen("home")>>, home' = "launching",
           calls' = [i \in Slots |-> [calls[i] EXCEPT !.vc = 0]],
           spinner' \in {0, IF spinner = 0 THEN 0 ELSE 1},
           alert' = NoAlert, active' \in BOOLEAN, active' => active,
           UNCHANGED <<userType, profile, auth, fault>>
    PROVE  Parts'
<1>1. /\ stack' \in Seq(Screens) /\ Len(stack') = 1
      /\ StackOK(stack', userType, active', profile, auth)
  BY StackHome
<1>2. SavedInv'
  BY DEF Parts, SavedInv
<1>3. StackInv'
  BY <1>1, BoundTypes DEF StackInv
<1>4. /\ CallsInv' /\ \A j \in Slots : calls'[j].op = calls[j].op
  <2>1. /\ CallsType(calls', 1)
        /\ CallsOK(calls', userType, active', profile, auth, home')
        /\ \A j \in Slots : calls'[j].op = calls[j].op
    BY CallsDropped
  <2> QED BY <1>1, <2>1 DEF CallsInv
<1>5. AlertInv'
  BY AlertOff, BoundTypes DEF AlertInv, NoAlert
<1>6. /\ Len(stack) \in Nat /\ Len(stack) >= 1 /\ spinner \in 0 .. Len(stack)
  BY Numbers
<1>7. spinner # 0 => \E i \in Slots : calls[i].op \in Removers
  <2>1. SUFFICES ASSUME spinner # 0, stack[spinner].name = "kit",
                        \A d \in spinner + 1 .. Len(stack) :
                            stack[d].name \notin Types
                 PROVE  FALSE
    BY DEF Parts, SpinnerInv, SpinnerOK
  <2>2. spinner > 2
    BY <1>6, <2>1 DEF Parts, StackInv, StackOK, ScreenOK
  <2>3. CASE alert.kind = "logout"
    BY <1>6, <2>2, <2>3 DEF Parts, AlertInv, AlertOK
  <2>4. CASE alert.kind = "confirm"
    <3>1. stack[Len(stack)].name \in Types
      BY <2>4 DEF Parts, AlertInv, AlertOK
    <3>2. "kit" \notin Types
      BY DEF Types
    <3> QED BY <1>6, <2>1, <3>1, <3>2
  <2> QED BY <2>3, <2>4
<1>8. SpinnerInv'
  <2>1. spinner' \in 0 .. Len(stack') /\ (spinner' # 0 => spinner # 0)
    BY <1>1, <1>6
  <2> QED BY <1>1, <1>4, <1>7, <2>1, SpinnerChanged
<1> QED BY <1>2, <1>3, <1>4, <1>5, <1>8 DEF Parts

\* YES to the question: the dashboard that raised it is dismissed.
LEMMA ConfirmLogoutSafe ==
    ASSUME Parts, confirmLogout
    PROVE  Parts'
<1>1. /\ fault = "none" /\ alert.kind = "confirm" /\ ~active'
      /\ active' \in BOOLEAN
      /\ alert' = NoAlert /\ goBackToMainViewController(alert.vc)
      /\ UNCHANGED <<userType, profile, auth, fault>>
  BY DEF confirmLogout, Alive
<1>2. /\ Len(stack) \in Nat /\ Len(stack) >= 1 /\ Len(stack) \in 1 .. Len(stack)
  BY Numbers
<1>3. stack[Len(stack)].name \in Types /\ alert.vc = Len(stack)
  BY <1>1 DEF Parts, AlertInv, AlertOK
<1>4. Len(stack) # 1
  BY <1>2, <1>3 DEF Parts, StackInv, StackOK, ScreenOK, Types
<1>5. /\ stack' = <<Screen("home")>> /\ home' = "launching"
      /\ calls' = [i \in Slots |-> [calls[i] EXCEPT !.vc = 0]]
      /\ spinner' \in {0, IF spinner = 0 THEN 0 ELSE 1}
  BY <1>1, <1>2, <1>3, <1>4 DEF goBackToMainViewController
<1> QED BY <1>1, <1>5, NewWindowSafe

\* OK of an alert.
LEMMA CloseAlertSafe ==
    ASSUME Parts, closeAlert
    PROVE  Parts'
<1>1. /\ fault = "none" /\ alert' = NoAlert /\ UNCHANGED <<savedVars, fault>>
      /\ \/ /\ alert.kind = "logout"
            /\ stack' = <<Screen("home")>> /\ home' = "launching"
            /\ calls' = [i \in Slots |-> [calls[i] EXCEPT !.vc = 0]]
            /\ spinner' \in {0, IF spinner = 0 THEN 0 ELSE 1}
         \/ UNCHANGED <<home, stack, spinner, calls>>
  BY DEF closeAlert, Alive, goBackToMainViewController
<1>2. CASE /\ alert.kind = "logout"
           /\ stack' = <<Screen("home")>> /\ home' = "launching"
           /\ calls' = [i \in Slots |-> [calls[i] EXCEPT !.vc = 0]]
           /\ spinner' \in {0, IF spinner = 0 THEN 0 ELSE 1}
  <2>1. active' \in BOOLEAN /\ (active' => active)
    BY <1>1 DEF Parts, SavedInv, savedVars
  <2> QED BY <1>1, <1>2, <2>1, NewWindowSafe DEF savedVars
<1>3. CASE UNCHANGED <<home, stack, spinner, calls>>
  <2>1. SavedMono /\ SavedInv'
    BY <1>1, <1>3, SavedKept DEF Parts, SavedInv
  <2>2. StackInv' /\ CallsInv'
    BY <1>3, <2>1, StackKept, CallsKept, Numbers
  <2>3. SpinnerInv'
    BY <1>1, <1>3, SpinnerAlone
  <2>4. AlertInv'
    BY <1>1, AlertOff, BoundTypes DEF AlertInv, NoAlert
  <2> QED BY <2>1, <2>2, <2>3, <2>4 DEF Parts
<1> QED BY <1>1, <1>2, <1>3

\* The initial state and a new launch: the launch screen alone.
LEMMA LaunchSafe ==
    ASSUME SavedInv', stack' = <<Screen("home")>>, alert' = NoAlert,
           spinner' = 0, calls' = [i \in Slots |-> Idle]
    PROVE  Parts'
<1>1. /\ stack' \in Seq(Screens) /\ Len(stack') = 1
      /\ StackOK(stack', userType', active', profile', auth')
  BY StackHome
<1>2. StackInv'
  BY <1>1, BoundTypes DEF StackInv
<1>3. CallsInv'
  <2>1. /\ CallOK(Idle, userType', active', profile', auth', home')
        /\ Idle \in Calls /\ Idle.vc = 0
    BY IdleOK
  <2> QED BY <1>1, <2>1 DEF CallsInv, CallsType, CallsOK
<1>4. SpinnerInv'
  BY <1>1, SpinnerChanged
<1>5. AlertInv'
  BY AlertOff, BoundTypes DEF AlertInv, NoAlert
<1> QED BY <1>2, <1>3, <1>4, <1>5 DEF Parts

-----------------------------------------------------------------------------
(***************************************************************************)
(* Answers                                                                 *)
(***************************************************************************)

\* The callback of call i goes on with another call.
LEMMA CallsFollow ==
    ASSUME Parts, SavedMono, NEW i \in Slots, NEW op \in RestOps \cup OtherOps,
           NEW vc \in Nat, NEW kind \in Profiles, Follow(i, op, vc, kind),
           Len(stack') \in Nat, Len(stack') >= Len(stack), vc <= Len(stack'),
           vc <= MaxDepth,
           CallOK([op |-> op, vc |-> vc, kind |-> kind],
                  userType, active', profile', auth', home)
    PROVE  /\ CallsInv' /\ calls'[i].op = op
           /\ \A j \in Slots : j # i => calls'[j] = calls[j]
<1> DEFINE c == [op |-> op, vc |-> vc, kind |-> kind]
<1>1. c \in Calls /\ c.op = op /\ c.vc = vc
  BY BoundTypes DEF Calls
<1>2. calls' = [calls EXCEPT ![i] = c] /\ c.vc <= Len(stack')
  BY <1>1 DEF Follow
<1> HIDE DEF c
<1>3. CallOK(c, userType, active', profile', auth', home)
  BY DEF c
<1>4. /\ CallsInv' /\ calls'[i] = c
      /\ \A j \in Slots : j # i => calls'[j] = calls[j]
  BY <1>1, <1>2, <1>3, CallsReplaced
<1> QED BY <1>1, <1>4

\* The screen of a call in flight, if it can present: not the launch screen,
\* unless the call is the trip check.
LEMMA CallerPlace ==
    ASSUME Parts, NEW i \in Slots, calls[i].op # "idle"
    PROVE  /\ userType # "none"
           /\ calls[i].vc \in Nat /\ calls[i].vc <= Len(stack)
           /\ calls[i].vc <= MaxDepth
           /\ calls[i].op # "trip" => calls[i].vc # 1
           /\ Presents(calls[i].vc) =>
                 calls[i].vc = Len(stack) /\ alert = NoAlert
<1>1. CallOK(calls[i], userType, active, profile, auth, home)
  BY DEF Parts, CallsInv, CallsOK
<1>2. calls[i].vc \in Nat /\ calls[i].vc <= Len(stack) /\ calls[i].vc <= MaxDepth
  BY Numbers, BoundTypes
<1> QED BY <1>1, <1>2, Numbers DEF CallOK, Presents

\* A dashboard opens over the screen of call i, for the remembered user.
LEMMA DashboardOpened ==
    ASSUME Parts, fault = "none", SavedMono, NEW i \in Slots,
           NEW type \in Types, NEW stored, NEW otherwise \in {0, spinner},
           calls[i].op # "idle",
           moveForwardToDashboard(i, type, stored, otherwise),
           Presents(calls[i].vc) => active' /\ type = userType,
           otherwise = 0 \/ calls[i].op \notin Removers
    PROVE  /\ StackInv' /\ CallsInv' /\ SpinnerInv' /\ fault' \in Faults
           /\ Len(stack') \in Nat /\ Len(stack') >= Len(stack)
           /\ stack' = stack \/ alert = NoAlert
<1>1. /\ userType # "none" /\ Depth = Len(stack) /\ Len(stack) \in Nat
      /\ Len(stack) >= 1 /\ spinner \in 0 .. Len(stack)
  BY CallerPlace, Numbers
<1>2. type \in Names /\ type \in Profiles /\ type # "none"
  BY DEF Names, Profiles, Types
<1>3. present(calls[i].vc, type)
  BY DEF moveForwardToDashboard
<1>4. Presents(calls[i].vc) =>
          ScreenOK(type, Len(stack) + 1, userType, active', profile', auth')
  BY <1>1 DEF ScreenOK, Types, WithProfile, Verifies
<1>5. /\ StackInv' /\ Len(stack') \in Nat /\ Len(stack') >= Len(stack)
      /\ \A d \in 1 .. Len(stack) : stack'[d] = stack[d]
      /\ Presents(calls[i].vc) => /\ Len(stack') = Len(stack) + 1
                                  /\ Len(stack) + 1 \in 1 .. MaxDepth
      /\ ~Presents(calls[i].vc) => stack' = stack
  BY <1>1, <1>2, <1>3, <1>4, StackPresented
<1>6. stack' = stack \/ alert = NoAlert
  BY <1>5 DEF Presents
<1>7. otherwise \in 0 .. Len(stack')
  BY <1>1, <1>5
<1>8. CASE /\ Presents(calls[i].vc) /\ fault' = fault
           /\ Follow(i, "profile", Len(stack) + 1, type)
           /\ spinner' = Len(stack')
  <2>1. "profile" \in RestOps \cup OtherOps /\ "profile" \in Removers
    BY DEF RestOps, Removers
  <2>2. /\ Len(stack) + 1 \in Nat /\ Len(stack) + 1 <= Len(stack')
        /\ Len(stack) + 1 <= MaxDepth /\ Len(stack) + 1 # 1
    BY <1>1, <1>5, <1>8, BoundTypes
  <2>3. CallOK([op |-> "profile", vc |-> Len(stack) + 1, kind |-> type],
               userType, active', profile', auth', home)
    BY <1>1, <1>2, <2>2, CallMade
  <2>4. CallsInv' /\ calls'[i].op = "profile"
    BY <1>2, <1>5, <1>8, <2>1, <2>2, <2>3, CallsFollow
  <2>5. SpinnerInv'
    BY <1>5, <1>8, <2>1, <2>4, SpinnerChanged
  <2> QED BY <1>5, <1>6, <1>8, <2>4, <2>5 DEF Faults
<1>9. CASE /\ Done(i) /\ fault' \in {fault, IdName(type)}
           /\ spinner' = 0 \/ (spinner' = otherwise /\ fault' # fault)
  <2>1. CallsInv'
    BY <1>5, <1>9, CallsDone
  <2>2. SpinnerInv'
    BY <1>5, <1>7, <1>9, SpinnerChanged
  <2>3. fault' \in Faults
    BY <1>9 DEF Faults, IdName
  <2> QED BY <1>5, <1>6, <2>1, <2>2, <2>3
<1>10. CASE /\ ~Presents(calls[i].vc) /\ Done(i) /\ fault' = fault
            /\ spinner' = otherwise /\ otherwise # 0
  <2>1. CallsInv' /\ \A j \in Slots : j # i => calls'[j] = calls[j]
    BY <1>5, <1>10, CallsDone
  <2>2. \A j \in Slots : calls[j].op \in Removers => calls'[j].op \in Removers
    BY <1>10, <2>1
  <2>3. SpinnerInv'
    BY <1>5, <1>10, <2>2, SpinnerAlone
  <2> QED BY <1>5, <1>6, <1>10, <2>1, <2>3 DEF Faults
<1>11. \/ /\ Presents(calls[i].vc) /\ fault' = fault
          /\ Follow(i, "profile", Len(stack) + 1, type)
          /\ spinner' = Len(stack')
       \/ /\ Done(i) /\ fault' \in {fault, IdName(type)}
          /\ spinner' = 0 \/ (spinner' = otherwise /\ fault' # fault)
       \/ /\ ~Presents(calls[i].vc) /\ Done(i) /\ fault' = fault
          /\ spinner' = otherwise /\ otherwise # 0
  <2>1. IdName(type) # "none"
    BY DEF IdName
  <2>2. CASE Presents(calls[i].vc) /\ stored = type
    BY <1>1, <2>2, Zenon DEF moveForwardToDashboard, FollowRequest, Offline
  <2>3. CASE Presents(calls[i].vc) /\ stored # type
    BY <2>1, <2>3, Zenon DEF moveForwardToDashboard
  <2>4. CASE ~Presents(calls[i].vc)
    BY <2>4, Zenon DEF moveForwardToDashboard
  <2> QED BY <2>2, <2>3, <2>4
<1> QED BY <1>8, <1>9, <1>10, <1>11

\* The kit opens over the screen of call i, for a stored profile.
LEMMA KitOpened ==
    ASSUME Parts, fault = "none", SavedMono, NEW i \in Slots,
           calls[i].op \notin {"idle", "trip"},
           presentKit(i, calls[i].vc), profile' # "none", alert' = alert
    PROVE  StackInv' /\ CallsInv' /\ SpinnerInv' /\ AlertInv'
<1>1. /\ userType # "none" /\ Depth = Len(stack) /\ Len(stack) \in Nat
      /\ Len(stack) >= 1
      /\ Presents(calls[i].vc) => Len(stack) >= 2
  BY CallerPlace, Numbers
<1>2. "kit" \in Names /\ "provider" \in Profiles
  BY DEF Names, Profiles, Types
<1>3. present(calls[i].vc, "kit")
  BY DEF presentKit
<1>4. Presents(calls[i].vc) =>
          ScreenOK("kit", Len(stack) + 1, userType, active', profile', auth')
  BY <1>1 DEF ScreenOK, Types, WithProfile, Verifies
<1>5. /\ StackInv' /\ AlertInv' /\ Len(stack') \in Nat
      /\ Len(stack') >= Len(stack)
      /\ Presents(calls[i].vc) => /\ Len(stack') = Len(stack) + 1
                                  /\ Len(stack) + 1 \in 1 .. MaxDepth
  BY <1>1, <1>2, <1>3, <1>4, StackPresented
<1>6. CASE /\ Presents(calls[i].vc)
           /\ Follow(i, "kit", Len(stack) + 1, "provider")
           /\ spinner' \in {0, Len(stack) + 1}
  <2>1. "kit" \in RestOps \cup OtherOps /\ "kit" \in Removers
    BY DEF RestOps, Removers
  <2>2. /\ Len(stack) + 1 \in Nat /\ Len(stack) + 1 <= Len(stack')
        /\ Len(stack) + 1 <= MaxDepth /\ Len(stack) + 1 # 1
    BY <1>1, <1>5, <1>6, BoundTypes
  <2>3. CallOK([op |-> "kit", vc |-> Len(stack) + 1, kind |-> "provider"],
               userType, active', profile', auth', home)
    BY <1>1, <2>2, CallMade
  <2>4. CallsInv' /\ calls'[i].op = "kit"
    BY <1>2, <1>5, <1>6, <2>1, <2>2, <2>3, CallsFollow
  <2>5. spinner' \in 0 .. Len(stack')
    BY <1>5, <1>6, <2>2
  <2>6. SpinnerInv'
    BY <1>5, <2>1, <2>4, <2>5, SpinnerChanged
  <2> QED BY <1>5, <2>4, <2>6
<1>7. CASE Done(i) /\ spinner' = 0
  <2>1. CallsInv'
    BY <1>5, <1>7, CallsDone
  <2>2. SpinnerInv'
    BY <1>5, <1>7, SpinnerChanged
  <2> QED BY <1>5, <2>1, <2>2
<1>8. \/ /\ Presents(calls[i].vc)
         /\ Follow(i, "kit", Len(stack) + 1, "provider")
         /\ spinner' \in {0, Len(stack) + 1}
      \/ Done(i) /\ spinner' = 0
  BY <1>1, Zenon DEF presentKit, Offline
<1> QED BY <1>6, <1>7, <1>8

\* Call i ends, the indicator goes, and the screens stay.
LEMMA EndsQuietly ==
    ASSUME Parts, SavedMono, NEW i \in Slots, Done(i), spinner' = 0,
           stack' = stack
    PROVE  /\ StackInv' /\ CallsInv' /\ SpinnerInv'
           /\ alert' = alert => AlertInv'
<1>1. Len(stack') \in Nat /\ Len(stack') >= Len(stack)
  BY Numbers
<1>2. StackInv' /\ CallsInv'
  BY <1>1, StackKept, CallsDone
<1>3. SpinnerInv'
  BY <1>1, SpinnerChanged
<1> QED BY <1>2, <1>3, AlertKept

\* Call i ends with a screen that is no dashboard.
LEMMA EndsPresenting ==
    ASSUME Parts, fault = "none", SavedMono, NEW i \in Slots, Done(i),
           calls[i].op # "idle",
           NEW name \in Names \ Types, present(calls[i].vc, name),
           Presents(calls[i].vc) =>
               ScreenOK(name, Len(stack) + 1, userType, active', profile', auth'),
           \/ spinner' = 0
           \/ spinner' = spinner /\ calls[i].op \notin Removers,
           alert' = alert
    PROVE  StackInv' /\ CallsInv' /\ SpinnerInv' /\ AlertInv'
<1>1. userType # "none"
  BY CallerPlace
<1>2. /\ StackInv' /\ AlertInv' /\ Len(stack') \in Nat
      /\ Len(stack') >= Len(stack)
      /\ \A d \in 1 .. Len(stack) : stack'[d] = stack[d]
      /\ \A d \in 1 .. Len(stack') : d > Len(stack) => stack'[d].name = name
  BY <1>1, StackPresented
<1>3. CallsInv' /\ \A j \in Slots : j # i => calls'[j] = calls[j]
  BY <1>2, CallsDone
<1>4. CASE spinner' = 0
  BY <1>2, <1>3, <1>4, SpinnerChanged
<1>5. CASE spinner' = spinner /\ calls[i].op \notin Removers
  <2>1. \A j \in Slots : calls[j].op \in Removers => calls'[j].op \in Removers
    BY <1>3, <1>5
  <2> QED BY <1>2, <1>3, <1>5, <2>1, SpinnerKept
<1> QED BY <1>4, <1>5

\* Call i goes on with a call that has the same screen and stays away from
\* the indicator.
LEMMA FollowsQuietly ==
    ASSUME Parts, fault = "none", SavedMono, NEW i \in Slots,
           calls[i].op \notin {"idle", "trip"}, stack' = stack, alert' = alert,
           NEW op \in OtherOps \ {"trip"},
           Follow(i, op, calls[i].vc, "none"),
           op \in {"phoneRegister", "phoneForgot", "laterVerify"} =>
               profile' # "none",
           op # "credentialForgot",
           op = "laterVerify" => auth' # "none",
           \/ spinner' = 0
           \/ spinner' = spinner /\ calls[i].op \notin Removers
    PROVE  StackInv' /\ CallsInv' /\ SpinnerInv' /\ AlertInv'
<1>1. /\ userType # "none" /\ calls[i].vc \in Nat /\ calls[i].vc # 1
      /\ calls[i].vc <= Len(stack') /\ calls[i].vc <= MaxDepth
      /\ Len(stack') \in Nat /\ Len(stack') >= Len(stack)
  BY CallerPlace, Numbers
<1>2. StackInv' /\ AlertInv'
  BY StackKept, AlertKept
<1>3. "none" \in Profiles /\ op \in RestOps \cup OtherOps
  BY DEF Profiles
<1>4. op \notin {"login", "register", "forgot", "verifyUser", "profile",
                 "identity"}
  BY DEF OtherOps
<1>5. CallOK([op |-> op, vc |-> calls[i].vc, kind |-> "none"],
             userType, active', profile', auth', home)
  BY <1>1, <1>4, CallMade
<1>6. CallsInv' /\ \A j \in Slots : j # i => calls'[j] = calls[j]
  BY <1>1, <1>3, <1>5, CallsFollow
<1>7. CASE spinner' = 0
  BY <1>1, <1>2, <1>6, <1>7, SpinnerChanged
<1>8. CASE spinner' = spinner /\ calls[i].op \notin Removers
  <2>1. \A j \in Slots : calls[j].op \in Removers => calls'[j].op \in Removers
    BY <1>6, <1>8
  <2> QED BY <1>2, <1>6, <1>8, <2>1, SpinnerAlone
<1> QED BY <1>7, <1>8

\* The trip check is answered: the dashboard of the remembered user.
LEMMA TripAnswersSafe ==
    ASSUME Parts, NEW i \in Slots, tripAnswers(i)
    PROVE  Parts'
<1>1. /\ fault = "none" /\ calls[i].op = "trip"
      /\ moveForwardToDashboard(i, calls[i].kind, profile, spinner)
      /\ UNCHANGED <<savedVars, home, alert>>
  BY DEF tripAnswers, Alive
<1>2. SavedMono /\ (fault' \in Faults => SavedInv')
  BY <1>1, SavedKept
<1>3. CallOK(calls[i], userType, active, profile, auth, home)
  BY DEF Parts, CallsInv, CallsOK
<1>4. calls[i].kind \in Types
  BY <1>1, <1>3, Numbers DEF CallOK, Profiles
<1>5. Presents(calls[i].vc) => active' /\ calls[i].kind = userType
  <2>1. Presents(calls[i].vc) => calls[i].vc # 0
    BY <1>1, CallerPlace, Numbers
  <2> QED BY <1>1, <1>2, <1>3, <2>1 DEF CallOK, SavedMono
<1>6. "trip" \notin Removers
  BY DEF Removers, RestOps
<1>7. /\ StackInv' /\ CallsInv' /\ SpinnerInv' /\ fault' \in Faults
      /\ stack' = stack \/ alert = NoAlert
  BY <1>1, <1>2, <1>4, <1>5, <1>6, DashboardOpened
<1>8. AlertInv'
  BY <1>1, <1>7, AlertKept, AlertOff DEF Parts, AlertInv
<1> QED BY <1>2, <1>7, <1>8 DEF Parts

\* An answer that stores the profile of its call.
LEMMA ProfileStored ==
    ASSUME Parts, NEW i \in Slots,
           calls[i].op \in {"login", "register", "forgot", "verifyUser", "profile"},
           profile' \in {profile, calls[i].kind}, active => active',
           active' \in BOOLEAN,
           UNCHANGED <<userType, auth, home>>
    PROVE  /\ SavedMono /\ userType \in Types /\ calls[i].kind \in Types
           /\ fault' \in Faults => SavedInv'
<1>1. CallOK(calls[i], userType, active, profile, auth, home)
  BY DEF Parts, CallsInv, CallsOK
<1>2. userType \in Types /\ calls[i].kind \in Types
  BY <1>1, Numbers DEF CallOK, Parts, SavedInv, Profiles
<1>3. SavedMono
  BY <1>2 DEF SavedMono, Types
<1>4. fault' \in Faults => SavedInv'
  BY <1>2 DEF Parts, SavedInv, Types, Profiles
<1> QED BY <1>2, <1>3, <1>4

\* The dashboard of a user who is remembered by the same callback.
LEMMA RememberedSafe ==
    ASSUME Parts, fault = "none", NEW i \in Slots,
           calls[i].op \in {"login", "verifyUser"},
           profile' = calls[i].kind, active', active' \in BOOLEAN,
           NEW type \in Types, type = userType, NEW stored,
           moveForwardToDashboard(i, type, stored, 0),
           UNCHANGED <<userType, auth, home, alert>>
    PROVE  Parts'
<1>1. /\ SavedMono
      /\ fault' \in Faults => SavedInv'
  BY ProfileStored
<1>2. calls[i].op # "idle"
  OBVIOUS
<1>3. /\ StackInv' /\ CallsInv' /\ SpinnerInv' /\ fault' \in Faults
      /\ stack' = stack \/ alert = NoAlert
  BY <1>1, <1>2, DashboardOpened
<1>4. AlertInv'
  BY <1>3, AlertKept, AlertOff DEF Parts, AlertInv
<1> QED BY <1>1, <1>3, <1>4 DEF Parts

\* The identity screen of a provider whose profile the callback has stored.
LEMMA IdentityOpened ==
    ASSUME Parts, fault = "none", fault' = fault, NEW i \in Slots,
           calls[i].op \in {"login", "verifyUser"},
           profile' = calls[i].kind, active' = active,
           present(calls[i].vc, "identity"), Done(i), spinner' = 0,
           UNCHANGED <<userType, auth, home, alert>>
    PROVE  Parts'
<1>1. active => active' /\ active' \in BOOLEAN
  BY DEF Parts, SavedInv
<1>2. /\ SavedMono /\ SavedInv' /\ calls[i].kind \in Types
  BY <1>1, ProfileStored DEF Faults, Parts, SavedInv
<1>3. ScreenOK("identity", Len(stack) + 1, userType, active', profile', auth')
  BY <1>2, Numbers DEF ScreenOK, Types, WithProfile, Verifies
<1>4. "identity" \in Names \ Types
  BY DEF Names, Types
<1>5. calls[i].op # "idle"
  OBVIOUS
<1>6. StackInv' /\ CallsInv' /\ SpinnerInv' /\ AlertInv'
  BY <1>2, <1>3, <1>4, <1>5, EndsPresenting
<1> QED BY <1>2, <1>6 DEF Parts

\* Sign in is answered.
LEMMA LoginAnswersSafe ==
    ASSUME Parts, NEW i \in Slots, loginAnswers(i)
    PROVE  Parts'
<1>1. /\ fault = "none" /\ calls[i].op = "login"
      /\ UNCHANGED <<userType, auth, home, alert>>
  BY DEF loginAnswers, Alive
<1>2. /\ active \in BOOLEAN /\ calls[i].op # "idle"
      /\ calls[i].op \notin {"idle", "trip"} /\ fault \in Faults
  BY <1>1 DEF Parts, SavedInv
<1>3. userType \in Types
  <2>1. CallOK(calls[i], userType, active, profile, auth, home)
    BY DEF Parts, CallsInv, CallsOK
  <2> QED BY <1>1, <2>1 DEF CallOK, Parts, SavedInv, Profiles
<1>4. CASE /\ profile' = calls[i].kind /\ active' = TRUE
           /\ \/ /\ userType = "client"
                 /\ moveForwardToDashboard(i, "client", calls[i].kind, 0)
              \/ /\ userType # "client"
                 /\ moveForwardToDashboard(i, "provider", "provider", 0)
  <2>1. /\ active' /\ active' \in BOOLEAN
        /\ "client" \in Types /\ "provider" \in Types
        /\ userType # "client" => "provider" = userType
    BY <1>3, <1>4 DEF Types
  <2> QED BY <1>1, <1>4, <2>1, RememberedSafe
<1>5. ASSUME active' = active, profile' \in {profile, calls[i].kind},
             \/ /\ fault' = fault
                /\ \/ Done(i) /\ spinner' = 0 /\ stack' = stack
                   \/ /\ Follow(i, "phoneLogin", calls[i].vc, "none")
                      /\ spinner' = 0 /\ stack' = stack
                   \/ /\ profile' = calls[i].kind
                      /\ presentKit(i, calls[i].vc)
                   \/ /\ profile' = calls[i].kind
                      /\ present(calls[i].vc, "identity")
                      /\ Done(i) /\ spinner' = 0
             \/ /\ fault' = "IsProviderKYC" /\ Done(i)
                /\ stack' = stack /\ spinner' = spinner
      PROVE  Parts'
  <2>1. /\ SavedMono /\ userType \in Types /\ calls[i].kind \in Types
        /\ fault' \in Faults => SavedInv'
    BY <1>1, <1>2, <1>5, ProfileStored
  <2>2. CASE Done(i) /\ spinner' = 0 /\ stack' = stack /\ fault' = fault
    BY <1>1, <1>2, <2>1, <2>2, EndsQuietly DEF Parts
  <2>3. CASE /\ fault' = "IsProviderKYC" /\ Done(i)
             /\ stack' = stack /\ spinner' = spinner
    <3>1. /\ Len(stack') \in Nat /\ Len(stack') >= Len(stack)
          /\ spinner' \in 0 .. Len(stack')
      BY <2>3, Numbers
    <3>2. CallsInv' /\ StackInv' /\ AlertInv'
      BY <1>1, <2>1, <2>3, <3>1, CallsDone, StackKept, AlertKept
    <3>3. SpinnerInv'
      BY <2>3, <3>1, SpinnerChanged
    <3> QED BY <2>1, <2>3, <3>2, <3>3 DEF Parts, Faults
  <2>4. CASE /\ presentKit(i, calls[i].vc) /\ profile' = calls[i].kind
             /\ fault' = fault
    <3>1. profile' # "none"
      BY <2>1, <2>4 DEF Types
    <3> QED BY <1>1, <1>2, <2>1, <2>4, <3>1, KitOpened DEF Parts
  <2>5. CASE /\ Follow(i, "phoneLogin", calls[i].vc, "none") /\ spinner' = 0
             /\ fault' = fault /\ stack' = stack
    <3>1. "phoneLogin" \in OtherOps \ {"trip"}
      BY DEF OtherOps
    <3> QED BY <1>1, <1>2, <2>1, <2>5, <3>1, FollowsQuietly DEF Parts
  <2>6. CASE /\ present(calls[i].vc, "identity") /\ profile' = calls[i].kind
             /\ Done(i) /\ spinner' = 0 /\ fault' = fault
    BY <1>1, <1>5, <2>6, IdentityOpened
  <2> QED BY <1>5, <2>2, <2>3, <2>4, <2>5, <2>6
<1>6. \/ /\ profile' = calls[i].kind /\ active' = TRUE
         /\ \/ /\ userType = "client"
               /\ moveForwardToDashboard(i, "client", calls[i].kind, 0)
            \/ /\ userType # "client"
               /\ moveForwardToDashboard(i, "provider", "provider", 0)
      \/ /\ active' = active /\ profile' \in {profile, calls[i].kind}
         /\ \/ /\ fault' = fault
               /\ \/ Done(i) /\ spinner' = 0 /\ stack' = stack
                  \/ /\ Follow(i, "phoneLogin", calls[i].vc, "none")
                     /\ spinner' = 0 /\ stack' = stack
                  \/ /\ profile' = calls[i].kind
                     /\ presentKit(i, calls[i].vc)
                  \/ /\ profile' = calls[i].kind
                     /\ present(calls[i].vc, "identity")
                     /\ Done(i) /\ spinner' = 0
            \/ /\ fault' = "IsProviderKYC" /\ Done(i)
               /\ stack' = stack /\ spinner' = spinner
  BY Zenon DEF loginAnswers
<1> QED BY <1>4, <1>5, <1>6

\* What a call in flight presupposes, and the type of its kind.
LEMMA CallRead ==
    ASSUME Parts, NEW i \in Slots
    PROVE  /\ CallOK(calls[i], userType, active, profile, auth, home)
           /\ calls[i].kind \in Profiles
BY Numbers DEF Parts, CallsInv, CallsOK

\* Sign up and the forgotten password are answered.
LEMMA AccountAnswersSafe ==
    ASSUME Parts, NEW i \in Slots, accountAnswers(i)
    PROVE  Parts'
<1>1. /\ fault = "none" /\ calls[i].op \in {"register", "forgot"}
      /\ spinner' = 0
      /\ UNCHANGED <<userType, active, auth, fault, home, stack, alert>>
      /\ \/ /\ profile' = calls[i].kind
            /\ \E op \in {"phoneRegister", "phoneForgot"} :
                  Follow(i, op, calls[i].vc, "none")
         \/ Done(i) /\ profile' = profile
  BY Zenon DEF accountAnswers, Alive
<1>2. active \in BOOLEAN /\ fault \in Faults
  BY DEF Parts, SavedInv
<1>3. SavedMono /\ SavedInv' /\ calls[i].kind \in Types
  BY <1>1, <1>2, ProfileStored
<1>4. CASE Done(i)
  BY <1>1, <1>3, <1>4, EndsQuietly DEF Parts
<1>5. ASSUME profile' = calls[i].kind,
             NEW op \in {"phoneRegister", "phoneForgot"},
             Follow(i, op, calls[i].vc, "none")
      PROVE  Parts'
  <2>1. /\ op \in OtherOps \ {"trip"} /\ profile' # "none"
        /\ calls[i].op \notin {"idle", "trip"}
        /\ op \notin {"laterVerify", "credentialForgot"}
    BY <1>1, <1>3, <1>5 DEF OtherOps, Types
  <2>2. StackInv' /\ CallsInv' /\ SpinnerInv' /\ AlertInv'
    BY <1>1, <1>3, <1>5, <2>1, FollowsQuietly
  <2> QED BY <1>3, <2>2 DEF Parts
<1> QED BY <1>1, <1>4, <1>5

\* Firebase has sent a code, or not.
LEMMA PhoneAnswersSafe ==
    ASSUME Parts, NEW i \in Slots, phoneAnswers(i)
    PROVE  Parts'
<1>1. /\ fault = "none"
      /\ calls[i].op \in {"phoneLogin", "phoneRegister", "phoneForgot"}
      /\ UNCHANGED <<userType, active, profile, fault, home, alert>>
      /\ \/ /\ auth' = "valid" /\ calls[i].op = "phoneForgot"
            /\ Follow(i, "laterVerify", calls[i].vc, "none")
            /\ stack' = stack /\ spinner' = spinner
         \/ /\ auth' = "valid" /\ Done(i) /\ spinner' = spinner
            /\ \/ /\ calls[i].op = "phoneLogin"
                  /\ present(calls[i].vc, "verifyLogin")
               \/ /\ calls[i].op = "phoneRegister"
                  /\ present(calls[i].vc, "verify")
         \/ Done(i) /\ spinner' = 0 /\ auth' = auth /\ stack' = stack
  BY Zenon DEF phoneAnswers, Alive
<1>2. SavedMono /\ SavedInv'
  BY <1>1 DEF Parts, SavedInv, SavedMono
<1>3. /\ calls[i].op \notin {"idle", "trip"} /\ calls[i].op \notin Removers
  BY <1>1 DEF Removers, RestOps
<1>4. CASE /\ auth' = "valid" /\ calls[i].op = "phoneForgot"
           /\ Follow(i, "laterVerify", calls[i].vc, "none")
           /\ stack' = stack /\ spinner' = spinner
  <2>1. "laterVerify" \in OtherOps \ {"trip"} /\ auth' # "none"
    BY <1>4 DEF OtherOps
  <2>2. profile' # "none"
    BY <1>1, <1>4, CallRead DEF CallOK
  <2>3. StackInv' /\ CallsInv' /\ SpinnerInv' /\ AlertInv'
    BY <1>1, <1>2, <1>3, <1>4, <2>1, <2>2, FollowsQuietly
  <2> QED BY <1>2, <2>3 DEF Parts
<1>5. CASE /\ auth' = "valid" /\ Done(i) /\ spinner' = spinner
           /\ calls[i].op = "phoneLogin"
           /\ present(calls[i].vc, "verifyLogin")
  <2>1. "verifyLogin" \in Names \ Types
    BY DEF Names, Types, Verifies
  <2>2. ScreenOK("verifyLogin", Len(stack) + 1, userType, active', profile',
                 auth')
    BY <1>5, Numbers DEF ScreenOK, Types, WithProfile, Verifies
  <2>3. StackInv' /\ CallsInv' /\ SpinnerInv' /\ AlertInv'
    BY <1>1, <1>2, <1>3, <1>5, <2>1, <2>2, EndsPresenting
  <2> QED BY <1>2, <2>3 DEF Parts
<1>7. CASE /\ auth' = "valid" /\ Done(i) /\ spinner' = spinner
           /\ calls[i].op = "phoneRegister"
           /\ present(calls[i].vc, "verify")
  <2>1. "verify" \in Names \ Types
    BY DEF Names, Types, Verifies
  <2>2. profile' # "none"
    BY <1>1, <1>7, CallRead DEF CallOK
  <2>3. ScreenOK("verify", Len(stack) + 1, userType, active', profile', auth')
    BY <1>7, <2>2, Numbers DEF ScreenOK, Types, WithProfile, Verifies
  <2>4. StackInv' /\ CallsInv' /\ SpinnerInv' /\ AlertInv'
    BY <1>1, <1>2, <1>3, <1>7, <2>1, <2>3, EndsPresenting
  <2> QED BY <1>2, <2>4 DEF Parts
<1>6. CASE Done(i) /\ spinner' = 0 /\ auth' = auth /\ stack' = stack
  BY <1>1, <1>2, <1>6, EndsQuietly DEF Parts
<1> QED BY <1>1, <1>4, <1>5, <1>6, <1>7

\* The two delays of one second.
LEMMA LaterFiresSafe ==
    ASSUME Parts, NEW i \in Slots, laterFires(i)
    PROVE  Parts'
<1>1. /\ fault = "none" /\ calls[i].op \in {"laterVerify", "laterSignin"}
      /\ Done(i)
      /\ UNCHANGED <<savedVars, fault, home, alert, spinner>>
      /\ \/ calls[i].op = "laterVerify" /\ present(calls[i].vc, "verifyForgot")
         \/ present(calls[i].vc, "signin")
  BY Zenon DEF laterFires, Alive
<1>2. SavedMono /\ SavedInv'
  BY <1>1, SavedKept DEF Faults
<1>3. /\ calls[i].op # "idle" /\ calls[i].op \notin Removers
  BY <1>1 DEF Removers, RestOps
<1>4. CASE calls[i].op = "laterVerify" /\ present(calls[i].vc, "verifyForgot")
  <2>1. "verifyForgot" \in Names \ Types
    BY DEF Names, Types, Verifies
  <2>2. profile' # "none" /\ auth' # "none"
    BY <1>2, <1>4, CallRead DEF CallOK, SavedMono
  <2>3. ScreenOK("verifyForgot", Len(stack) + 1, userType, active', profile',
                 auth')
    BY <2>2, Numbers DEF ScreenOK, Types, WithProfile, Verifies
  <2>4. StackInv' /\ CallsInv' /\ SpinnerInv' /\ AlertInv'
    BY <1>1, <1>2, <1>3, <1>4, <2>1, <2>3, EndsPresenting
  <2> QED BY <1>2, <2>4 DEF Parts
<1>5. CASE present(calls[i].vc, "signin")
  <2>1. "signin" \in Names \ Types
    BY DEF Names, Types
  <2>2. ScreenOK("signin", Len(stack) + 1, userType, active', profile', auth')
    BY Numbers DEF ScreenOK, Types, WithProfile, Verifies
  <2>3. StackInv' /\ CallsInv' /\ SpinnerInv' /\ AlertInv'
    BY <1>1, <1>2, <1>3, <1>5, <2>1, <2>2, EndsPresenting
  <2> QED BY <1>2, <2>3 DEF Parts
<1> QED BY <1>1, <1>4, <1>5

\* Call i ends and only the state of a screen changes.
LEMMA EndsRestating ==
    ASSUME Parts, SavedMono, NEW i \in Slots, alert' = alert,
           Len(stack') = Len(stack), stack' \in Seq(Screens),
           \A e \in 1 .. Len(stack) : stack'[e].name = stack[e].name
    PROVE  /\ StackInv' /\ AlertInv'
           /\ Done(i) => CallsInv'
           /\ spinner' = 0 => SpinnerInv'
<1>1. Len(stack') \in Nat /\ Len(stack') >= Len(stack)
      /\ Len(stack) \in 1 .. Len(stack)
  BY Numbers
<1>2. StackInv'
  <2>1. StackOK(stack', userType, active, profile, auth)
    BY StackByNames DEF Parts, StackInv
  <2>2. StackOK(stack', userType, active', profile', auth')
    BY <2>1, StackMono DEF SavedMono
  <2> QED BY <2>2 DEF Parts, StackInv, SavedMono
<1>3. AlertInv'
  BY <1>1, AlertStays DEF Parts, AlertInv
<1>4. Done(i) => CallsInv'
  BY <1>1, CallsDone
<1>5. spinner' = 0 => SpinnerInv'
  BY <1>1, SpinnerChanged
<1> QED BY <1>2, <1>3, <1>4, <1>5

\* The state of the screen of call i is set, if the screen is there.
LEMMA ScreenSet ==
    ASSUME Parts, NEW i \in Slots,
           NEW st \in {"none", "counting", "enabled", "used",
                       "empty", "noSizes", "sized"},
           SetKit(calls[i].vc, st)
    PROVE  /\ stack' \in Seq(Screens) /\ Len(stack') = Len(stack)
           /\ \A e \in 1 .. Len(stack) : stack'[e].name = stack[e].name
<1>1. CASE calls[i].vc = 0
  BY <1>1, Numbers DEF SetKit
<1>2. CASE calls[i].vc # 0
  <2>1. /\ calls[i].vc \in 1 .. Len(stack) /\ stack \in Seq(Screens)
    BY <1>2, Numbers, BoundTypes
  <2>2. stack' = [stack EXCEPT ![calls[i].vc].st = st]
    BY <1>2 DEF SetKit
  <2> QED BY <2>1, <2>2, StackRestate
<1> QED BY <1>1, <1>2

\* A new code was sent, or not: an empty id is still an id.
LEMMA ResendAnswersSafe ==
    ASSUME Parts, NEW i \in Slots, resendAnswers(i)
    PROVE  Parts'
<1>1. /\ fault = "none" /\ auth' \in {"valid", "empty"}
      /\ SetKit(calls[i].vc, "used")
      /\ Done(i) /\ spinner' = 0
      /\ UNCHANGED <<userType, active, profile, fault, home, alert>>
  BY DEF resendAnswers, Alive, SetKit
<1>2. SavedMono /\ SavedInv'
  BY <1>1 DEF Parts, SavedInv, SavedMono
<1>3. /\ stack' \in Seq(Screens) /\ Len(stack') = Len(stack)
      /\ \A e \in 1 .. Len(stack) : stack'[e].name = stack[e].name
  BY <1>1, ScreenSet
<1>4. StackInv' /\ AlertInv' /\ CallsInv' /\ SpinnerInv'
  BY <1>1, <1>2, <1>3, EndsRestating
<1> QED BY <1>2, <1>4 DEF Parts

\* Call i goes on with a call under the indicator, from the same screen.
LEMMA FollowsRequesting ==
    ASSUME Parts, SavedMono, NEW i \in Slots,
           calls[i].op \notin {"idle", "trip"}, Len(stack') = Len(stack),
           NEW op \in Removers, NEW kind \in Profiles,
           FollowRequest(i, op, calls[i].vc, kind),
           op # "identity",
           op \in {"login", "register", "forgot", "verifyUser", "profile"} =>
               kind # "none"
    PROVE  CallsInv' /\ SpinnerInv'
<1>1. /\ userType # "none" /\ calls[i].vc \in Nat /\ calls[i].vc # 1
      /\ calls[i].vc <= Len(stack') /\ calls[i].vc <= MaxDepth
      /\ Len(stack') \in Nat /\ Len(stack') >= Len(stack)
  BY CallerPlace, Numbers
<1>2. /\ op \in RestOps \cup OtherOps
      /\ op \notin {"trip", "phoneRegister", "phoneForgot", "laterVerify",
                    "credentialForgot"}
  BY DEF Removers, RestOps
<1>3. CASE Follow(i, op, calls[i].vc, kind) /\ spinner' = Len(stack')
  <2>1. CallOK([op |-> op, vc |-> calls[i].vc, kind |-> kind],
               userType, active', profile', auth', home)
    BY <1>1, <1>2, CallMade
  <2>2. CallsInv' /\ calls'[i].op = op
    BY <1>1, <1>2, <1>3, <2>1, CallsFollow
  <2>3. SpinnerInv'
    BY <1>1, <1>3, <2>2, SpinnerChanged
  <2> QED BY <2>2, <2>3
<1>4. CASE Done(i) /\ spinner' = 0
  BY <1>1, <1>4, CallsDone, SpinnerChanged
<1> QED BY <1>3, <1>4 DEF FollowRequest, Offline

\* Firebase has checked the code.
LEMMA CredentialAnswersSafe ==
    ASSUME Parts, NEW i \in Slots, credentialAnswers(i)
    PROVE  Parts'
<1>1. /\ fault = "none" /\ UNCHANGED <<savedVars, home, alert>>
      /\ calls[i].op \in {"credential", "credentialForgot", "badCredential"}
      /\ \/ /\ calls[i].op = "credentialForgot"
            /\ present(calls[i].vc, "change") /\ Done(i)
            /\ fault' = fault /\ spinner' = spinner
         \/ /\ calls[i].op = "credential" /\ stack' = stack
            /\ FollowRequest(i, "verifyUser", calls[i].vc, userType)
            /\ fault' = fault
         \/ /\ stack' = stack /\ Done(i) /\ spinner' = spinner
            /\ fault' = IdName(userType)
         \/ Done(i) /\ spinner' = 0 /\ fault' = fault /\ stack' = stack
  BY Zenon DEF credentialAnswers, Alive
<1>2. SavedMono /\ (fault' \in Faults => SavedInv') /\ fault \in Faults
  BY <1>1, SavedKept DEF Faults
<1>3. /\ calls[i].op \notin {"idle", "trip"} /\ calls[i].op \notin Removers
  BY <1>1 DEF Removers, RestOps
<1>4. CASE /\ calls[i].op = "credentialForgot"
           /\ present(calls[i].vc, "change") /\ Done(i)
           /\ fault' = fault /\ spinner' = spinner
  <2>1. "change" \in Names \ Types
    BY DEF Names, Types
  <2>2. profile' # "none"
    BY <1>2, <1>4, CallRead DEF CallOK, SavedMono
  <2>3. ScreenOK("change", Len(stack) + 1, userType, active', profile', auth')
    BY <2>2, Numbers DEF ScreenOK, Types, WithProfile, Verifies
  <2>4. StackInv' /\ CallsInv' /\ SpinnerInv' /\ AlertInv'
    BY <1>1, <1>2, <1>3, <1>4, <2>1, <2>3, EndsPresenting
  <2> QED BY <1>2, <1>4, <2>4 DEF Parts
<1>5. CASE /\ stack' = stack /\ fault' = fault
           /\ FollowRequest(i, "verifyUser", calls[i].vc, userType)
  <2>1. "verifyUser" \in Removers /\ userType \in Profiles
    BY DEF Removers, RestOps, Parts, SavedInv
  <2>2. userType # "none"
    BY <1>3, CallerPlace
  <2>3. CallsInv' /\ SpinnerInv'
    BY <1>2, <1>3, <1>5, <2>1, <2>2, FollowsRequesting
  <2>4. StackInv' /\ AlertInv'
    BY <1>1, <1>2, <1>5, StackKept, AlertKept
  <2> QED BY <1>2, <1>5, <2>3, <2>4 DEF Parts
<1>6. CASE /\ stack' = stack /\ Done(i) /\ spinner' = spinner
           /\ fault' = IdName(userType)
  <2>1. /\ Len(stack') \in Nat /\ Len(stack') >= Len(stack)
        /\ spinner' \in 0 .. Len(stack')
    BY <1>6, Numbers
  <2>2. fault' \in Faults /\ fault' # "none"
    BY <1>6 DEF IdName, Faults
  <2>3. StackInv' /\ AlertInv' /\ CallsInv'
    BY <1>1, <1>2, <1>6, <2>1, StackKept, AlertKept, CallsDone
  <2>4. SpinnerInv'
    BY <2>1, <2>2, SpinnerChanged
  <2> QED BY <1>2, <2>2, <2>3, <2>4 DEF Parts
<1>7. CASE Done(i) /\ spinner' = 0 /\ fault' = fault /\ stack' = stack
  BY <1>1, <1>2, <1>7, EndsQuietly DEF Parts
<1> QED BY <1>1, <1>4, <1>5, <1>6, <1>7

\* The server has verified the user.
LEMMA VerifyUserAnswersSafe ==
    ASSUME Parts, NEW i \in Slots, verifyUserAnswers(i)
    PROVE  Parts'
<1>1. /\ fault = "none" /\ calls[i].op = "verifyUser"
      /\ UNCHANGED <<userType, auth, home, alert>>
      /\ \/ /\ profile' = calls[i].kind /\ userType = "client"
            /\ active' = TRUE
            /\ moveForwardToDashboard(i, "client", calls[i].kind, 0)
         \/ /\ profile' = calls[i].kind /\ active' = active /\ fault' = fault
            /\ present(calls[i].vc, "identity") /\ Done(i) /\ spinner' = 0
         \/ /\ Done(i) /\ spinner' = 0 /\ active' = active /\ fault' = fault
            /\ profile' = profile /\ stack' = stack
  BY Zenon DEF verifyUserAnswers, Alive
<1>2. CASE /\ profile' = calls[i].kind /\ userType = "client"
           /\ active' = TRUE
           /\ moveForwardToDashboard(i, "client", calls[i].kind, 0)
  <2>1. active' /\ active' \in BOOLEAN /\ "client" \in Types
    BY <1>2 DEF Types
  <2> QED BY <1>1, <1>2, <2>1, RememberedSafe
<1>3. CASE /\ profile' = calls[i].kind /\ active' = active /\ fault' = fault
           /\ present(calls[i].vc, "identity") /\ Done(i) /\ spinner' = 0
  BY <1>1, <1>3, IdentityOpened
<1>4. CASE /\ Done(i) /\ spinner' = 0 /\ active' = active /\ fault' = fault
           /\ profile' = profile /\ stack' = stack
  <2>1. SavedMono /\ SavedInv'
    BY <1>1, <1>4 DEF Parts, SavedInv, SavedMono
  <2> QED BY <1>1, <1>4, <2>1, EndsQuietly DEF Parts
<1> QED BY <1>1, <1>2, <1>3, <1>4

\* The new password, the profile and the pictures are answered.
LEMMA OtherAnswersSafe ==
    ASSUME Parts, NEW i \in Slots,
           resetAnswers(i) \/ profileAnswers(i) \/ identityAnswers(i)
    PROVE  Parts'
<1>1. CASE resetAnswers(i)
  <2>1. /\ fault = "none" /\ calls[i].op = "reset" /\ spinner' = 0
        /\ UNCHANGED <<savedVars, fault, home, stack, alert>>
        /\ Follow(i, "laterSignin", calls[i].vc, "none") \/ Done(i)
    BY <1>1 DEF resetAnswers, Alive
  <2>2. SavedMono /\ SavedInv'
    BY <2>1, SavedKept DEF Faults
  <2>3. CASE Done(i)
    BY <2>1, <2>2, <2>3, EndsQuietly DEF Parts
  <2>4. CASE Follow(i, "laterSignin", calls[i].vc, "none")
    <3>1. /\ "laterSignin" \in OtherOps \ {"trip"}
          /\ calls[i].op \notin {"idle", "trip"}
      BY <2>1 DEF OtherOps
    <3>2. StackInv' /\ CallsInv' /\ SpinnerInv' /\ AlertInv'
      BY <2>1, <2>2, <2>4, <3>1, FollowsQuietly
    <3> QED BY <2>2, <3>2 DEF Parts
  <2> QED BY <2>1, <2>3, <2>4
<1>2. CASE profileAnswers(i)
  <2>1. /\ fault = "none" /\ calls[i].op = "profile" /\ spinner' = 0
        /\ profile' \in {profile, calls[i].kind} /\ Done(i)
        /\ UNCHANGED <<userType, active, auth, fault, home, stack, alert>>
    BY <1>2 DEF profileAnswers, Alive
  <2>2. active' \in BOOLEAN /\ (active => active') /\ fault \in Faults
    BY <2>1 DEF Parts, SavedInv
  <2>3. SavedMono /\ SavedInv'
    BY <2>1, <2>2, ProfileStored
  <2> QED BY <2>1, <2>3, EndsQuietly DEF Parts
<1>3. CASE identityAnswers(i)
  <2>1. /\ fault = "none" /\ calls[i].op = "identity"
        /\ UNCHANGED <<savedVars, fault, home, alert>>
        /\ \/ presentKit(i, calls[i].vc)
           \/ Done(i) /\ spinner' = 0 /\ stack' = stack
    BY <1>3 DEF identityAnswers, Alive
  <2>2. SavedMono /\ SavedInv'
    BY <2>1, SavedKept DEF Faults
  <2>3. CASE presentKit(i, calls[i].vc)
    <3>1. profile' # "none" /\ calls[i].op \notin {"idle", "trip"}
      BY <2>1, <2>2, CallRead DEF CallOK, SavedMono
    <3>2. StackInv' /\ CallsInv' /\ SpinnerInv' /\ AlertInv'
      BY <2>1, <2>2, <2>3, <3>1, KitOpened
    <3> QED BY <2>2, <3>2 DEF Parts
  <2>4. CASE Done(i) /\ spinner' = 0 /\ stack' = stack
    BY <2>1, <2>2, <2>4, EndsQuietly DEF Parts
  <2> QED BY <2>1, <2>3, <2>4
<1> QED BY <1>1, <1>2, <1>3

\* The list, the sizes and the upload of the kit.  The upload that succeeds
\* leaves the indicator as it found it: it is no call that removes one.
LEMMA KitAnswersSafe ==
    ASSUME Parts, NEW i \in Slots, kitAnswers(i)
    PROVE  Parts'
<1>1. /\ fault = "none" /\ UNCHANGED <<savedVars, fault, home, alert>>
      /\ calls[i].op \in {"kit", "kitSize", "saveKit"}
      /\ \/ /\ SetKit(calls[i].vc, "noSizes")
            /\ FollowRequest(i, "kitSize", calls[i].vc, "provider")
         \/ /\ SetKit(calls[i].vc, "sized") /\ Done(i) /\ spinner' = 0
         \/ /\ calls[i].op = "saveKit" /\ present(calls[i].vc, "signin")
            /\ Done(i) /\ spinner' = spinner
         \/ Done(i) /\ spinner' = 0 /\ stack' = stack
  BY Zenon DEF kitAnswers, Alive
<1>2. SavedMono /\ SavedInv'
  BY <1>1, SavedKept DEF Faults
<1>3. calls[i].op \notin {"idle", "trip"} /\ calls[i].op # "idle"
  BY <1>1
<1>4. CASE /\ SetKit(calls[i].vc, "noSizes")
           /\ FollowRequest(i, "kitSize", calls[i].vc, "provider")
  <2>1. /\ stack' \in Seq(Screens) /\ Len(stack') = Len(stack)
        /\ \A e \in 1 .. Len(stack) : stack'[e].name = stack[e].name
    BY <1>4, ScreenSet
  <2>2. "kitSize" \in Removers /\ "provider" \in Profiles
    BY DEF Removers, RestOps, Profiles, Types
  <2>3. CallsInv' /\ SpinnerInv'
    BY <1>2, <1>3, <1>4, <2>1, <2>2, FollowsRequesting
  <2>4. StackInv' /\ AlertInv'
    BY <1>1, <1>2, <2>1, EndsRestating
  <2> QED BY <1>2, <2>3, <2>4 DEF Parts
<1>5. CASE SetKit(calls[i].vc, "sized") /\ Done(i) /\ spinner' = 0
  <2>1. /\ stack' \in Seq(Screens) /\ Len(stack') = Len(stack)
        /\ \A e \in 1 .. Len(stack) : stack'[e].name = stack[e].name
    BY <1>5, ScreenSet
  <2>2. StackInv' /\ AlertInv' /\ CallsInv' /\ SpinnerInv'
    BY <1>1, <1>2, <1>5, <2>1, EndsRestating
  <2> QED BY <1>2, <2>2 DEF Parts
<1>6. CASE /\ calls[i].op = "saveKit" /\ present(calls[i].vc, "signin")
           /\ Done(i) /\ spinner' = spinner
  <2>1. "signin" \in Names \ Types /\ "saveKit" \notin Removers
    BY DEF Names, Types, Removers
  <2>2. ScreenOK("signin", Len(stack) + 1, userType, active', profile', auth')
    BY Numbers DEF ScreenOK, Types, WithProfile, Verifies
  <2>3. StackInv' /\ CallsInv' /\ SpinnerInv' /\ AlertInv'
    BY <1>1, <1>2, <1>3, <1>6, <2>1, <2>2, EndsPresenting
  <2> QED BY <1>2, <2>3 DEF Parts
<1>7. CASE Done(i) /\ spinner' = 0 /\ stack' = stack
  BY <1>1, <1>2, <1>7, EndsQuietly DEF Parts
<1> QED BY <1>1, <1>4, <1>5, <1>6, <1>7

\* A failed call: an alert, where there is room for one.
LEMMA FailureSafe ==
    ASSUME Parts, NEW i \in Slots, NEW kind \in {"logout", "error"},
           getResponseFails(i, kind)
    PROVE  Parts'
<1>1. /\ fault = "none" /\ showAlertWithMessage(kind, calls[i].vc)
      /\ UNCHANGED <<savedVars, home>>
      /\ \/ Done(i) /\ spinner' = 0 /\ fault' = fault /\ stack' = stack
         \/ /\ calls[i].op = "trip"
            /\ moveForwardToDashboard(i, calls[i].kind, profile, 0)
  BY Zenon DEF getResponseFails, Alive
<1>2. SavedMono /\ (fault' \in Faults => SavedInv') /\ fault \in Faults
  BY <1>1, SavedKept DEF Faults
<1>3. /\ StackInv' /\ CallsInv' /\ SpinnerInv' /\ fault' \in Faults
      /\ stack' = stack \/ alert = NoAlert
  <2>1. CASE Done(i) /\ spinner' = 0 /\ fault' = fault /\ stack' = stack
    BY <1>1, <1>2, <2>1, EndsQuietly
  <2>2. CASE /\ calls[i].op = "trip"
             /\ moveForwardToDashboard(i, calls[i].kind, profile, 0)
    <3>1. calls[i].kind \in Types
      BY <2>2, CallRead DEF CallOK, Profiles
    <3>2. Presents(calls[i].vc) => active' /\ calls[i].kind = userType
      <4>1. Presents(calls[i].vc) => calls[i].vc # 0
        BY <2>2, CallerPlace, Numbers
      <4> QED BY <1>2, <2>2, <4>1, CallRead DEF CallOK, SavedMono
    <3> QED BY <1>1, <1>2, <2>2, <3>1, <3>2, DashboardOpened
  <2> QED BY <1>1, <2>1, <2>2
<1>4. AlertInv'
  <2>1. CASE alert' = alert
    BY <1>3, <2>1, AlertKept, AlertOff DEF Parts, AlertInv
  <2>2. CASE Len(stack') <= 2 /\ alert' = [kind |-> kind, vc |-> calls[i].vc]
    <3>1. calls[i].vc \in 0 .. MaxDepth
      BY Numbers
    <3> QED BY <2>2, <3>1 DEF AlertInv, AlertOK
  <2> QED BY <1>1, <2>1, <2>2 DEF showAlertWithMessage
<1> QED BY <1>2, <1>3, <1>4 DEF Parts

-----------------------------------------------------------------------------
(***************************************************************************)
(* The theorems                                                            *)
(***************************************************************************)

\* A fresh installation satisfies the invariant.
LEMMA InvInit == Init => Inv
<1> SUFFICES ASSUME Init PROVE Parts
  BY InvParts
<1>1. SavedInv
  BY DEF Init, SavedInv, Profiles, Faults
<1>2. /\ stack \in Seq(Screens) /\ Len(stack) = 1
      /\ StackOK(stack, userType, active, profile, auth)
  BY StackHome DEF Init
<1>3. StackInv
  BY <1>2, BoundTypes DEF StackInv
<1>4. CallsInv
  <2>1. /\ CallOK(Idle, userType, active, profile, auth, home)
        /\ Idle \in Calls /\ Idle.vc = 0
    BY IdleOK
  <2> QED BY <1>2, <2>1 DEF Init, CallsInv, CallsType, CallsOK
<1>5. SpinnerInv
  BY <1>2 DEF Init, SpinnerInv, SpinnerOK
<1>6. AlertInv
  BY AlertOff, BoundTypes DEF Init, AlertInv, NoAlert
<1> QED BY <1>1, <1>3, <1>4, <1>5, <1>6 DEF Parts

\* The user's steps.
LEMMA UserStepSafe ==
    ASSUME Parts, UserStep
    PROVE  Parts'
<1>1. CASE Relaunch
  <2>1. SavedInv'
    BY <1>1 DEF Relaunch, Parts, SavedInv, savedVars, Faults
  <2> QED BY <1>1, <2>1, LaunchSafe DEF Relaunch
<1> QED
  BY <1>1, HomeViewSafe, ChooseTypeSafe, AccountButtonsSafe, OpenFromSignInSafe,
     BackButtonSafe, VerifyButtonsSafe, ProfileButtonsSafe, LogoutPressedSafe,
     ConfirmLogoutSafe, CloseAlertSafe, ResendTimerSafe DEF UserStep

\* The answers.
LEMMA AnswerStepSafe ==
    ASSUME Parts, AnswerStep
    PROVE  Parts'
BY TripAnswersSafe, LoginAnswersSafe, AccountAnswersSafe, PhoneAnswersSafe,
   LaterFiresSafe, ResendAnswersSafe, CredentialAnswersSafe,
   VerifyUserAnswersSafe, OtherAnswersSafe, KitAnswersSafe, FailureSafe,
   DashboardCallSafe DEF AnswerStep

\* Every step keeps the invariant.
LEMMA InvNext == Inv /\ [Next]_vars => Inv'
<1> SUFFICES ASSUME Inv, [Next]_vars PROVE Inv'
  OBVIOUS
<1>1. Parts
  BY InvParts
<1>2. Parts' => Inv'
  BY InvParts, PTL
<1>3. CASE Next
  BY <1>1, <1>2, <1>3, UserStepSafe, AnswerStepSafe DEF Next
<1>4. CASE UNCHANGED vars
  <2>1. SavedInv' /\ StackInv' /\ CallsInv' /\ SpinnerInv' /\ AlertInv'
    BY <1>1, <1>4 DEF vars, savedVars, Parts, SavedInv, StackInv, CallsInv,
       SpinnerInv, AlertInv
  <2> QED BY <1>2, <2>1 DEF Parts
<1> QED BY <1>3, <1>4

\* The inductive invariant: for any number of screens on top of each other
\* and of calls in flight, the types are right and every screen, every call
\* in flight and the indicator have what they presuppose.
THEOREM Inductive == Spec => []Inv
BY InvInit, InvNext, PTL DEF Spec

\* The stack never grows over its bound, every call knows a screen that is
\* there or none, and the indicator covers a screen that is there.
THEOREM TypeCorrect == Spec => []TypeOK
<1>1. Inv => TypeOK
  BY DEF Inv
<1> QED BY <1>1, Inductive, PTL

\* A screen under the indicator, other than the kit, has a call in flight that
\* will remove it, however the ten kinds of calls, the toasts and the other
\* screens share the one indicator of the app.
THEOREM SpinnerIsRemoved == Spec => []SpinnerHasCall
<1>1. Inv => SpinnerHasCall
  BY DEF Inv, SafeInv, SpinnerOK, SpinnerHasCall, Removers
<1> QED BY <1>1, Inductive, PTL

\* A dashboard on screen is that of a remembered user of the stored type,
\* whichever answers arrive late.
THEOREM DashboardRemembered == Spec => []DashboardIsRemembered
<1>1. Inv => DashboardIsRemembered
  BY DEF Inv, SafeInv, StackOK, ScreenOK, DashboardIsRemembered, Depth
<1> QED BY <1>1, Inductive, PTL

\* A screen that unwraps the stored profile appears only once it is stored,
\* unless it is the OTP screen that a log-in opens; an OTP screen appears only
\* once the verification id is stored, over all the ways to get there.
THEOREM DataBeforeScreens == Spec => []ScreensHaveData
<1>1. Inv => ScreensHaveData
  BY DEF Inv, SafeInv, StackOK, ScreenOK, ScreensHaveData, Depth, WithProfile,
     Verifies
<1> QED BY <1>1, Inductive, PTL
=============================================================================
