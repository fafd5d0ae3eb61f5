---------------------------- MODULE RosterProofs ----------------------------
(***************************************************************************)
(* Proofs about Roster, for any finite set of providers and any bounds:    *)
(* its type invariant, that the two arrays stay parallel and list nobody   *)
(* twice, that a cancellation reaches whoever was asked, and that a wrong  *)
(* entry has a cause.                                                      *)
(***************************************************************************)
EXTENDS Roster, SequenceTheorems, FiniteSetTheorems, TLAPS

-----------------------------------------------------------------------------
(***************************************************************************)
(* The inductive invariant                                                 *)
(***************************************************************************)

Distinct(s) == \A j, k \in 1 .. Len(s) : j # k => s[j] # s[k]

\* The arrays are parallel and nobody is in them twice.
ArraysInv ==
    /\ arrMarkers = arrOnlineProviders /\ ~fault
    /\ Distinct(arrOnlineProviders)

\* The roster is empty until the list has come, and only then does the
\* dashboard listen; pings travel on an open socket.
FetchInv ==
    /\ call # "done" => arrOnlineProviders = <<>> /\ slot # "dashboard"
    /\ socket # "open" => pings = <<>>

Off(k)     == pings[k].status = "offline"
Same(j, k) == pings[j].id = pings[k].id

\* The last ping of a provider tells where it is.
LastPingTells ==
    \A k \in 1 .. Len(pings) :
        \/ pings[k].status = status[pings[k].id]
        \/ \E m \in k + 1 .. Len(pings) : Same(k, m)

\* A provider that comes has left before, and one that leaves has come.
PingsAlternate ==
    \A j, k \in 1 .. Len(pings) :
        j < k /\ Same(j, k) /\ (Off(j) <=> Off(k)) =>
            \E m \in j + 1 .. k - 1 : Same(j, m)

\* The list on its way differs from the truth only where something was missed
\* or is on its way as well.
AnswerInv ==
    call = "answering" =>
        \A p \in Providers \ (unheard \union PingIds) : snapshot[p] = status[p]

\* When the first ping of a provider says that it comes, it is not listed yet.
FirstPingNews ==
    call = "done" =>
        \A k \in 1 .. Len(pings) :
            \/ Off(k) \/ pings[k].id \in unheard \/ pings[k].id \notin Roster
            \/ \E m \in 1 .. k - 1 : Same(m, k)

Inv ==
    /\ TypeOK /\ ArraysInv /\ FetchInv /\ LastPingTells /\ PingsAlternate
    /\ AnswerInv /\ FirstPingNews /\ RosterErrorHasCause /\ CancelReachesAsked

-----------------------------------------------------------------------------
(***************************************************************************)
(* The arrays                                                              *)
(***************************************************************************)

\* The loop over no index.
LEMMA RemoveNone ==
    ASSUME NEW s
    PROVE  RemoveAtIndexes(s, <<>>) = s
<1> DEFINE step(t, i) == IF i <= Len(t) THEN RemoveAt(t, i) ELSE t
<1> DEFINE def(iter) == iter = [S \in SUBSET {} |-> IF S = {} THEN s
               ELSE LET x == Max(S) IN step(iter[S \ {x}], <<>>[x])]
<1>1. def([S \in SUBSET {} |-> s])
  BY DEF step
<1>2. DOMAIN <<>> = {}
  OBVIOUS
<1>3. RemoveAtIndexes(s, <<>>) = (CHOOSE iter : def(iter))[{}]
  BY <1>2, Zenon DEF RemoveAtIndexes, FoldLeft, MapThenFoldSet, step, def
<1> QED BY <1>1, <1>3

\* The loop over one index.
LEMMA RemoveOne ==
    ASSUME NEW s, NEW q, DOMAIN q = {1}
    PROVE  RemoveAtIndexes(s, q) =
               IF q[1] <= Len(s) THEN RemoveAt(s, q[1]) ELSE s
<1> DEFINE step(t, i) == IF i <= Len(t) THEN RemoveAt(t, i) ELSE t
<1> DEFINE def(iter) == iter = [S \in SUBSET {1} |-> IF S = {} THEN s
               ELSE LET x == Max(S) IN step(iter[S \ {x}], q[x])]
           res == [S \in SUBSET {1} |-> IF S = {} THEN s ELSE step(s, q[1])]
<1>1. Max({1}) = 1
  <2>1. \E x \in {1} : \A y \in {1} : x >= y
    OBVIOUS
  <2> QED BY <2>1 DEF Max
<1>2. \A S \in SUBSET {1} : S = {} \/ S = {1}
  OBVIOUS
<1>3. {1} \ {1} = {} /\ {} \in SUBSET {1} /\ {1} \in SUBSET {1} /\ {1} # {}
  OBVIOUS
<1> HIDE DEF step
<1>4. def(res)
  <2>1. ASSUME NEW S \in SUBSET {1}
        PROVE  res[S] = IF S = {} THEN s
                        ELSE LET x == Max(S) IN step(res[S \ {x}], q[x])
    <3>1. CASE S = {}
      BY <3>1
    <3>2. CASE S = {1}
      <4>1. res[{}] = s
        BY <1>3
      <4>2. res[S] = step(s, q[1])
        BY <1>3, <3>2
      <4> HIDE DEF res
      <4> QED BY <1>1, <1>3, <3>2, <4>1, <4>2
    <3> QED BY <1>2, <3>1, <3>2
  <2> QED BY <2>1
<1>5. ASSUME NEW iter, def(iter) PROVE iter[{1}] = step(s, q[1])
  <2>1. iter[{}] = s
    BY <1>3, <1>5
  <2>2. iter[{1}] = step(iter[{1} \ {Max({1})}], q[Max({1})])
    BY <1>3, <1>5
  <2> QED BY <1>1, <1>3, <2>1, <2>2
<1>6. RemoveAtIndexes(s, q) = (CHOOSE iter : def(iter))[{1}]
  BY Zenon DEF RemoveAtIndexes, FoldLeft, MapThenFoldSet, step, def
<1> HIDE DEF def, res
<1>7. def(CHOOSE iter : def(iter))
  BY <1>4
<1>8. RemoveAtIndexes(s, q) = step(s, q[1])
  BY <1>5, <1>6, <1>7
<1> QED BY <1>8 DEF step

\* The elements of a sequence without its i-th one.
LEMMA RemoveAtIs ==
    ASSUME NEW S, NEW s \in Seq(S), Distinct(s), NEW i \in 1 .. Len(s)
    PROVE  /\ RemoveAt(s, i) \in Seq(S) /\ Distinct(RemoveAt(s, i))
           /\ Range(RemoveAt(s, i)) = Range(s) \ {s[i]}
<1> DEFINE a == SubSeq(s, 1, i - 1)
           b == SubSeq(s, i + 1, Len(s))
           r == a \o b
           at(k) == IF k < i THEN k ELSE k + 1
<1>1. /\ Len(s) \in Nat /\ DOMAIN s = 1 .. Len(s)
      /\ \A k \in 1 .. Len(s) : s[k] \in S
  BY LenProperties, ElementOfSeq
<1>2. /\ a \in Seq(S) /\ Len(a) = i - 1
      /\ \A k \in 1 .. i - 1 : a[k] = s[k]
  BY <1>1
<1>3. /\ b \in Seq(S) /\ Len(b) = Len(s) - i
      /\ \A k \in 1 .. Len(s) - i : b[k] = s[k + i]
  <2>1. /\ i + 1 \in Int /\ Len(s) \in Int
        /\ \A k \in i + 1 .. Len(s) : s[k] \in S
    BY <1>1
  <2>2. /\ b \in Seq(S)
        /\ Len(b) = IF i + 1 <= Len(s) THEN Len(s) - (i + 1) + 1 ELSE 0
        /\ \A k \in 1 .. Len(s) - (i + 1) + 1 : b[k] = s[i + 1 + k - 1]
    BY <2>1, SubSeqProperties
  <2> HIDE DEF b, r, at
  <2>3. Len(b) = Len(s) - i /\ Len(s) - (i + 1) + 1 = Len(s) - i
    <3>1. Len(s) \in Nat /\ i \in Nat /\ i <= Len(s)
      BY <1>1
    <3>2. IF i + 1 <= Len(s) THEN Len(s) - (i + 1) + 1 = Len(s) - i
          ELSE 0 = Len(s) - i
      BY <3>1
    <3> QED BY <2>2, <3>1, <3>2
  <2>4. \A k \in 1 .. Len(s) - i : i + 1 + k - 1 = k + i
    BY <1>1
  <2> QED BY <2>2, <2>3, <2>4
<1> HIDE DEF a, b
<1>4. /\ r \in Seq(S) /\ Len(r) = Len(a) + Len(b)
      /\ \A k \in 1 .. Len(a) + Len(b) :
            r[k] = IF k <= Len(a) THEN a[k] ELSE b[k - Len(a)]
  BY <1>2, <1>3, ConcatProperties
<1>5. Len(r) = Len(s) - 1
  BY <1>1, <1>2, <1>3, <1>4
<1> HIDE DEF r
<1>6. ASSUME NEW k \in 1 .. Len(r)
      PROVE  at(k) \in (1 .. Len(s)) \ {i} /\ r[k] = s[at(k)]
  <2>1. k \in 1 .. Len(a) + Len(b)
    BY <1>1, <1>2, <1>3, <1>5
  <2>2. CASE k < i
    <3>1. k <= Len(a) /\ k \in 1 .. i - 1 /\ k \in 1 .. Len(s)
      BY <1>1, <1>2, <2>2
    <3> QED BY <1>2, <1>4, <2>1, <2>2, <3>1
  <2>3. CASE ~(k < i)
    <3>1. ~(k <= Len(a)) /\ k - Len(a) \in 1 .. Len(s) - i
          /\ k - Len(a) + i = k + 1 /\ k + 1 \in 1 .. Len(s) /\ k + 1 # i
      BY <1>1, <1>2, <1>5, <2>3
    <3>2. b[k - Len(a)] = s[k - Len(a) + i]
      BY <1>3, <3>1
    <3> QED BY <1>4, <2>1, <2>3, <3>1, <3>2
  <2> QED BY <2>2, <2>3
<1>7. ASSUME NEW j \in 1 .. Len(r), NEW k \in 1 .. Len(r), j # k
      PROVE  r[j] # r[k]
  <2>1. at(j) # at(k)
    BY <1>1, <1>5, <1>7
  <2> HIDE DEF at
  <2> QED BY <1>6, <2>1 DEF Distinct
<1>8. \A m \in (1 .. Len(s)) \ {i} : \E k \in 1 .. Len(r) : at(k) = m
  <2>1. ASSUME NEW m \in (1 .. Len(s)) \ {i}
        PROVE  \E k \in 1 .. Len(r) : at(k) = m
    <3>1. CASE m < i
      <4>1. m \in 1 .. Len(r)
        BY <1>1, <1>5, <3>1
      <4> QED BY <3>1, <4>1
    <3>2. CASE ~(m < i)
      <4>1. m - 1 \in 1 .. Len(r) /\ at(m - 1) = m
        BY <1>1, <1>5, <3>2
      <4> QED BY <4>1
    <3> QED BY <3>1, <3>2
  <2> QED BY <2>1
<1>9. DOMAIN r = 1 .. Len(r)
  BY <1>4, LenProperties
<1> HIDE DEF at
<1>10. Range(r) = Range(s) \ {s[i]}
  <2>1. ASSUME NEW x \in Range(r) PROVE x \in Range(s) \ {s[i]}
    BY <1>1, <1>6, <1>9 DEF Range, Distinct
  <2>2. ASSUME NEW x \in Range(s) \ {s[i]} PROVE x \in Range(r)
    <3>1. PICK m \in 1 .. Len(s) : x = s[m]
      BY <1>1 DEF Range
    <3>2. PICK k \in 1 .. Len(r) : at(k) = m
      BY <1>8, <3>1
    <3> QED BY <1>6, <1>9, <3>1, <3>2 DEF Range
  <2> QED BY <2>1, <2>2
<1>11. RemoveAt(s, i) = r
  BY DEF RemoveAt, r, a, b
<1> QED BY <1>4, <1>7, <1>10, <1>11 DEF Distinct

\* A finite set of providers as an array, in any order.
LEMMA SetToSeqIs ==
    ASSUME NEW S, IsFiniteSet(S)
    PROVE  /\ SetToSeq(S) \in Seq(S) /\ Distinct(SetToSeq(S))
           /\ Range(SetToSeq(S)) = S
<1> DEFINE n == Cardinality(S)
           f == SetToSeq(S)
<1>1. n \in Nat /\ ExistsBijection(1 .. n, S)
  BY FS_CardinalityType
<1>2. PICK g : g \in Bijection(1 .. n, S)
  BY <1>1 DEF ExistsBijection
<1>3. g \in [1 .. n -> S] /\ IsInjective(g)
  BY <1>2 DEF Bijection, Injection, IsInjective
<1>4. f \in [1 .. n -> S] /\ IsInjective(f)
  BY <1>3 DEF SetToSeq
<1> HIDE DEF f
<1>5. f \in Seq(S) /\ Len(f) = n
  BY <1>1, <1>4, SeqDef, LenProperties
<1>6. Distinct(f)
  BY <1>4, <1>5 DEF Distinct, IsInjective
<1>7. f \in Injection(1 .. n, S)
  BY <1>4 DEF Injection, IsInjective
<1>8. Cardinality(1 .. n) = n
  BY <1>1, FS_Interval
<1>9. f \in Surjection(1 .. n, S)
  BY <1>7, <1>8, FS_Injection
<1>10. Range(f) = S
  BY <1>4, <1>9 DEF Surjection, Range
<1> QED BY <1>5, <1>6, <1>10 DEF f

\* The indexes of a provider in the array: none, or the only one.
LEMMA FoundIs ==
    ASSUME TypeOK, Distinct(arrOnlineProviders), NEW p
    PROVE  /\ p \notin Roster => FoundAt(p) = <<>>
           /\ \A i \in 1 .. Len(arrOnlineProviders) : arrOnlineProviders[i] = p =>
                 /\ DOMAIN FoundAt(p) = {1} /\ Len(FoundAt(p)) = 1
                 /\ FoundAt(p)[1] = i
<1> DEFINE found == {i \in 1 .. Len(arrOnlineProviders) : arrOnlineProviders[i] = p}
           ordered(s) == \A j, k \in DOMAIN s : j < k => s[j] < s[k]
           f == CHOOSE s \in [1 .. Cardinality(found) -> found] : ordered(s)
<1>1. FoundAt(p) = f
  BY DEF FoundAt
<1>2. DOMAIN arrOnlineProviders = 1 .. Len(arrOnlineProviders)
  BY LenProperties DEF TypeOK
<1>3. ASSUME p \notin Roster
      PROVE  FoundAt(p) = <<>>
  <2>1. found = {}
    BY <1>2, <1>3 DEF Roster, Range
  <2>2. 1 .. Cardinality(found) = {}
    BY <2>1, FS_EmptySet
  <2>3. <<>> \in [{} -> {}] /\ ordered(<<>>)
    OBVIOUS
  <2>4. f \in [{} -> {}]
    BY <2>1, <2>2, <2>3
  <2>5. f = <<>>
    BY <2>4
  <2> QED BY <1>1, <2>5
<1>4. ASSUME NEW i \in 1 .. Len(arrOnlineProviders), arrOnlineProviders[i] = p
      PROVE  /\ DOMAIN FoundAt(p) = {1} /\ Len(FoundAt(p)) = 1
             /\ FoundAt(p)[1] = i
  <2>1. found = {i}
    BY <1>4 DEF Distinct
  <2>2. Cardinality(found) = 1 /\ 1 .. 1 = {1}
    <3>1. Cardinality({i}) = 1
      BY FS_Singleton
    <3>2. 1 .. 1 = {1}
      OBVIOUS
    <3> HIDE DEF found
    <3> QED BY <2>1, <3>1, <3>2
  <2> DEFINE g == [k \in {1} |-> i]
  <2>3. g \in [{1} -> {i}] /\ ordered(g)
    OBVIOUS
  <2> HIDE DEF g
  <2>4. f \in [1 .. 1 -> {i}]
    <3>1. \E s \in [1 .. Cardinality(found) -> found] : ordered(s)
      BY <2>1, <2>2, <2>3
    <3> HIDE DEF found, ordered
    <3>2. f \in [1 .. Cardinality(found) -> found]
      BY <3>1
    <3> QED BY <2>1, <2>2, <3>2
  <2> HIDE DEF f
  <2>5. f \in Seq({i})
    BY <2>4, SeqDef
  <2>6. Len(f) = 1
    BY <2>4, <2>5, LenProperties
  <2> QED BY <1>1, <2>2, <2>4, <2>6
<1> QED BY <1>3, <1>4

\* A provider that leaves is taken out of both arrays, and no index is beyond
\* their end.
LEMMA RemoveIs ==
    ASSUME TypeOK, ArraysInv, NEW p, RemoveProvider(p)
    PROVE  /\ arrOnlineProviders' \in Seq(Providers)
           /\ ArraysInv' /\ Roster' = Roster \ {p}
<1>1. /\ arrMarkers = arrOnlineProviders /\ ~fault /\ Distinct(arrOnlineProviders)
      /\ arrOnlineProviders \in Seq(Providers)
      /\ DOMAIN arrOnlineProviders = 1 .. Len(arrOnlineProviders)
  BY LenProperties DEF ArraysInv, TypeOK
<1>2. /\ arrOnlineProviders' = RemoveAtIndexes(arrOnlineProviders, FoundAt(p))
      /\ arrMarkers' = arrOnlineProviders'
      /\ fault' <=> \E k \in 1 .. Len(FoundAt(p)) :
                        FoundAt(p)[k] > Len(arrMarkers) + 1 - k
  BY <1>1, Zenon DEF RemoveProvider
<1>3. CASE p \notin Roster
  <2>1. FoundAt(p) = <<>>
    BY <1>1, <1>3, FoundIs
  <2>2. arrOnlineProviders' = arrOnlineProviders
    BY <1>2, <2>1, RemoveNone
  <2>3. ~fault'
    BY <1>2, <2>1, EmptySeq
  <2> QED BY <1>1, <1>2, <1>3, <2>2, <2>3 DEF ArraysInv, Roster
<1>4. CASE p \in Roster
  <2>1. PICK i \in 1 .. Len(arrOnlineProviders) : arrOnlineProviders[i] = p
    BY <1>1, <1>4 DEF Roster, Range
  <2>2. DOMAIN FoundAt(p) = {1} /\ Len(FoundAt(p)) = 1 /\ FoundAt(p)[1] = i
    BY <1>1, <2>1, FoundIs
  <2>3. Len(arrOnlineProviders) \in Nat /\ i <= Len(arrOnlineProviders)
    BY <1>1, LenProperties
  <2>4. arrOnlineProviders' = RemoveAt(arrOnlineProviders, i)
    BY <1>2, <2>2, <2>3, RemoveOne
  <2>5. ~fault'
    <3>1. \A k \in 1 .. 1 : k = 1 /\ ~(i > Len(arrMarkers) + 1 - k)
      BY <1>1, <2>3
    <3> QED BY <1>2, <2>2, <3>1
  <2>6. /\ RemoveAt(arrOnlineProviders, i) \in Seq(Providers)
        /\ Distinct(RemoveAt(arrOnlineProviders, i))
        /\ Range(RemoveAt(arrOnlineProviders, i)) = Range(arrOnlineProviders) \ {p}
    BY <1>1, <2>1, RemoveAtIs
  <2> QED BY <1>2, <2>4, <2>5, <2>6 DEF ArraysInv, Roster
<1> QED BY <1>3, <1>4

\* A provider that comes is appended to both, when it is new and near.
LEMMA AddIs ==
    ASSUME TypeOK, ArraysInv, NEW p \in Providers, NEW place, AddProvider(p, place)
    PROVE  /\ arrOnlineProviders' \in Seq(Providers) /\ ArraysInv'
           /\ Roster' = IF isProviderInsideReachableArea(place)
                        THEN Roster \union {p} ELSE Roster
<1>1. /\ arrMarkers = arrOnlineProviders /\ ~fault /\ Distinct(arrOnlineProviders)
      /\ arrOnlineProviders \in Seq(Providers) /\ Len(arrOnlineProviders) \in Nat
      /\ DOMAIN arrOnlineProviders = 1 .. Len(arrOnlineProviders)
  BY LenProperties DEF ArraysInv, TypeOK
<1>2. CASE p \notin Roster /\ isProviderInsideReachableArea(place)
  <2>1. /\ arrOnlineProviders' = Append(arrOnlineProviders, p)
        /\ arrMarkers' = arrOnlineProviders' /\ ~fault'
    BY <1>1, <1>2 DEF AddProvider
  <2>2. /\ arrOnlineProviders' \in Seq(Providers)
        /\ Len(arrOnlineProviders') = Len(arrOnlineProviders) + 1
        /\ \A k \in 1 .. Len(arrOnlineProviders) :
              arrOnlineProviders'[k] = arrOnlineProviders[k]
        /\ arrOnlineProviders'[Len(arrOnlineProviders) + 1] = p
    BY <1>1, <2>1, AppendProperties
  <2>3. DOMAIN arrOnlineProviders' = 1 .. Len(arrOnlineProviders')
    BY <2>2, LenProperties
  <2>4. /\ \A k \in 1 .. Len(arrOnlineProviders') :
              k \in 1 .. Len(arrOnlineProviders) \/ k = Len(arrOnlineProviders) + 1
        /\ \A k \in 1 .. Len(arrOnlineProviders) : k \in 1 .. Len(arrOnlineProviders')
        /\ Len(arrOnlineProviders) + 1 \in 1 .. Len(arrOnlineProviders')
    BY <1>1, <2>2
  <2>5. \A k \in 1 .. Len(arrOnlineProviders) : arrOnlineProviders[k] # p
    BY <1>1, <1>2 DEF Roster, Range
  <2>6. Distinct(arrOnlineProviders')
    BY <1>1, <2>2, <2>4, <2>5 DEF Distinct
  <2>7. Roster' = Roster \union {p}
    BY <1>1, <2>2, <2>3, <2>4 DEF Roster, Range
  <2> QED BY <1>2, <2>1, <2>2, <2>6, <2>7 DEF ArraysInv
<1>3. CASE ~(p \notin Roster /\ isProviderInsideReachableArea(place))
  <2>1. UNCHANGED <<arrOnlineProviders, arrMarkers, fault>>
    BY <1>3 DEF AddProvider, arrays
  <2> QED BY <1>1, <1>3, <2>1 DEF ArraysInv, Roster
<1> QED BY <1>2, <1>3

\* The answer of the list fills empty arrays with who was online in the area.
LEMMA ListIs ==
    ASSUME TypeOK, ArraysInv, FetchInv, getOnlineProviderList
    PROVE  /\ arrOnlineProviders' \in Seq(Providers) /\ ArraysInv'
           /\ Roster = {}
           /\ Roster' = {p \in Providers : snapshot[p] = clientLocation}
<1> DEFINE near == {p \in Providers : isProviderInsideReachableArea(snapshot[p])}
<1>1. IsFiniteSet(near)
  BY RosterBounds, FS_Subset
<1>2. /\ SetToSeq(near) \in Seq(near) /\ Distinct(SetToSeq(near))
      /\ Range(SetToSeq(near)) = near
  BY <1>1, SetToSeqIs
<1>3. near \subseteq Providers
  OBVIOUS
<1>4. SetToSeq(near) \in Seq(Providers)
  <2>1. SetToSeq(near) \in [1 .. Len(SetToSeq(near)) -> near]
        /\ Len(SetToSeq(near)) \in Nat
    BY <1>2, LenProperties
  <2>2. SetToSeq(near) \in [1 .. Len(SetToSeq(near)) -> Providers]
    BY <1>3, <2>1
  <2> QED BY <2>1, <2>2, SeqDef
<1>5. /\ arrOnlineProviders = <<>> /\ arrMarkers = <<>> /\ ~fault
      /\ arrOnlineProviders' = arrOnlineProviders \o SetToSeq(near)
      /\ arrMarkers' = arrMarkers \o SetToSeq(near) /\ fault' = fault
  BY DEF getOnlineProviderList, ArraysInv, FetchInv
<1>6. near = {p \in Providers : snapshot[p] = clientLocation}
  BY DEF isProviderInsideReachableArea
<1> HIDE DEF near
<1>7. <<>> \o SetToSeq(near) = SetToSeq(near)
  BY <1>4, ConcatEmptySeq
<1>8. Roster = {}
  BY <1>5 DEF Roster, Range
<1> QED BY <1>2, <1>4, <1>5, <1>6, <1>7, <1>8 DEF ArraysInv, Roster

-----------------------------------------------------------------------------
(***************************************************************************)
(* What a step does                                                        *)
(***************************************************************************)

\* The arrays change with the list, with a ping and with a new dashboard.
LEMMA ArraySteps ==
    ASSUME Next
    PROVE  \/ getOnlineProviderList
           \/ pingReceived
           \/ signInAgain
           \/ UNCHANGED <<arrOnlineProviders, arrMarkers, fault>> /\ call' # "done"
           \/ UNCHANGED <<arrOnlineProviders, arrMarkers, fault>> /\ call' = call
BY DEF Next, tracingLocation, ServerAnswersList, getOnlineProviderListFails,
   lateListAnswers, ProviderChanges, websocketDidConnect,
   websocketDidDisconnect, dropPing, SheetTakesSlot, postRequest,
   cancelRequestThroughWS, arrays, phoneVars

\* A ping that is received.
LEMMA Received ==
    ASSUME TypeOK, ArraysInv, pingReceived
    PROVE  /\ Head(pings) \in Pings /\ pings # <<>>
           /\ arrOnlineProviders' \in Seq(Providers) /\ ArraysInv'
           /\ \/ /\ Head(pings).status = "offline"
                 /\ Roster' = Roster \ {Head(pings).id}
                 /\ left' = left \union {Head(pings).id}
                 /\ unheard' = unheard \ {Head(pings).id}
              \/ /\ Head(pings).status # "offline" /\ left' = left
                 /\ Roster' = IF Head(pings).status = clientLocation
                              THEN Roster \union {Head(pings).id} ELSE Roster
                 /\ unheard' = IF Head(pings).id \notin Roster
                               THEN unheard \ {Head(pings).id} ELSE unheard
<1>1. pings # <<>> /\ pings \in Seq(Pings)
  BY DEF pingReceived, TypeOK
<1>2. Head(pings) \in Pings
  BY <1>1, HeadTailProperties
<1>3. Head(pings).id \in Providers
  BY <1>2 DEF Pings
<1>4. CASE Head(pings).status = "offline"
  <2>1. /\ RemoveProvider(Head(pings).id) /\ left' = left \union {Head(pings).id}
        /\ unheard' = unheard \ {Head(pings).id}
    BY <1>4 DEF pingReceived
  <2> QED BY <1>1, <1>2, <1>4, <2>1, RemoveIs
<1>5. CASE Head(pings).status # "offline"
  <2>1. /\ AddProvider(Head(pings).id, Head(pings).status) /\ left' = left
        /\ unheard' = IF Head(pings).id \notin Roster
                      THEN unheard \ {Head(pings).id} ELSE unheard
    BY <1>5 DEF pingReceived
  <2>2. /\ arrOnlineProviders' \in Seq(Providers) /\ ArraysInv'
        /\ Roster' = IF isProviderInsideReachableArea(Head(pings).status)
                     THEN Roster \union {Head(pings).id} ELSE Roster
    BY <1>3, <2>1, AddIs
  <2> QED BY <1>1, <1>2, <1>5, <2>1, <2>2 DEF isProviderInsideReachableArea
<1> QED BY <1>4, <1>5

\* The arrays stay parallel and duplicate-free.
LEMMA ArraysSafe ==
    ASSUME TypeOK, ArraysInv, FetchInv, Next
    PROVE  arrOnlineProviders' \in Seq(Providers) /\ ArraysInv'
<1>1. CASE getOnlineProviderList
  BY <1>1, ListIs
<1>2. CASE pingReceived
  BY <1>2, Received
<1>3. CASE signInAgain
  <2>1. arrOnlineProviders' = <<>> /\ arrMarkers' = <<>> /\ fault' = fault
    BY <1>3 DEF signInAgain
  <2>2. Len(<<>>) = 0 /\ <<>> \in Seq(Providers)
    BY EmptySeq
  <2> QED BY <2>1, <2>2 DEF ArraysInv, Distinct
<1>4. CASE UNCHANGED <<arrOnlineProviders, arrMarkers, fault>>
  BY <1>4 DEF ArraysInv, TypeOK
<1> QED BY <1>1, <1>2, <1>3, <1>4, ArraySteps

\* The list, the slot and the socket.
LEMMA FetchSafe ==
    ASSUME TypeOK, FetchInv, Next
    PROVE  FetchInv'
<1>1. call' # "done" => arrOnlineProviders' = <<>> /\ slot' # "dashboard"
  BY DEF FetchInv, Next, tracingLocation, ServerAnswersList,
     getOnlineProviderList, getOnlineProviderListFails, signInAgain,
     lateListAnswers, ProviderChanges, websocketDidConnect,
     websocketDidDisconnect, pingReceived, dropPing, SheetTakesSlot,
     postRequest, cancelRequestThroughWS, arrays, phoneVars
<1>2. socket' # "open" => pings' = <<>>
  BY DEF FetchInv, Next, tracingLocation, ServerAnswersList,
     getOnlineProviderList, getOnlineProviderListFails, signInAgain,
     lateListAnswers, ProviderChanges, websocketDidConnect,
     websocketDidDisconnect, pingReceived, dropPing, SheetTakesSlot,
     postRequest, cancelRequestThroughWS, arrays, phoneVars
<1> QED BY <1>1, <1>2 DEF FetchInv

\* The pings on their way: one is sent, the first one arrives, or all are lost.
LEMMA PingSteps ==
    ASSUME Next
    PROVE  \/ pings' = pings /\ status' = status
           \/ pings' = <<>> /\ status' = status
           \/ pings # <<>> /\ pings' = Tail(pings) /\ status' = status
           \/ \E p \in Providers, new \in Statuses : ProviderChanges(p, new)
BY DEF Next, tracingLocation, ServerAnswersList, getOnlineProviderList,
   getOnlineProviderListFails, signInAgain, lateListAnswers,
   websocketDidConnect, websocketDidDisconnect, pingReceived, dropPing,
   SheetTakesSlot, postRequest, cancelRequestThroughWS

\* A change of a provider: its ping is the last one, or nobody listens.
LEMMA Changed ==
    ASSUME TypeOK, FetchInv, NEW p \in Providers, NEW new \in Statuses,
           ProviderChanges(p, new)
    PROVE  /\ status' \in [Providers -> Statuses] /\ status'[p] = new
           /\ \A q \in Providers \ {p} : status'[q] = status[q]
           /\ (status[p] = "offline") <=> (new # "offline")
           /\ \/ /\ pings = <<>> /\ pings' = <<>>
                 /\ unheard' = unheard \union {p}
              \/ /\ pings' \in Seq(Pings) /\ Len(pings') = Len(pings) + 1
                 /\ Len(pings') <= MaxPings
                 /\ \A k \in 1 .. Len(pings) : pings'[k] = pings[k]
                 /\ pings'[Len(pings) + 1].id = p
                 /\ pings'[Len(pings) + 1].status = new
                 /\ unheard' = unheard
<1>1. /\ status \in [Providers -> Statuses] /\ pings \in Seq(Pings)
      /\ Len(pings) \in Nat /\ MaxPings \in Nat
  BY LenProperties, RosterBounds DEF TypeOK
<1>2. /\ status' = [status EXCEPT ![p] = new]
      /\ (status[p] = "offline") # (new = "offline")
  BY DEF ProviderChanges
<1>3. (status[p] = "offline") <=> (new # "offline")
  BY <1>2, Zenon
<1>4. /\ status' \in [Providers -> Statuses] /\ status'[p] = new
      /\ \A q \in Providers \ {p} : status'[q] = status[q]
  BY <1>1, <1>2
<1>5. CASE socket = "open"
  <2> DEFINE n == [id |-> p, status |-> new]
  <2>1. /\ Len(pings) < MaxPings /\ pings' = Append(pings, n)
        /\ unheard' = unheard
    BY <1>5 DEF ProviderChanges
  <2>2. n \in Pings /\ n.id = p /\ n.status = new
    BY DEF Pings
  <2> HIDE DEF n
  <2>3. /\ pings' \in Seq(Pings) /\ Len(pings') = Len(pings) + 1
        /\ \A k \in 1 .. Len(pings) : pings'[k] = pings[k]
        /\ pings'[Len(pings) + 1] = n
    BY <1>1, <2>1, <2>2, AppendProperties
  <2> QED BY <1>1, <1>3, <1>4, <2>1, <2>2, <2>3
<1>6. CASE socket # "open"
  BY <1>3, <1>4, <1>6 DEF ProviderChanges, FetchInv
<1> QED BY <1>5, <1>6

-----------------------------------------------------------------------------
(***************************************************************************)
(* Pings                                                                   *)
(***************************************************************************)

\* The first ping and the others.
LEMMA TailIs ==
    ASSUME TypeOK, pings # <<>>
    PROVE  /\ Len(pings) \in Nat /\ 1 \in 1 .. Len(pings)
           /\ Head(pings) = pings[1] /\ pings[1] \in Pings
           /\ Tail(pings) \in Seq(Pings) /\ Len(Tail(pings)) = Len(pings) - 1
           /\ \A k \in 1 .. Len(pings) - 1 : Tail(pings)[k] = pings[k + 1]
<1>1. pings \in Seq(Pings) /\ Len(pings) \in Nat
  BY LenProperties DEF TypeOK
<1>2. Len(pings) # 0
  BY <1>1, EmptySeq
<1>3. /\ Tail(pings) \in Seq(Pings) /\ Len(Tail(pings)) = Len(pings) - 1
      /\ \A k \in 1 .. Len(Tail(pings)) : Tail(pings)[k] = pings[k + 1]
  BY <1>1, HeadTailProperties
<1>4. 1 \in 1 .. Len(pings)
  BY <1>1, <1>2
<1>5. Head(pings) = pings[1] /\ pings[1] \in Pings
  BY <1>1, <1>4, ElementOfSeq
<1> QED BY <1>1, <1>3, <1>4, <1>5

\* Who has a ping on its way.
LEMMA PingIdsIs ==
    ASSUME pings \in Seq(Pings)
    PROVE  PingIds = {pings[k].id : k \in 1 .. Len(pings)}
<1>1. DOMAIN pings = 1 .. Len(pings)
  BY LenProperties
<1> QED BY <1>1 DEF PingIds, Range

\* The pings on their way stay pings, and as many as allowed.
LEMMA PingsType ==
    ASSUME TypeOK, FetchInv, Next
    PROVE  /\ pings' \in Seq(Pings) /\ Len(pings') <= MaxPings
           /\ status' \in [Providers -> Statuses]
<1>1. /\ pings \in Seq(Pings) /\ Len(pings) \in Nat /\ Len(pings) <= MaxPings
      /\ MaxPings \in Nat /\ status \in [Providers -> Statuses]
  BY LenProperties, RosterBounds DEF TypeOK
<1>2. <<>> \in Seq(Pings) /\ Len(<<>>) = 0
  BY EmptySeq
<1>3. ASSUME NEW p \in Providers, NEW new \in Statuses, ProviderChanges(p, new)
      PROVE  /\ pings' \in Seq(Pings) /\ Len(pings') <= MaxPings
             /\ status' \in [Providers -> Statuses]
  BY <1>1, <1>2, <1>3, Changed
<1>4. CASE pings # <<>> /\ pings' = Tail(pings) /\ status' = status
  BY <1>1, <1>4, TailIs
<1>5. CASE pings' = <<>> /\ status' = status
  BY <1>1, <1>2, <1>5
<1>6. CASE pings' = pings /\ status' = status
  BY <1>1, <1>6
<1> QED BY <1>3, <1>4, <1>5, <1>6, PingSteps

\* The last ping of a provider tells where it is.
LEMMA LastSafe ==
    ASSUME TypeOK, FetchInv, LastPingTells, Next
    PROVE  LastPingTells'
<1>1. pings \in Seq(Pings) /\ Len(pings) \in Nat
  BY LenProperties DEF TypeOK
<1>2. CASE pings' = pings /\ status' = status
  BY <1>2 DEF LastPingTells, Same
<1>3. CASE pings' = <<>>
  <2>1. \A k \in 1 .. Len(pings') : FALSE
    BY <1>3, EmptySeq
  <2> QED BY <2>1 DEF LastPingTells
<1>4. CASE pings # <<>> /\ pings' = Tail(pings) /\ status' = status
  <2>1. /\ Len(pings') = Len(pings) - 1
        /\ \A k \in 1 .. Len(pings) - 1 : pings'[k] = pings[k + 1]
    BY <1>4, TailIs
  <2>2. ASSUME NEW k \in 1 .. Len(pings'), pings'[k].status # status'[pings'[k].id]
        PROVE  \E m \in k + 1 .. Len(pings') : pings'[k].id = pings'[m].id
    <3>1. k + 1 \in 1 .. Len(pings) /\ pings'[k] = pings[k + 1]
      BY <1>1, <2>1
    <3>2. PICK m \in k + 1 + 1 .. Len(pings) : pings[k + 1].id = pings[m].id
      BY <1>4, <2>2, <3>1 DEF LastPingTells, Same
    <3>3. m - 1 \in k + 1 .. Len(pings') /\ m - 1 \in 1 .. Len(pings) - 1
          /\ m - 1 + 1 = m
      BY <1>1, <2>1
    <3>4. pings'[m - 1] = pings[m]
      BY <2>1, <3>3
    <3> QED BY <3>1, <3>2, <3>3, <3>4
  <2> QED BY <2>2 DEF LastPingTells, Same
<1>5. ASSUME NEW p \in Providers, NEW new \in Statuses, ProviderChanges(p, new)
      PROVE  LastPingTells'
  <2>1. CASE /\ pings' \in Seq(Pings) /\ Len(pings') = Len(pings) + 1
             /\ \A k \in 1 .. Len(pings) : pings'[k] = pings[k]
             /\ pings'[Len(pings) + 1].id = p
             /\ pings'[Len(pings) + 1].status = new
    <3>1. ASSUME NEW k \in 1 .. Len(pings'),
                 pings'[k].status # status'[pings'[k].id]
          PROVE  \E m \in k + 1 .. Len(pings') : pings'[k].id = pings'[m].id
      <4>1. status'[p] = new /\ \A q \in Providers \ {p} : status'[q] = status[q]
        BY <1>5, Changed
      <4>2. k \in 1 .. Len(pings) /\ k # Len(pings) + 1
        <5>1. k # Len(pings) + 1
          BY <2>1, <3>1, <4>1
        <5> QED BY <1>1, <2>1, <5>1
      <4>3. pings'[k] = pings[k] /\ pings[k].id \in Providers
        <5>1. pings[k] \in Pings
          BY <1>1, <4>2, ElementOfSeq
        <5> QED BY <2>1, <4>2, <5>1 DEF Pings
      <4>4. CASE pings[k].id = p
        <5>1. Len(pings) + 1 \in k + 1 .. Len(pings')
          BY <1>1, <2>1, <4>2
        <5> QED BY <2>1, <4>3, <4>4, <5>1
      <4>5. CASE pings[k].id # p
        <5>1. PICK m \in k + 1 .. Len(pings) : pings[k].id = pings[m].id
          BY <3>1, <4>1, <4>2, <4>3, <4>5 DEF LastPingTells, Same
        <5>2. m \in k + 1 .. Len(pings') /\ m \in 1 .. Len(pings)
          BY <1>1, <2>1, <4>2
        <5> QED BY <2>1, <4>3, <5>1, <5>2
      <4> QED BY <4>4, <4>5
    <3> QED BY <3>1 DEF LastPingTells, Same
  <2> QED BY <1>3, <1>5, <2>1, Changed
<1> QED BY <1>2, <1>3, <1>4, <1>5, PingSteps

\* Coming and leaving alternate.
LEMMA AlternateSafe ==
    ASSUME TypeOK, FetchInv, LastPingTells, PingsAlternate, Next
    PROVE  PingsAlternate'
<1>1. pings \in Seq(Pings) /\ Len(pings) \in Nat
  BY LenProperties DEF TypeOK
<1>2. CASE pings' = pings
  BY <1>2 DEF PingsAlternate, Same, Off
<1>3. CASE pings' = <<>>
  <2>1. \A k \in 1 .. Len(pings') : FALSE
    BY <1>3, EmptySeq
  <2> QED BY <2>1 DEF PingsAlternate
<1>4. CASE pings # <<>> /\ pings' = Tail(pings)
  <2>1. /\ Len(pings') = Len(pings) - 1
        /\ \A k \in 1 .. Len(pings) - 1 : pings'[k] = pings[k + 1]
    BY <1>4, TailIs
  <2>2. ASSUME NEW j \in 1 .. Len(pings'), NEW k \in 1 .. Len(pings'), j < k,
               Same(j, k)', (Off(j) <=> Off(k))'
        PROVE  \E m \in j + 1 .. k - 1 : Same(j, m)'
    <3>1. /\ j + 1 \in 1 .. Len(pings) /\ pings'[j] = pings[j + 1]
          /\ k + 1 \in 1 .. Len(pings) /\ pings'[k] = pings[k + 1]
          /\ j + 1 < k + 1
      BY <1>1, <2>1, <2>2
    <3>2. Same(j + 1, k + 1) /\ (Off(j + 1) <=> Off(k + 1))
      BY <2>2, <3>1 DEF Same, Off
    <3>3. PICK m \in j + 1 + 1 .. k + 1 - 1 : Same(j + 1, m)
      BY <3>1, <3>2 DEF PingsAlternate
    <3>4. m - 1 \in j + 1 .. k - 1 /\ m - 1 \in 1 .. Len(pings) - 1
          /\ m - 1 + 1 = m
      BY <1>1, <2>1
    <3>5. pings'[m - 1] = pings[m]
      BY <2>1, <3>4
    <3>6. Same(j, m - 1)'
      BY <3>1, <3>3, <3>5 DEF Same
    <3> QED BY <3>4, <3>6
  <2> QED BY <2>2 DEF PingsAlternate
<1>5. ASSUME NEW p \in Providers, NEW new \in Statuses, ProviderChanges(p, new)
      PROVE  PingsAlternate'
  <2>1. CASE /\ pings' \in Seq(Pings) /\ Len(pings') = Len(pings) + 1
             /\ \A k \in 1 .. Len(pings) : pings'[k] = pings[k]
             /\ pings'[Len(pings) + 1].id = p
             /\ pings'[Len(pings) + 1].status = new
    <3>1. ASSUME NEW j \in 1 .. Len(pings'), NEW k \in 1 .. Len(pings'), j < k,
                 Same(j, k)', (Off(j) <=> Off(k))'
          PROVE  \E m \in j + 1 .. k - 1 : Same(j, m)'
      <4>1. j \in 1 .. Len(pings) /\ pings'[j] = pings[j]
        BY <1>1, <2>1, <3>1
      <4>2. CASE k \in 1 .. Len(pings)
        <5>1. Same(j, k) /\ (Off(j) <=> Off(k))
          BY <2>1, <3>1, <4>1, <4>2 DEF Same, Off
        <5>2. PICK m \in j + 1 .. k - 1 : Same(j, m)
          BY <3>1, <4>1, <4>2, <5>1 DEF PingsAlternate
        <5>3. m \in 1 .. Len(pings)
          BY <1>1, <4>1, <4>2
        <5> QED BY <2>1, <4>1, <5>2, <5>3 DEF Same
      <4>3. CASE k = Len(pings) + 1
        <5>1. pings[j].id = p /\ (pings[j].status = "offline" <=> new = "offline")
          BY <2>1, <3>1, <4>1, <4>3 DEF Same, Off
        <5>2. (status[p] = "offline") <=> (new # "offline")
          BY <1>5, Changed
        <5>3. PICK m \in j + 1 .. Len(pings) : Same(j, m)
          BY <4>1, <5>1, <5>2 DEF LastPingTells
        <5>4. m \in j + 1 .. k - 1 /\ m \in 1 .. Len(pings)
          BY <1>1, <4>1, <4>3
        <5> QED BY <2>1, <4>1, <5>3, <5>4 DEF Same
      <4> QED BY <1>1, <2>1, <4>2, <4>3
    <3> QED BY <3>1 DEF PingsAlternate
  <2> QED BY <1>3, <1>5, <2>1, Changed
<1> QED BY <1>2, <1>3, <1>4, <1>5, PingSteps

-----------------------------------------------------------------------------
(***************************************************************************)
(* The roster and the truth                                                *)
(***************************************************************************)

\* Providers about whom the dashboard has not heard everything, or not yet.
Known == unheard \union PingIds

\* What is missed stays missed, until the list or a ping of that provider.
LEMMA KnownSteps ==
    ASSUME TypeOK, Next
    PROVE  \/ status' = status /\ Known \subseteq Known'
           \/ \E p \in Providers, new \in Statuses : ProviderChanges(p, new)
           \/ pingReceived \/ signInAgain \/ ServerAnswersList
<1>1. pings \in Seq(Pings) /\ unheard \subseteq Providers
  BY DEF TypeOK
<1>2. PingIds \subseteq Providers
  <2>1. \A k \in 1 .. Len(pings) : pings[k] \in Pings
    BY <1>1, ElementOfSeq
  <2> QED BY <1>1, <2>1, PingIdsIs DEF Pings
<1>3. CASE dropPing
  <2>1. /\ pings # <<>> /\ pings' = Tail(pings) /\ status' = status
        /\ unheard' = unheard \union {Head(pings).id}
    BY <1>3 DEF dropPing
  <2>2. PingIds \subseteq PingIds' \union {Head(pings).id}
    <3>1. /\ Len(pings) \in Nat /\ pings' \in Seq(Pings)
          /\ Len(pings') = Len(pings) - 1 /\ Head(pings) = pings[1]
          /\ \A k \in 1 .. Len(pings) - 1 : pings'[k] = pings[k + 1]
      BY <2>1, TailIs
    <3>2. ASSUME NEW k \in 1 .. Len(pings), k # 1
          PROVE  pings[k].id \in PingIds'
      <4>1. k - 1 \in 1 .. Len(pings) - 1 /\ k - 1 + 1 = k
        BY <3>1, <3>2
      <4>2. pings'[k - 1] = pings[k] /\ k - 1 \in 1 .. Len(pings')
        BY <3>1, <4>1
      <4>3. PingIds' = {pings'[j].id : j \in 1 .. Len(pings')}
        <5>1. DOMAIN pings' = 1 .. Len(pings')
          BY <3>1, LenProperties
        <5> QED BY <5>1 DEF PingIds, Range
      <4> QED BY <4>2, <4>3
    <3> QED BY <1>1, <3>1, <3>2, PingIdsIs
  <2> QED BY <2>1, <2>2 DEF Known
<1>4. ASSUME NEW place \in Places, tracingLocation(place)
      PROVE  status' = status /\ Known \subseteq Known'
  <2>1. status' = status /\ pings' = pings /\ unheard' \in {Providers, unheard}
    BY <1>4 DEF tracingLocation
  <2> QED BY <1>1, <1>2, <2>1 DEF Known, PingIds
<1>5. CASE getOnlineProviderList \/ lateListAnswers \/ websocketDidDisconnect
  <2>1. /\ status' = status
        /\ \/ UNCHANGED <<pings, unheard>>
           \/ unheard' = unheard \union PingIds
    BY <1>5 DEF getOnlineProviderList, lateListAnswers, websocketDidDisconnect
  <2> QED BY <2>1 DEF Known, PingIds
<1>6. CASE \/ getOnlineProviderListFails \/ websocketDidConnect \/ SheetTakesSlot
           \/ postRequest \/ cancelRequestThroughWS
  <2>1. UNCHANGED <<status, pings, unheard>>
    BY <1>6 DEF getOnlineProviderListFails, websocketDidConnect, SheetTakesSlot,
       postRequest, cancelRequestThroughWS
  <2> QED BY <2>1 DEF Known, PingIds
<1> QED BY <1>3, <1>4, <1>5, <1>6 DEF Next

\* A provider that changes is missed, or its ping is on its way.
LEMMA ChangedKnown ==
    ASSUME TypeOK, FetchInv, NEW p \in Providers, NEW new \in Statuses,
           ProviderChanges(p, new)
    PROVE  Known \union {p} \subseteq Known'
<1>1. pings \in Seq(Pings) /\ Len(pings) \in Nat
  BY LenProperties DEF TypeOK
<1>2. CASE /\ pings = <<>> /\ pings' = <<>> /\ unheard' = unheard \union {p}
  BY <1>2 DEF Known, PingIds
<1>3. CASE /\ pings' \in Seq(Pings) /\ Len(pings') = Len(pings) + 1
           /\ \A k \in 1 .. Len(pings) : pings'[k] = pings[k]
           /\ pings'[Len(pings) + 1].id = p /\ unheard' = unheard
  <2>1. DOMAIN pings' = 1 .. Len(pings')
    BY <1>3, LenProperties
  <2>2. PingIds' = {pings'[j].id : j \in 1 .. Len(pings')}
    BY <2>1 DEF PingIds, Range
  <2>3. /\ Len(pings) + 1 \in 1 .. Len(pings')
        /\ \A k \in 1 .. Len(pings) : k \in 1 .. Len(pings')
    BY <1>1, <1>3
  <2>4. PingIds \union {p} \subseteq PingIds'
    BY <1>1, <1>3, <2>2, <2>3, PingIdsIs
  <2> QED BY <1>3, <2>4 DEF Known
<1> QED BY <1>2, <1>3, Changed

\* The first ping, when it is received: who else is still heard of.
LEMMA ReceivedKnown ==
    ASSUME TypeOK, ArraysInv, pingReceived
    PROVE  /\ pings' = Tail(pings) /\ status' = status /\ call' = call
           /\ clientLocation' = clientLocation /\ slot = "dashboard"
           /\ Known \ {pings[1].id} \subseteq Known'
           /\ \A k \in 2 .. Len(pings) : pings[k].id \in PingIds'
<1>1. /\ pings' = Tail(pings) /\ status' = status /\ call' = call
      /\ clientLocation' = clientLocation /\ slot = "dashboard" /\ pings # <<>>
  BY DEF pingReceived, phoneVars
<1>2. /\ Len(pings) \in Nat /\ pings' \in Seq(Pings) /\ pings \in Seq(Pings)
      /\ Len(pings') = Len(pings) - 1 /\ Head(pings) = pings[1]
      /\ \A k \in 1 .. Len(pings) - 1 : pings'[k] = pings[k + 1]
  BY <1>1, TailIs DEF TypeOK
<1>3. unheard \ {pings[1].id} \subseteq unheard'
  BY <1>2, Received
<1>4. ASSUME NEW k \in 2 .. Len(pings) PROVE pings[k].id \in PingIds'
  <2>1. k - 1 \in 1 .. Len(pings) - 1 /\ k - 1 + 1 = k
    BY <1>2
  <2>2. pings'[k - 1] = pings[k] /\ k - 1 \in 1 .. Len(pings')
    BY <1>2, <2>1
  <2>3. DOMAIN pings' = 1 .. Len(pings')
    BY <1>2, LenProperties
  <2> QED BY <2>2, <2>3 DEF PingIds, Range
<1>5. PingIds \ {pings[1].id} \subseteq PingIds'
  <2>1. \A k \in 1 .. Len(pings) : k = 1 \/ k \in 2 .. Len(pings)
    BY <1>2
  <2> QED BY <1>2, <1>4, <2>1, PingIdsIs
<1> QED BY <1>1, <1>3, <1>4, <1>5 DEF Known

\* What a step does to the list call.
LEMMA CallSteps ==
    ASSUME Next
    PROVE  /\ call' = "answering" =>
                 \/ ServerAnswersList
                 \/ call = "answering" /\ snapshot' = snapshot /\ ~signInAgain
           /\ call' = "done" => getOnlineProviderList \/ call = "done"
           /\ ServerAnswersList => call' = "answering"
           /\ signInAgain => call' = "none"
<1>1. \/ call' = call /\ snapshot' = snapshot
      \/ ServerAnswersList \/ getOnlineProviderList
      \/ call' \in {"asked", "failed", "none"}
  BY DEF Next, tracingLocation, getOnlineProviderListFails, signInAgain,
     lateListAnswers, ProviderChanges, websocketDidConnect,
     websocketDidDisconnect, pingReceived, dropPing, SheetTakesSlot,
     postRequest, cancelRequestThroughWS, phoneVars
<1>2. /\ ServerAnswersList => call' = "answering"
      /\ signInAgain => call' = "none"
  BY DEF ServerAnswersList, signInAgain
<1>3. getOnlineProviderList => call' = "done"
  BY DEF getOnlineProviderList
<1> QED BY <1>1, <1>2, <1>3

\* The list on its way is wrong only about who was missed.
LEMMA AnswerSafe ==
    ASSUME TypeOK, ArraysInv, FetchInv, AnswerInv, Next
    PROVE  AnswerInv'
<1> SUFFICES ASSUME call' = "answering", NEW q \in Providers, q \notin Known'
             PROVE  snapshot'[q] = status'[q]
  BY DEF AnswerInv, Known
<1>1. CASE ServerAnswersList
  BY <1>1 DEF ServerAnswersList
<1>2. CASE ~ServerAnswersList
  <2>1. call = "answering" /\ snapshot' = snapshot /\ ~signInAgain
    BY <1>2, CallSteps
  <2>2. ~pingReceived
    BY <2>1 DEF FetchInv, pingReceived
  <2>3. CASE status' = status /\ Known \subseteq Known'
    BY <2>1, <2>3 DEF AnswerInv, Known
  <2>4. ASSUME NEW p \in Providers, NEW new \in Statuses, ProviderChanges(p, new)
        PROVE  snapshot'[q] = status'[q]
    <3>1. q # p /\ q \notin Known
      BY <2>4, ChangedKnown
    <3>2. status'[q] = status[q]
      BY <2>4, <3>1, Changed
    <3> QED BY <2>1, <3>1, <3>2 DEF AnswerInv, Known
  <2> QED BY <1>2, <2>1, <2>2, <2>3, <2>4, KnownSteps
<1> QED BY <1>1, <1>2

\* With the list there, the roster changes only with a ping.
LEMMA RosterSteps ==
    ASSUME Next, call' = "done", ~getOnlineProviderList, ~pingReceived
    PROVE  /\ Roster' = Roster /\ call = "done"
           /\ clientLocation' = clientLocation \/ unheard' = Providers
<1>1. call = "done" /\ ~signInAgain
  BY CallSteps
<1>2. UNCHANGED arrOnlineProviders
  BY <1>1, ArraySteps
<1>3. clientLocation' = clientLocation \/ unheard' = Providers
  BY <1>1 DEF Next, tracingLocation, ServerAnswersList,
     getOnlineProviderListFails, lateListAnswers, ProviderChanges,
     websocketDidConnect, websocketDidDisconnect, dropPing, SheetTakesSlot,
     postRequest, cancelRequestThroughWS, phoneVars
<1> QED BY <1>1, <1>2, <1>3 DEF Roster

\* A wrong entry has a cause.
LEMMA ErrorSafe ==
    ASSUME TypeOK, ArraysInv, FetchInv, LastPingTells, AnswerInv, FirstPingNews,
           RosterErrorHasCause, Next
    PROVE  RosterErrorHasCause'
<1> SUFFICES ASSUME call' = "done", NEW q \in Providers, q \notin Known'
             PROVE  q \in Roster' <=> status'[q] = clientLocation'
  BY DEF RosterErrorHasCause, Known, isProviderInsideReachableArea
<1>1. call = "done" /\ q \notin Known => (q \in Roster <=> status[q] = clientLocation)
  BY DEF RosterErrorHasCause, Known, isProviderInsideReachableArea
<1>2. q \notin unheard' /\ q \notin PingIds'
  BY DEF Known
<1>3. CASE getOnlineProviderList
  <2>1. /\ call = "answering" /\ status' = status
        /\ clientLocation' = clientLocation /\ unheard' = unheard \union PingIds
    BY <1>3 DEF getOnlineProviderList
  <2>2. snapshot[q] = status[q]
    BY <1>2, <2>1 DEF AnswerInv
  <2>3. Roster' = {p \in Providers : snapshot[p] = clientLocation}
    BY <1>3, ListIs
  <2> QED BY <2>1, <2>2, <2>3
<1>4. CASE pingReceived
  <2> DEFINE h == pings[1].id
  <2>1. /\ status' = status /\ clientLocation' = clientLocation /\ call = "done"
        /\ Known \ {h} \subseteq Known'
        /\ \A k \in 2 .. Len(pings) : pings[k].id \in PingIds'
    BY <1>4, ReceivedKnown
  <2>2. /\ Len(pings) \in Nat /\ 1 \in 1 .. Len(pings) /\ Head(pings) = pings[1]
        /\ pings[1] \in Pings
    BY <1>4, TailIs DEF pingReceived
  <2>3. \/ /\ pings[1].status = "offline" /\ Roster' = Roster \ {h}
           /\ unheard' = unheard \ {h}
        \/ /\ pings[1].status # "offline"
           /\ Roster' = IF pings[1].status = clientLocation
                        THEN Roster \union {h} ELSE Roster
           /\ unheard' = IF h \notin Roster THEN unheard \ {h} ELSE unheard
    BY <1>4, <2>2, Received
  <2>4. CASE q # h
    BY <1>1, <2>1, <2>3, <2>4
  <2>5. CASE q = h
    <3>1. pings[1].status = status[h]
      <4>1. \A m \in 1 + 1 .. Len(pings) : ~Same(1, m)
        BY <1>2, <2>1, <2>2, <2>5 DEF Same
      <4> QED BY <2>2, <4>1 DEF LastPingTells
    <3>2. CASE pings[1].status = "offline"
      <4>1. clientLocation # "offline"
        BY DEF TypeOK, Places
      <4> QED BY <2>1, <2>3, <2>5, <3>1, <3>2, <4>1
    <3>3. CASE pings[1].status # "offline"
      <4>1. CASE h \notin Roster
        BY <2>1, <2>3, <2>5, <3>1, <3>3, <4>1
      <4>2. CASE h \in Roster
        <5>1. h \notin unheard
          BY <1>2, <2>3, <2>5, <3>3, <4>2
        <5>2. \A m \in 1 .. 1 - 1 : FALSE
          OBVIOUS
        <5> QED BY <2>1, <2>2, <3>3, <4>2, <5>1, <5>2 DEF FirstPingNews, Off
      <4> QED BY <4>1, <4>2
    <3> QED BY <3>2, <3>3
  <2> QED BY <2>4, <2>5
<1>5. CASE ~getOnlineProviderList /\ ~pingReceived
  <2>1. /\ Roster' = Roster /\ call = "done" /\ clientLocation' = clientLocation
    BY <1>2, <1>5, RosterSteps
  <2>2. CASE status' = status /\ Known \subseteq Known'
    BY <1>1, <2>1, <2>2
  <2>3. ASSUME NEW p \in Providers, NEW new \in Statuses, ProviderChanges(p, new)
        PROVE  q \in Roster' <=> status'[q] = clientLocation'
    <3>1. q # p /\ q \notin Known
      BY <2>3, ChangedKnown
    <3>2. status'[q] = status[q]
      BY <2>3, <3>1, Changed
    <3> QED BY <1>1, <2>1, <3>1, <3>2
  <2> QED BY <1>5, <2>2, <2>3, KnownSteps, CallSteps
<1> QED BY <1>3, <1>4, <1>5

\* What a step does to the pings and to who is missed, with the list there.
LEMMA MissedSteps ==
    ASSUME Next, call' = "done"
    PROVE  \/ pings' = pings /\ unheard \subseteq unheard'
           \/ pings' = pings /\ unheard' = Providers
           \/ pings' = <<>>
           \/ /\ pings # <<>> /\ pings' = Tail(pings)
              /\ unheard' = unheard \union {Head(pings).id}
           \/ pingReceived
           \/ \E p \in Providers, new \in Statuses : ProviderChanges(p, new)
<1>1. ~signInAgain /\ ~ServerAnswersList
  BY CallSteps
<1> QED
  BY <1>1 DEF Next, tracingLocation, getOnlineProviderList,
     getOnlineProviderListFails, lateListAnswers, websocketDidConnect,
     websocketDidDisconnect, dropPing, SheetTakesSlot, postRequest,
     cancelRequestThroughWS

\* The first ping of a provider that comes is news.
LEMMA FirstSafe ==
    ASSUME TypeOK, ArraysInv, FetchInv, PingsAlternate, FirstPingNews,
           RosterErrorHasCause, Next
    PROVE  FirstPingNews'
<1> SUFFICES ASSUME call' = "done", NEW k \in 1 .. Len(pings'), ~Off(k)',
                    pings'[k].id \notin unheard', pings'[k].id \in Roster'
             PROVE  \E m \in 1 .. k - 1 : Same(m, k)'
  BY DEF FirstPingNews
<1>1. pings \in Seq(Pings) /\ Len(pings) \in Nat /\ unheard \subseteq Providers
  BY LenProperties DEF TypeOK
<1>2. pings' # <<>> /\ ~getOnlineProviderList
  <2>1. Len(<<>>) = 0
    BY EmptySeq
  <2> QED BY <2>1 DEF getOnlineProviderList
<1>3. CASE pingReceived
  <2> DEFINE h == pings[1].id
  <2>1. /\ call = "done" /\ pings' = Tail(pings) /\ pings # <<>>
    BY <1>3, ReceivedKnown DEF pingReceived
  <2>2. /\ 1 \in 1 .. Len(pings) /\ Head(pings) = pings[1]
        /\ Len(pings') = Len(pings) - 1
        /\ \A j \in 1 .. Len(pings) - 1 : pings'[j] = pings[j + 1]
    BY <2>1, TailIs
  <2>3. /\ k + 1 \in 1 .. Len(pings) /\ pings'[k] = pings[k + 1] /\ 1 < k + 1
        /\ k + 1 - 1 = k
    BY <1>1, <2>2
  <2>4. ~Off(k + 1)
    BY <2>3 DEF Off
  <2>5. ASSUME NEW m \in 2 .. k, Same(m, k + 1)
        PROVE  \E j \in 1 .. k - 1 : Same(j, k)'
    <3>1. m - 1 \in 1 .. k - 1 /\ m - 1 \in 1 .. Len(pings) - 1 /\ m - 1 + 1 = m
      BY <1>1, <2>2, <2>3
    <3>2. pings'[m - 1] = pings[m]
      BY <2>2, <3>1
    <3>3. Same(m - 1, k)'
      BY <2>3, <2>5, <3>2 DEF Same
    <3> QED BY <3>1, <3>3
  <2>6. \/ /\ pings[1].status = "offline" /\ Roster' = Roster \ {h}
           /\ unheard' = unheard \ {h}
        \/ /\ pings[1].status # "offline"
           /\ Roster' = IF pings[1].status = clientLocation
                        THEN Roster \union {h} ELSE Roster
           /\ unheard' = IF h \notin Roster THEN unheard \ {h} ELSE unheard
    BY <1>3, <2>2, Received
  <2>7. CASE pings[k + 1].id # h
    <3>1. pings[k + 1].id \in Roster /\ pings[k + 1].id \notin unheard
      BY <2>3, <2>6, <2>7
    <3>2. PICK m \in 1 .. k + 1 - 1 : Same(m, k + 1)
      BY <2>1, <2>3, <2>4, <3>1 DEF FirstPingNews
    <3>3. m # 1
      BY <2>7, <3>2 DEF Same
    <3>4. m \in 2 .. k
      BY <2>3, <3>3
    <3> QED BY <2>5, <3>2, <3>4
  <2>8. CASE pings[k + 1].id = h
    <3>1. pings[1].status # "offline"
      BY <2>3, <2>6, <2>8
    <3>2. ~Off(1) /\ Same(1, k + 1)
      BY <2>8, <3>1 DEF Off, Same
    <3>3. PICK m \in 1 + 1 .. k + 1 - 1 : Same(1, m)
      BY <2>2, <2>3, <2>4, <3>2 DEF PingsAlternate
    <3>4. Same(m, k + 1) /\ m \in 2 .. k
      BY <2>3, <3>2, <3>3 DEF Same
    <3> QED BY <2>5, <3>4
  <2> QED BY <2>7, <2>8
<1>4. CASE ~pingReceived
  <2>1. Roster' = Roster /\ call = "done"
    BY <1>2, <1>4, RosterSteps
  <2>2. CASE pings' = pings /\ unheard \subseteq unheard'
    <3>1. k \in 1 .. Len(pings) /\ ~Off(k) /\ pings[k].id \notin unheard
          /\ pings[k].id \in Roster
      BY <2>1, <2>2 DEF Off
    <3>2. \E m \in 1 .. k - 1 : Same(m, k)
      BY <2>1, <3>1 DEF FirstPingNews
    <3> QED BY <2>2, <3>2 DEF Same
  <2>3. CASE pings' = pings /\ unheard' = Providers
    <3>1. pings[k] \in Pings
      BY <1>1, <2>3, ElementOfSeq
    <3> QED BY <2>3, <3>1 DEF Pings
  <2>4. CASE /\ pings # <<>> /\ pings' = Tail(pings)
             /\ unheard' = unheard \union {Head(pings).id}
    <3>1. /\ 1 \in 1 .. Len(pings) /\ Head(pings) = pings[1]
          /\ Len(pings') = Len(pings) - 1
          /\ \A j \in 1 .. Len(pings) - 1 : pings'[j] = pings[j + 1]
      BY <2>4, TailIs
    <3>2. /\ k + 1 \in 1 .. Len(pings) /\ pings'[k] = pings[k + 1]
          /\ k + 1 - 1 = k
      BY <1>1, <3>1
    <3>3. /\ ~Off(k + 1) /\ pings[k + 1].id \notin unheard
          /\ pings[k + 1].id \in Roster /\ pings[k + 1].id # pings[1].id
      BY <2>1, <2>4, <3>1, <3>2 DEF Off
    <3>4. PICK m \in 1 .. k + 1 - 1 : Same(m, k + 1)
      BY <2>1, <3>2, <3>3 DEF FirstPingNews
    <3>5. m # 1
      BY <3>3, <3>4 DEF Same
    <3>6. /\ m - 1 \in 1 .. k - 1 /\ m - 1 \in 1 .. Len(pings) - 1
          /\ m - 1 + 1 = m
      BY <1>1, <3>2, <3>5
    <3>7. pings'[m - 1] = pings[m]
      BY <3>1, <3>6
    <3>8. Same(m - 1, k)'
      BY <3>2, <3>4, <3>7 DEF Same
    <3> QED BY <3>6, <3>8
  <2>5. ASSUME NEW p \in Providers, NEW new \in Statuses, ProviderChanges(p, new)
        PROVE  \E m \in 1 .. k - 1 : Same(m, k)'
    <3>1. /\ Len(pings') = Len(pings) + 1
          /\ \A j \in 1 .. Len(pings) : pings'[j] = pings[j]
          /\ pings'[Len(pings) + 1].id = p
          /\ pings'[Len(pings) + 1].status = new
          /\ unheard' = unheard
      BY <1>2, <2>5, Changed
    <3>2. CASE k \in 1 .. Len(pings)
      <4>1. /\ ~Off(k) /\ pings[k].id \notin unheard /\ pings[k].id \in Roster
            /\ pings'[k] = pings[k]
        BY <2>1, <3>1, <3>2 DEF Off
      <4>2. PICK m \in 1 .. k - 1 : Same(m, k)
        BY <2>1, <3>2, <4>1 DEF FirstPingNews
      <4>3. m \in 1 .. Len(pings)
        BY <1>1, <3>2
      <4> QED BY <3>1, <4>1, <4>2, <4>3 DEF Same
    <3>3. CASE k = Len(pings) + 1
      <4>1. /\ new # "offline" /\ p \notin unheard /\ p \in Roster
        BY <2>1, <3>1, <3>3 DEF Off
      <4>2. status[p] = "offline"
        BY <2>5, <4>1, Changed
      <4>3. clientLocation # "offline"
        BY DEF TypeOK, Places
      <4>4. p \in PingIds
        BY <2>1, <4>1, <4>2, <4>3
        DEF RosterErrorHasCause, isProviderInsideReachableArea
      <4>5. PICK m \in 1 .. Len(pings) : pings[m].id = p
        BY <1>1, <4>4, PingIdsIs
      <4>6. m \in 1 .. k - 1
        BY <1>1, <3>3
      <4> QED BY <3>1, <3>3, <4>5, <4>6 DEF Same
    <3> QED BY <1>1, <3>1, <3>2, <3>3
  <2> QED BY <1>2, <1>4, <2>2, <2>3, <2>4, <2>5, MissedSteps
<1> QED BY <1>3, <1>4

\* Whoever is asked is in the roster until it is heard to leave.
LEMMA CancelSafe ==
    ASSUME TypeOK, ArraysInv, FetchInv, CancelReachesAsked, Next
    PROVE  CancelReachesAsked'
<1>1. CASE getOnlineProviderList
  <2>1. UNCHANGED <<asked, left>> /\ Roster = {}
    BY <1>1, ListIs DEF getOnlineProviderList, request
  <2> QED BY <2>1 DEF CancelReachesAsked
<1>2. CASE pingReceived
  <2>1. asked' = asked
    BY <1>2 DEF pingReceived
  <2> QED BY <1>2, <2>1, Received DEF CancelReachesAsked
<1>3. CASE signInAgain
  BY <1>3 DEF signInAgain, CancelReachesAsked
<1>4. CASE ~(getOnlineProviderList \/ pingReceived \/ signInAgain)
  <2>1. Roster' = Roster
    BY <1>4, ArraySteps DEF Roster
  <2>2. UNCHANGED <<asked, left>> \/ asked' = {} \/ asked' = Roster
    BY <1>4 DEF Next, tracingLocation, ServerAnswersList,
       getOnlineProviderListFails, lateListAnswers, ProviderChanges,
       websocketDidConnect, websocketDidDisconnect, dropPing, SheetTakesSlot,
       postRequest, cancelRequestThroughWS, request
  <2> QED BY <2>1, <2>2 DEF CancelReachesAsked
<1> QED BY <1>1, <1>2, <1>3, <1>4

-----------------------------------------------------------------------------
(***************************************************************************)
(* Types                                                                   *)
(***************************************************************************)

\* Whose id may stand in a ping or in the roster.
LEMMA Ids ==
    ASSUME TypeOK
    PROVE  /\ PingIds \subseteq Providers /\ Roster \subseteq Providers
           /\ pings # <<>> => Head(pings).id \in Providers
<1>1. pings \in Seq(Pings) /\ arrOnlineProviders \in Seq(Providers)
  BY DEF TypeOK
<1>2. /\ \A k \in 1 .. Len(pings) : pings[k] \in Pings
      /\ \A k \in 1 .. Len(arrOnlineProviders) : arrOnlineProviders[k] \in Providers
      /\ DOMAIN arrOnlineProviders = 1 .. Len(arrOnlineProviders)
  BY <1>1, ElementOfSeq, LenProperties
<1>3. PingIds \subseteq Providers
  BY <1>1, <1>2, PingIdsIs DEF Pings
<1>4. pings # <<>> => Head(pings) \in Pings
  BY <1>1, HeadTailProperties
<1> QED BY <1>2, <1>3, <1>4 DEF Roster, Range, Pings

\* The dashboard's own state.
LEMMA PhoneType ==
    ASSUME TypeOK, Next
    PROVE  /\ snapshot' \in [Providers -> Statuses]
           /\ clientLocation' \in Places \union {"none"}
           /\ call' \in {"none", "asked", "answering", "done", "failed"}
           /\ lateCall' \in BOOLEAN
           /\ socket' \in {"none", "connecting", "open", "closed"}
           /\ slot' \in {"none", "dashboard", "other"}
<1> USE DEF Next, tracingLocation, ServerAnswersList, getOnlineProviderList,
       getOnlineProviderListFails, signInAgain, lateListAnswers,
       ProviderChanges, websocketDidConnect, websocketDidDisconnect,
       pingReceived, dropPing, SheetTakesSlot, postRequest,
       cancelRequestThroughWS, phoneVars
<1>1. snapshot' \in [Providers -> Statuses]
  BY DEF TypeOK
<1>2. clientLocation' \in Places \union {"none"}
  BY DEF TypeOK
<1>3. call' \in {"none", "asked", "answering", "done", "failed"}
  BY DEF TypeOK
<1>4. lateCall' \in BOOLEAN
  BY Zenon DEF TypeOK
<1>5. socket' \in {"none", "connecting", "open", "closed"}
  BY DEF TypeOK
<1>6. slot' \in {"none", "dashboard", "other"}
  BY DEF TypeOK
<1> QED BY <1>1, <1>2, <1>3, <1>4, <1>5, <1>6

\* The sets of providers, and the number of dashboards.
LEMMA SetsType ==
    ASSUME TypeOK, Next
    PROVE  /\ asked' \subseteq Providers /\ left' \subseteq Providers
           /\ unheard' \subseteq Providers /\ screens' \in 0 .. MaxScreens
<1>1. /\ asked \subseteq Providers /\ left \subseteq Providers
      /\ unheard \subseteq Providers /\ screens \in 0 .. MaxScreens
      /\ MaxScreens \in Nat
  BY RosterBounds DEF TypeOK
<1>2. CASE pingReceived
  <2>1. /\ UNCHANGED <<asked, screens>> /\ pings # <<>>
        /\ left' \in {left, left \union {Head(pings).id}}
        /\ unheard' \subseteq unheard
    BY <1>2 DEF pingReceived
  <2> QED BY <1>1, <2>1, Ids
<1>3. CASE signInAgain
  <2>1. /\ asked' = {} /\ left' = {} /\ unheard' = {}
        /\ screens < MaxScreens /\ screens' = screens + 1
    BY <1>3 DEF signInAgain
  <2> QED BY <1>1, <2>1
<1>4. CASE dropPing
  <2>1. /\ UNCHANGED <<asked, left, screens>> /\ pings # <<>>
        /\ unheard' = unheard \union {Head(pings).id}
    BY <1>4 DEF dropPing, request
  <2> QED BY <1>1, <2>1, Ids
<1>5. CASE \/ SheetTakesSlot \/ postRequest \/ cancelRequestThroughWS
  <2>1. /\ UNCHANGED <<unheard, screens>> /\ left' = {} /\ asked' \in {{}, Roster}
    BY <1>5 DEF SheetTakesSlot, postRequest, cancelRequestThroughWS
  <2> QED BY <1>1, <2>1, Ids
<1>6. CASE ~ \/ pingReceived \/ signInAgain \/ dropPing \/ SheetTakesSlot
             \/ postRequest \/ cancelRequestThroughWS
  <2>1. /\ UNCHANGED <<asked, left, screens>>
        /\ \/ unheard' \in {unheard, Providers, {}, unheard \union PingIds}
           \/ \E p \in Providers : unheard' = unheard \union {p}
    BY <1>6 DEF Next, tracingLocation, ServerAnswersList, getOnlineProviderList,
       getOnlineProviderListFails, lateListAnswers, ProviderChanges,
       websocketDidConnect, websocketDidDisconnect, request
  <2> QED BY <1>1, <2>1, Ids
<1> QED BY <1>2, <1>3, <1>4, <1>5, <1>6

\* Every step keeps the types.
LEMMA TypeSafe ==
    ASSUME TypeOK, ArraysInv, FetchInv, Next
    PROVE  TypeOK'
<1>1. /\ arrOnlineProviders' \in Seq(Providers)
      /\ arrMarkers' \in Seq(Providers)
  BY ArraysSafe DEF ArraysInv
<1>2. fault' \in BOOLEAN
  BY Zenon DEF TypeOK, Next, tracingLocation, ServerAnswersList,
     getOnlineProviderList, getOnlineProviderListFails, signInAgain,
     lateListAnswers, ProviderChanges, websocketDidConnect,
     websocketDidDisconnect, pingReceived, RemoveProvider, AddProvider,
     dropPing, SheetTakesSlot, postRequest, cancelRequestThroughWS
<1> QED BY <1>1, <1>2, PingsType, PhoneType, SetsType DEF TypeOK

-----------------------------------------------------------------------------
(***************************************************************************)
(* The invariant                                                           *)
(***************************************************************************)

\* The invariant holds at the start.
LEMMA InvInit == Init => Inv
<1> SUFFICES ASSUME Init PROVE Inv
  OBVIOUS
<1>1. /\ arrOnlineProviders = <<>> /\ arrMarkers = <<>> /\ ~fault /\ pings = <<>>
      /\ call = "none" /\ slot = "none" /\ asked = {}
  BY DEF Init
<1>2. <<>> \in Seq(Providers) /\ <<>> \in Seq(Pings) /\ Len(<<>>) = 0
  BY EmptySeq
<1>3. \A k \in 1 .. Len(<<>>) : FALSE
  BY <1>2
<1>4. TypeOK
  <2>1. lateCall \in BOOLEAN /\ fault \in BOOLEAN
    BY DEF Init
  <2>2. /\ status \in [Providers -> Statuses] /\ snapshot \in [Providers -> Statuses]
        /\ clientLocation = "none" /\ socket = "none" /\ left = {} /\ unheard = {}
        /\ screens = 0
    BY DEF Init
  <2>3. 0 \in 0 .. MaxScreens /\ 0 <= MaxPings
    BY RosterBounds
  <2> QED BY <1>1, <1>2, <2>1, <2>2, <2>3 DEF TypeOK
<1>5. ArraysInv /\ FetchInv
  BY <1>1, <1>3 DEF ArraysInv, Distinct, FetchInv
<1>6. LastPingTells /\ PingsAlternate
  BY <1>1, <1>3 DEF LastPingTells, PingsAlternate
<1>7. AnswerInv /\ FirstPingNews /\ RosterErrorHasCause /\ CancelReachesAsked
  BY <1>1 DEF AnswerInv, FirstPingNews, RosterErrorHasCause, CancelReachesAsked
<1> QED BY <1>4, <1>5, <1>6, <1>7 DEF Inv

\* Every step keeps it.
LEMMA InvNext == Inv /\ [Next]_vars => Inv'
<1> SUFFICES ASSUME Inv, [Next]_vars PROVE Inv'
  OBVIOUS
<1>1. CASE Next
  <2>1. TypeOK' /\ ArraysInv' /\ FetchInv'
    BY <1>1, TypeSafe, ArraysSafe, FetchSafe DEF Inv
  <2>2. LastPingTells' /\ PingsAlternate'
    BY <1>1, LastSafe, AlternateSafe DEF Inv
  <2>3. AnswerInv' /\ FirstPingNews'
    BY <1>1, AnswerSafe, FirstSafe DEF Inv
  <2>4. RosterErrorHasCause' /\ CancelReachesAsked'
    BY <1>1, ErrorSafe, CancelSafe DEF Inv
  <2> QED BY <2>1, <2>2, <2>3, <2>4 DEF Inv
<1>2. CASE UNCHANGED vars
  <2>1. UNCHANGED <<status, clientLocation, call, snapshot, lateCall,
                    arrOnlineProviders, arrMarkers, socket, pings, slot, asked,
                    left, unheard, screens, fault>>
    BY <1>2 DEF vars, phoneVars, arrays, request
  <2>2. TypeOK'
    BY <2>1 DEF Inv, TypeOK
  <2>3. ArraysInv' /\ FetchInv'
    BY <2>1 DEF Inv, ArraysInv, FetchInv
  <2>4. LastPingTells' /\ PingsAlternate'
    BY <2>1 DEF Inv, LastPingTells, PingsAlternate, Same, Off
  <2>5. AnswerInv' /\ FirstPingNews'
    BY <2>1 DEF Inv, AnswerInv, FirstPingNews, Same, Off, PingIds, Roster
  <2>6. RosterErrorHasCause' /\ CancelReachesAsked'
    BY <2>1 DEF Inv, RosterErrorHasCause, CancelReachesAsked, PingIds, Roster,
                isProviderInsideReachableArea
  <2> QED BY <2>2, <2>3, <2>4, <2>5, <2>6 DEF Inv
<1> QED BY <1>1, <1>2

\* The dashboard keeps its invariant: the parallel arrays, the pings that
\* alternate and end with the truth, and the list that was once the truth.
THEOREM Inductive == Spec => []Inv
BY InvInit, InvNext, PTL DEF Spec

\* The variables of the roster have their types.
THEOREM TypeCorrect == Spec => []TypeOK
<1>1. Inv => TypeOK
  BY DEF Inv
<1> QED BY <1>1, Inductive, PTL

\* The loop of pingReceived uses the index of one array for both and an index
\* of a copy for an array that shrinks: the k-th marker stays the one of the
\* k-th provider, and no removal is out of range.
THEOREM MarkersAreParallel == Spec => []MarkersFollowProviders
<1>1. Inv => MarkersFollowProviders
  BY DEF Inv, ArraysInv, MarkersFollowProviders
<1> QED BY <1>1, Inductive, PTL

\* No provider is listed twice, over the list and the pings that overtake it.
THEOREM ListedOnce == Spec => []NoProviderTwice
<1>1. ASSUME Inv PROVE NoProviderTwice
  <2> DEFINE a == arrOnlineProviders
             n == Len(a)
  <2>1. /\ a \in Seq(Providers) /\ n \in Nat /\ a \in [1 .. n -> Providers]
        /\ Distinct(a) /\ DOMAIN a = 1 .. n
    BY <1>1, LenProperties DEF Inv, TypeOK, ArraysInv
  <2>2. a \in [1 .. n -> Range(a)]
    BY <2>1 DEF Range
  <2>3. IsInjective(a)
    BY <2>1 DEF IsInjective, Distinct
  <2>4. a \in Injection(1 .. n, Range(a))
    BY <2>2, <2>3 DEF Injection
  <2>5. \A x \in Range(a) : \E k \in 1 .. n : a[k] = x
    BY <2>1 DEF Range
  <2>6. a \in Surjection(1 .. n, Range(a))
    BY <2>2, <2>5 DEF Surjection
  <2>7. ExistsBijection(1 .. n, Range(a))
    BY <2>4, <2>6 DEF ExistsBijection, Bijection
  <2> HIDE DEF a, n
  <2>8. Cardinality(Range(a)) = n
    BY <2>1, <2>7, FS_CountingElements
  <2> QED BY <2>8 DEF NoProviderTwice, Roster, a, n
<1> QED BY <1>1, Inductive, PTL

\* A provider is wrongly listed, or wrongly absent, only when one of its pings
\* is still on its way or was not heard by this dashboard, or when the client
\* has moved since (getOnlineProviderList, pingReceived, tracingLocation).
THEOREM ErrorsHaveCauses == Spec => []RosterErrorHasCause
<1>1. Inv => RosterErrorHasCause
  BY DEF Inv
<1> QED BY <1>1, Inductive, PTL

\* Everyone who was asked is still in the roster that a cancellation is sent to,
\* unless they have announced that they left (cancelRequestThroughWS).
THEOREM AskedAreReached == Spec => []CancelReachesAsked
<1>1. Inv => CancelReachesAsked
  BY DEF Inv
<1> QED BY <1>1, Inductive, PTL
=============================================================================
