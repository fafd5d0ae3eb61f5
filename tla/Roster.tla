------------------------------- MODULE Roster -------------------------------
(***************************************************************************)
(* The online providers on the client's dashboard.  The list is fetched    *)
(* once, with the first location fix; its answer opens the common-data     *)
(* socket, whose pings then add and remove providers.  A provider is held  *)
(* in two parallel arrays (the provider and its marker on the map), and a  *)
(* request, or its cancellation, is addressed to whoever is in them then.  *)
(*                                                                         *)
(* `unheard' is a history variable: the providers about whom this          *)
(* dashboard's list and pings have not told the whole story.  `left' holds *)
(* the providers whose leaving was heard since the request was sent.       *)
(***************************************************************************)
EXTENDS Naturals, Sequences, FiniteSets, SequencesExt

CONSTANTS
    Providers,  \* provider ids, positive numbers
    MaxPings,   \* pings in flight
    MaxScreens  \* times the client signs in again, in the same process

ASSUME RosterBounds == /\ Providers \subseteq Nat \ {0}
                       /\ IsFiniteSet(Providers)
                       /\ MaxPings \in Nat
                       /\ MaxScreens \in Nat

VARIABLES
    status,            \* external: where each provider is online
    clientLocation,    \* the last fix, "none" before the first
    call,              \* the dashboard's list call
    snapshot,          \* external: status when the server answered it
    lateCall,          \* the list call of a dashboard that was logged out of
    arrOnlineProviders, arrMarkers,
    socket,            \* clientCommonDataSocket
    pings,             \* external: pings in flight on it
    slot,              \* WebSocketManager.delegate
    asked,             \* ProviderIds of the request being waited for
    left, unheard, screens, fault

phoneVars == <<clientLocation, call, lateCall, slot>>
arrays    == <<arrOnlineProviders, arrMarkers>>
request   == <<asked, left>>
vars == <<status, snapshot, phoneVars, arrays, socket, pings, request,
          unheard, screens, fault>>

-----------------------------------------------------------------------------
Places   == {"here", "there"}
Statuses == Places \union {"offline"}
Pings    == [id : Providers, status : Statuses]

TypeOK ==
    /\ status \in [Providers -> Statuses] /\ snapshot \in [Providers -> Statuses]
    /\ clientLocation \in Places \union {"none"}
    /\ call \in {"none", "asked", "answering", "done", "failed"}
    /\ lateCall \in BOOLEAN
    /\ arrOnlineProviders \in Seq(Providers) /\ arrMarkers \in Seq(Providers)
    /\ socket \in {"none", "connecting", "open", "closed"}
    /\ pings \in Seq(Pings) /\ Len(pings) <= MaxPings
    /\ slot \in {"none", "dashboard", "other"}
    /\ asked \subseteq Providers /\ left \subseteq Providers
    /\ unheard \subseteq Providers
    /\ screens \in 0 .. MaxScreens /\ fault \in BOOLEAN

Init ==
    /\ status \in [Providers -> Statuses] /\ snapshot = status
    /\ clientLocation = "none" /\ call = "none" /\ lateCall = FALSE
    /\ slot = "none" /\ socket = "none" /\ pings = <<>>
    /\ arrOnlineProviders = <<>> /\ arrMarkers = <<>>
    /\ asked = {} /\ left = {} /\ unheard = {} /\ screens = 0 /\ fault = FALSE

Roster == Range(arrOnlineProviders)

\* A provider inside the reachable area of the client's last fix.
isProviderInsideReachableArea(place) == place = clientLocation

PingIds == {p.id : p \in Range(pings)}

-----------------------------------------------------------------------------
(***************************************************************************)
(* Fetching the list                                                       *)
(***************************************************************************)

\* Mutant: every fix fetches the list, as if isFirst were never cleared.
tracingLocation_Refetches(place) ==
    /\ clientLocation' = place
    /\ call' = IF call \in {"none", "done", "failed"} THEN "asked" ELSE call
    /\ unheard' = IF call = "done" /\ place # clientLocation THEN Providers
                  ELSE unheard
    /\ UNCHANGED <<status, snapshot, lateCall, slot, arrays, socket, pings,
                   request, screens, fault>>

\* Mutant: a fix takes the providers out that are now too far away.
tracingLocation_DropsFar(place) ==
    /\ clientLocation' = place
    /\ call' = IF call = "none" THEN "asked" ELSE call
    /\ LET near == SelectSeq(arrOnlineProviders, LAMBDA p : status[p] = place)
       IN  arrOnlineProviders' = near /\ arrMarkers' = near
    /\ unheard' = IF call = "done" /\ place # clientLocation THEN Providers
                  ELSE unheard
    /\ UNCHANGED <<status, snapshot, lateCall, slot, socket, pings,
                   request, screens, fault>>

\* A fix: the first one of a dashboard fetches the list.  A later one moves
\* the client without looking at the roster again.
tracingLocation(place) ==
    /\ clientLocation' = place
    /\ call' = IF call = "none" THEN "asked" ELSE call
    /\ unheard' = IF call = "done" /\ place # clientLocation THEN Providers
                  ELSE unheard
    /\ UNCHANGED <<status, snapshot, lateCall, slot, arrays, socket, pings,
                   request, screens, fault>>

\* The server answers with whoever is online at that moment.
ServerAnswersList ==
    /\ call = "asked"
    /\ call' = "answering" /\ snapshot' = status /\ unheard' = {}
    /\ UNCHANGED <<status, clientLocation, lateCall, slot, arrays, socket,
                   pings, request, screens, fault>>

\* Mutant: everyone online is listed, however far away.
getOnlineProviderList_NoArea ==
    /\ call = "answering"
    /\ call' = "done"
    /\ LET online == {p \in Providers : snapshot[p] # "offline"}
       IN  /\ arrOnlineProviders' = arrOnlineProviders \o SetToSeq(online)
           /\ arrMarkers' = arrMarkers \o SetToSeq(online)
    /\ socket' = "connecting" /\ pings' = <<>>
    /\ unheard' = unheard \union PingIds
    /\ slot' = "dashboard"
    /\ UNCHANGED <<status, snapshot, clientLocation, lateCall, request,
                   screens, fault>>

\* Its answer reaches the dashboard: the providers in the area at the last
\* fix are appended, a new socket is connected and the slot is taken.
getOnlineProviderList ==
    /\ call = "answering"
    /\ call' = "done"
    /\ LET inArea == {p \in Providers :
                         isProviderInsideReachableArea(snapshot[p])}
       IN  /\ arrOnlineProviders' = arrOnlineProviders \o SetToSeq(inArea)
           /\ arrMarkers' = arrMarkers \o SetToSeq(inArea)
    /\ socket' = "connecting" /\ pings' = <<>>
    /\ unheard' = unheard \union PingIds
    /\ slot' = "dashboard"
    /\ UNCHANGED <<status, snapshot, clientLocation, lateCall, request,
                   screens, fault>>

\* The call fails: no socket, no slot, and isFirst has been cleared.
getOnlineProviderListFails ==
    /\ call \in {"asked", "answering"}
    /\ call' = "failed"
    /\ UNCHANGED <<status, snapshot, clientLocation, lateCall, slot, arrays,
                   socket, pings, request, unheard, screens, fault>>

\* `Log Out?', YES, disconnects an open socket; `Your account has been logout'
\* does not.  Signing in again makes a new dashboard with arrays of its own;
\* the slot stays with the old one, whose list may still be under way, or be
\* fetched by a last fix.  One late list at a time is a bound.
signInAgain ==
    /\ screens < MaxScreens /\ screens' = screens + 1
    /\ clientLocation' = "none" /\ call' = "none"
    /\ \/ call \in {"none", "asked", "answering"} /\ ~lateCall /\ lateCall' = TRUE
       \/ call \notin {"asked", "answering"} /\ UNCHANGED lateCall
    /\ slot' = IF slot = "none" THEN "none" ELSE "other"
    /\ arrOnlineProviders' = <<>> /\ arrMarkers' = <<>>
    /\ asked' = {} /\ left' = {} /\ unheard' = {}
    /\ \/ socket = "open" /\ socket' = "closed" /\ pings' = <<>>
       \/ UNCHANGED <<socket, pings>>
    /\ UNCHANGED <<status, snapshot, fault>>

\* The list of the dashboard logged out of comes late: that dashboard takes
\* the slot and replaces the socket, also from under the new one.
lateListAnswers ==
    /\ lateCall /\ lateCall' = FALSE
    /\ \/ /\ slot' = "other" /\ socket' = "connecting" /\ pings' = <<>>
          /\ unheard' = unheard \union PingIds
       \/ UNCHANGED <<slot, socket, pings, unheard>>
    /\ UNCHANGED <<status, snapshot, clientLocation, call, arrays, request,
                   screens, fault>>

-----------------------------------------------------------------------------
(***************************************************************************)
(* Pings                                                                   *)
(***************************************************************************)

\* External: a provider goes online somewhere, or offline.  Who listens on
\* the socket gets a ping.
ProviderChanges(p, new) ==
    /\ (status[p] = "offline") # (new = "offline")
    /\ status' = [status EXCEPT ![p] = new]
    /\ IF socket = "open"
       THEN /\ Len(pings) < MaxPings
            /\ pings' = Append(pings, [id |-> p, status |-> new])
            /\ UNCHANGED unheard
       ELSE unheard' = unheard \union {p} /\ UNCHANGED pings
    /\ UNCHANGED <<snapshot, phoneVars, arrays, socket, request, screens, fault>>

websocketDidConnect ==
    /\ socket = "connecting" /\ socket' = "open"
    /\ UNCHANGED <<status, snapshot, phoneVars, arrays, pings, request,
                   unheard, screens, fault>>

\* onDisconnect of the dashboard does nothing: the socket stays closed.
websocketDidDisconnect ==
    /\ socket \in {"connecting", "open"} /\ socket' = "closed"
    /\ pings' = <<>> /\ unheard' = unheard \union PingIds
    /\ UNCHANGED <<status, snapshot, phoneVars, arrays, request, screens, fault>>

\* The indexes at which pingReceived finds the provider, in the order its
\* loop comes to them.  The loop runs over a copy of the array, so an index
\* is not adjusted for what the loop has removed already.
FoundAt(p) ==
    LET found == {i \in 1 .. Len(arrOnlineProviders) : arrOnlineProviders[i] = p}
    IN  CHOOSE s \in [1 .. Cardinality(found) -> found] :
            \A j, k \in DOMAIN s : j < k => s[j] < s[k]

RemoveAtIndexes(s, indexes) ==
    FoldLeft(LAMBDA t, i : IF i <= Len(t) THEN RemoveAt(t, i) ELSE t, s, indexes)

\* Mutant: the marker is only taken off the map.
RemoveProvider_KeepsMarker(p) ==
    /\ arrOnlineProviders' = RemoveAtIndexes(arrOnlineProviders, FoundAt(p))
    /\ UNCHANGED <<arrMarkers, fault>>

\* The loop of pingReceived; an index beyond the end stops the process.
RemoveProvider(p) ==
    /\ arrOnlineProviders' = RemoveAtIndexes(arrOnlineProviders, FoundAt(p))
    /\ arrMarkers' = RemoveAtIndexes(arrMarkers, FoundAt(p))
    /\ fault' = (fault \/ \E k \in 1 .. Len(FoundAt(p)) :
                      FoundAt(p)[k] > Len(arrMarkers) + 1 - k)

AddProvider(p, place) ==
    /\ IF p \notin Roster /\ isProviderInsideReachableArea(place)
       THEN /\ arrOnlineProviders' = Append(arrOnlineProviders, p)
            /\ arrMarkers' = Append(arrMarkers, p)
       ELSE UNCHANGED arrays
    /\ UNCHANGED fault

\* onMessage and pingReceived of the dashboard.
pingReceived ==
    /\ pings # <<>> /\ slot = "dashboard"
    /\ pings' = Tail(pings)
    /\ LET ping == Head(pings) IN
       /\ IF ping.status = "offline"
          THEN RemoveProvider(ping.id) /\ left' = left \union {ping.id}
          ELSE AddProvider(ping.id, ping.status) /\ UNCHANGED left
       /\ unheard' = IF ping.status = "offline" \/ ping.id \notin Roster
                     THEN unheard \ {ping.id} ELSE unheard
    /\ UNCHANGED <<status, snapshot, phoneVars, socket, asked, screens>>

\* Any other holder of the slot has no use for a ping.
dropPing ==
    /\ pings # <<>> /\ slot # "dashboard"
    /\ pings' = Tail(pings) /\ unheard' = unheard \union {Head(pings).id}
    /\ UNCHANGED <<status, snapshot, phoneVars, arrays, socket, request,
                   screens, fault>>

\* The sheet or the trip screen takes the slot and never gives it back.
SheetTakesSlot ==
    /\ slot = "dashboard" /\ asked # {}
    /\ slot' = "other" /\ asked' = {} /\ left' = {}
    /\ UNCHANGED <<status, snapshot, clientLocation, call, lateCall, arrays,
                   socket, pings, unheard, screens, fault>>

-----------------------------------------------------------------------------
(***************************************************************************)
(* Requests                                                                *)
(***************************************************************************)

\* sendRequest and postRequest: with a roster and a fix, everyone in the
\* roster is asked.
postRequest ==
    /\ asked = {} /\ arrOnlineProviders # <<>> /\ clientLocation # "none"
    /\ asked' = Roster /\ left' = {}
    /\ UNCHANGED <<status, snapshot, phoneVars, arrays, socket, pings,
                   unheard, screens, fault>>

\* cancelRequestThroughWS: the cancellation goes to the roster of now.  The
\* overlay's timer ends the waiting too, and tells nobody.
cancelRequestThroughWS ==
    /\ asked # {}
    /\ asked' = {} /\ left' = {}
    /\ UNCHANGED <<status, snapshot, phoneVars, arrays, socket, pings,
                   unheard, screens, fault>>

-----------------------------------------------------------------------------
Next ==
    /\ ~fault
    /\ \/ \E place \in Places : tracingLocation(place)
       \/ ServerAnswersList \/ getOnlineProviderList
       \/ getOnlineProviderListFails \/ signInAgain \/ lateListAnswers
       \/ \E p \in Providers, new \in Statuses : ProviderChanges(p, new)
       \/ websocketDidConnect \/ websocketDidDisconnect
       \/ pingReceived \/ dropPing
       \/ SheetTakesSlot \/ postRequest \/ cancelRequestThroughWS

Spec == Init /\ [][Next]_vars

-----------------------------------------------------------------------------
(***************************************************************************)
(* Properties                                                              *)
(***************************************************************************)

\* The loop that removes a provider uses the index of one array for both and
\* an index of a copy for an array that shrinks: the k-th marker is the one
\* of the k-th provider, and no removal is out of range.
MarkersFollowProviders == arrMarkers = arrOnlineProviders /\ ~fault

\* No provider is listed twice, over the list and the pings that overtake it,
\* and over logging in again: the second removal of a provider would take
\* somebody else out.
NoProviderTwice == Cardinality(Roster) = Len(arrOnlineProviders)

\* A provider is wrongly listed, or wrongly absent, only when one of its
\* pings is still on its way or was not heard by this dashboard, or when the
\* client has moved since.
RosterErrorHasCause ==
    call = "done" =>
        \A p \in Providers \ (unheard \union PingIds) :
            p \in Roster <=> isProviderInsideReachableArea(status[p])

\* The cancellation is addressed to the roster of the moment it is sent.
\* Everyone who was asked is still in it, unless they have announced that
\* they left.
CancelReachesAsked == asked \ left \subseteq Roster
=============================================================================
