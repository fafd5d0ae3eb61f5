------------------------------ MODULE TripLife ------------------------------
(***************************************************************************)
(* What the two phones and the server promise together, without sockets,   *)
(* calls or recovery: the server moves one trip at a time along its life,  *)
(* and a phone that shows a stage of a trip shows one that this trip has   *)
(* come to.  A phone may lag behind, skip stages, or go back to its        *)
(* dashboard at any time; it never goes back inside one trip.              *)
(***************************************************************************)
EXTENDS Naturals

VARIABLES
    life,      \* the server's trip: [id, status]
    client,    \* what the client's phone shows of a trip: [stage, id]
    provider   \* what the provider's phone shows of a trip: [stage, id]

vars == <<life, client, provider>>

Stages == <<"none", "accepted", "reached", "started", "ended">>
Rank(stage) == CHOOSE r \in 1 .. 5 : Stages[r] = stage

\* The stages a trip with this status has come to.  The server has no status
\* of its own for a provider who has reached the client.
Backed(view) ==
    \/ view.stage = "none"
    \/ view.id \in 1 .. (life.id - 1)
    \/ /\ view.id = life.id
       /\ life.status \in CASE view.stage = "started" -> {"started", "ended"}
                            [] view.stage = "ended"   -> {"ended"}
                            [] OTHER -> {"accepted", "started", "ended",
                                         "cancelled"}

Init == /\ life = [id |-> 0, status |-> "none"]
        /\ client = [stage |-> "none", id |-> 0]
        /\ provider = [stage |-> "none", id |-> 0]

Edges == {<<"requested", "accepted">>, <<"requested", "cancelled">>,
          <<"accepted", "cancelled">>, <<"accepted", "started">>,
          <<"started", "ended">>}

Advance ==
    /\ \/ /\ life.status \notin {"accepted", "started"}
          /\ life' = [id |-> life.id + 1, status |-> "requested"]
       \/ \E e \in Edges : /\ life.status = e[1]
                           /\ life' = [life EXCEPT !.status = e[2]]
    /\ UNCHANGED <<client, provider>>

\* A phone shows something else: its dashboard, another trip, or a later
\* stage of the same trip.
Forward(old, new) ==
    \/ new.stage = "none" \/ old.stage = "none" \/ new.id # old.id
    \/ Rank(new.stage) > Rank(old.stage)

ShowClient ==
    /\ Forward(client, client') /\ Backed(client')
    /\ UNCHANGED <<life, provider>>

ShowProvider ==
    /\ Forward(provider, provider') /\ Backed(provider')
    /\ UNCHANGED <<life, client>>

Next == Advance \/ ShowClient \/ ShowProvider

Spec == Init /\ [][Next]_vars
=============================================================================
