------------------------------- MODULE Wallet -------------------------------
(***************************************************************************)
(* The client's cards: the wallet, adding a card, and the card, customer   *)
(* and number of cards that UserDefaults remember for the next request.    *)
(*                                                                         *)
(* The wallet asks for its list every time it appears and takes answers in *)
(* whatever order they come.  It empties the list when it appears without  *)
(* reloading the table, so `rows', what the table shows, is state of its   *)
(* own.  A deletion keeps the index of its row until its answer.  Only the *)
(* activity indicator keeps the user from a second one, and any failure or *)
(* toast takes the indicator away.                                         *)
(*                                                                         *)
(* Two history variables: `upset' after an event that can make the wallet  *)
(* remember a card that is not on file (a relaunch from the wallet, a list *)
(* older than a deletion, the lost answer of a deletion, an indicator gone *)
(* before it), and `revisited' after a visit with a card selected already. *)
(*                                                                         *)
(* One client: logging out and in again as another one, which leaves the   *)
(* remembered card in UserDefaults, is left out.                           *)
(***************************************************************************)
EXTENDS Integers, Sequences, FiniteSets, SequencesExt

CONSTANTS
    MaxCards,  \* cards ever added
    MaxLists   \* list calls of one wallet in flight

ASSUME WalletBounds == /\ MaxCards \in Nat \ {0}
                       /\ MaxLists \in Nat \ {0}

None     == -1
Cards    == 1 .. MaxCards
Customer == 1

VARIABLES
    cards,     \* external: the cards on file, oldest first
    toDelete,  \* external: cards whose deletion the server has yet to take
    nextCard,  \* external: the next card added
    defaults,  \* UserDefaults: userCardSelected, userStripeId, userCardCount
    stack,     \* the screens over the dashboard
    cardList, rows, selectedIndex, userStripeId,  \* the wallet
    lists,     \* its list calls
    dels,      \* its deletions: [row, card, moved]
    stray,     \* a call of a wallet that was left is still in flight
    adding,    \* the add-card screen's call
    spinner,   \* the activity indicator
    upset, revisited, fault

server == <<cards, toDelete, nextCard>>
wallet == <<cardList, rows, selectedIndex, userStripeId>>
vars == <<server, defaults, stack, wallet, lists, dels, stray, adding, spinner,
          upset, revisited, fault>>

-----------------------------------------------------------------------------
Lists  == [answered : BOOLEAN, cards : Seq(Cards)]
Asked  == [answered |-> FALSE, cards |-> <<>>]

TypeOK ==
    /\ cards \in Seq(Cards) /\ toDelete \subseteq Cards
    /\ nextCard \in 1 .. MaxCards + 1
    /\ defaults \in [card : Cards \union {None}, customer : {None, Customer},
                     count : None .. MaxCards]
    /\ stack \in {<<>>, <<"wallet">>, <<"wallet", "add">>, <<"add">>}
    /\ cardList \in Seq(Cards) /\ rows \in 0 .. MaxCards
    /\ selectedIndex \in Cards \union {None}
    /\ userStripeId \in {None, Customer}
    /\ lists \in Seq(Lists) /\ Len(lists) <= MaxLists
    /\ dels \subseteq [row : 1 .. MaxCards, card : Cards, moved : BOOLEAN]
    /\ stray \in BOOLEAN
    /\ adding \in {"none", "token", "asked", "taken"} /\ spinner \in BOOLEAN
    /\ upset \in BOOLEAN /\ revisited \in BOOLEAN /\ fault \in BOOLEAN

\* A fresh installation of a client who may have cards already.
Init ==
    /\ \E n \in 0 .. MaxCards : cards = [i \in 1 .. n |-> i] /\ nextCard = n + 1
    /\ toDelete = {}
    /\ defaults = [card |-> None, customer |-> None, count |-> None]
    /\ stack = <<>> /\ cardList = <<>> /\ rows = 0
    /\ selectedIndex = None /\ userStripeId = None
    /\ lists = <<>> /\ dels = {} /\ stray = FALSE /\ adding = "none"
    /\ spinner = FALSE /\ upset = FALSE /\ revisited = FALSE
    /\ fault = FALSE

At(screens) == stack = screens /\ ~fault
Free        == ~spinner /\ ~fault

\* Cards on file that stay there.
Filed == Range(cards) \ toDelete

\* The list has changed under the deletions in flight.
Moved(ds) == {[d EXCEPT !.moved = TRUE] : d \in ds}

\* removeActivityIndicator, by something other than a deletion's own answer.
removeActivityIndicator ==
    spinner' = FALSE /\ dels' = Moved(dels) /\ upset' = (upset \/ dels # {})

-----------------------------------------------------------------------------
(***************************************************************************)
(* Coming and going                                                        *)
(***************************************************************************)

\* getStripeCardList: without internet a toast, which takes the indicator
\* away, and no answer.
getStripeCardList(online) ==
    IF online THEN Len(lists) < MaxLists /\ lists' = Append(lists, Asked)
    ELSE UNCHANGED lists

\* From the side bar, or by sendRequest without a card: a new wallet, and
\* its viewWillAppear.
OpenWallet(online) ==
    /\ At(<<>>) /\ Free
    /\ stack' = <<"wallet">> /\ selectedIndex' = defaults.card
    /\ getStripeCardList(online)
    /\ revisited' = (revisited \/ defaults.card # None)
    /\ UNCHANGED <<server, defaults, cardList, rows, userStripeId, dels,
                   stray, adding, spinner, upset, fault>>

\* sendRequest without a card, where the last wallet was empty.
sendRequest ==
    /\ At(<<>>) /\ Free /\ defaults.card = None /\ defaults.count = 0
    /\ stack' = <<"add">>
    /\ UNCHANGED <<server, defaults, wallet, lists, dels, stray, adding,
                   spinner, upset, revisited, fault>>

\* viewWillDisappear, on the way back and on the way to the next screen.
viewWillDisappear ==
    defaults' = IF cardList = <<>>
                THEN [card |-> None, customer |-> None, count |-> 0]
                ELSE [card |-> selectedIndex, customer |-> userStripeId,
                      count |-> Len(cardList)]

\* The wallet goes, and its calls with it.
btnBackPressed ==
    /\ At(<<"wallet">>) /\ Free
    /\ viewWillDisappear /\ stack' = <<>>
    /\ cardList' = <<>> /\ rows' = 0
    /\ selectedIndex' = None /\ userStripeId' = None
    /\ lists' = <<>> /\ dels' = {}
    /\ stray' = (stray \/ lists # <<>> \/ dels # {})
    /\ UNCHANGED <<server, adding, spinner, upset, revisited, fault>>

btnAddCardPressed ==
    /\ At(<<"wallet">>) /\ Free
    /\ viewWillDisappear /\ stack' = <<"wallet", "add">>
    /\ UNCHANGED <<server, wallet, lists, dels, stray, adding, spinner,
                   upset, revisited, fault>>

\* The add-card screen goes, without an indicator: a wallet under it appears
\* again.
PopAddCard(online) ==
    /\ removeActivityIndicator
    /\ IF Len(stack) = 2
       THEN /\ stack' = <<"wallet">>
            /\ selectedIndex' = defaults.card /\ cardList' = <<>>
            /\ getStripeCardList(online)
       ELSE stack' = <<>> /\ UNCHANGED <<selectedIndex, cardList, lists>>
    /\ UNCHANGED <<server, defaults, rows, userStripeId, stray, revisited,
                   fault>>

addCardBackPressed(online) ==
    /\ stack # <<>> /\ Last(stack) = "add" /\ Free
    /\ PopAddCard(online)
    /\ adding' = "none"

-----------------------------------------------------------------------------
(***************************************************************************)
(* The list                                                                *)
(***************************************************************************)

ServerAnswersList(i) ==
    /\ i \in 1 .. Len(lists) /\ ~lists[i].answered
    /\ lists' = [lists EXCEPT ![i] = [answered |-> TRUE, cards |-> cards]]
    /\ UNCHANGED <<server, defaults, stack, wallet, dels, stray, adding,
                   spinner, upset, revisited, fault>>

\* Mutant: the table is not told of the list.
listArrives_NoReload(i) ==
    /\ i \in 1 .. Len(lists) /\ lists[i].answered /\ ~fault
    /\ cardList' = lists[i].cards /\ lists' = RemoveAt(lists, i)
    /\ dels' = Moved(dels)
    /\ upset' = (upset \/ ~(Range(lists[i].cards) \subseteq Filed))
    /\ UNCHANGED <<server, defaults, stack, rows, selectedIndex, userStripeId,
                   stray, adding, spinner, revisited, fault>>

\* An answer replaces the list and the table, however old it is.
listArrives(i) ==
    /\ i \in 1 .. Len(lists) /\ lists[i].answered /\ ~fault
    /\ cardList' = lists[i].cards /\ rows' = Len(lists[i].cards)
    /\ lists' = RemoveAt(lists, i)
    /\ dels' = Moved(dels)
    /\ upset' = (upset \/ ~(Range(lists[i].cards) \subseteq Filed))
    /\ UNCHANGED <<server, defaults, stack, selectedIndex, userStripeId,
                   stray, adding, spinner, revisited, fault>>

\* getResponse takes the indicator away, whoever has shown it.
listFails(i) ==
    /\ i \in 1 .. Len(lists) /\ ~fault
    /\ lists' = RemoveAt(lists, i)
    /\ removeActivityIndicator
    /\ UNCHANGED <<server, defaults, stack, wallet, stray, adding, revisited,
                   fault>>

\* A call of a wallet that is gone ends; only its failure shows.
strayEnds ==
    /\ stray /\ ~fault /\ stray' = FALSE
    /\ removeActivityIndicator \/ UNCHANGED <<spinner, dels, upset>>
    /\ UNCHANGED <<server, defaults, stack, wallet, lists, adding, revisited,
                   fault>>

-----------------------------------------------------------------------------
(***************************************************************************)
(* The rows                                                                *)
(***************************************************************************)

\* Mutant: the customer is not taken along.
select_CardOnly(row) ==
    /\ selectedIndex' = cardList[row] /\ UNCHANGED userStripeId

select(row) == selectedIndex' = cardList[row] /\ userStripeId' = Customer

\* A row the table still shows and the list no longer has is out of range.
didSelectRowAt(row) ==
    /\ At(<<"wallet">>) /\ Free /\ row <= rows
    /\ IF row > Len(cardList)
       THEN fault' = TRUE /\ UNCHANGED wallet
       ELSE /\ select(row) /\ rows' = Len(cardList)
            /\ UNCHANGED <<cardList, fault>>
    /\ UNCHANGED <<server, defaults, stack, lists, dels, stray, adding,
                   spinner, upset, revisited>>

\* Mutant: the deletion runs without the indicator.
deleteCardWithAPI_NoIndicator(row) ==
    /\ spinner' = FALSE
    /\ dels' = dels \union {[row |-> row, card |-> cardList[row], moved |-> FALSE]}
    /\ toDelete' = toDelete \union ({cardList[row]} \intersect Range(cards))
    /\ upset' = TRUE

\* With internet; without, the toast takes the indicator away at once.
deleteCardWithAPI(row) ==
    /\ spinner' = TRUE
    /\ dels' = dels \union {[row |-> row, card |-> cardList[row], moved |-> FALSE]}
    /\ toDelete' = toDelete \union ({cardList[row]} \intersect Range(cards))
    /\ UNCHANGED upset

\* Mutant: the selection stays with a card that is deleted.
reselect_Keeps(row) == UNCHANGED <<selectedIndex, userStripeId>>

\* Deleting the selected card selects the row above it, or nothing.
reselect(row) ==
    IF cardList[row] # selectedIndex
    THEN UNCHANGED <<selectedIndex, userStripeId>>
    ELSE IF Len(cardList) = 1
         THEN selectedIndex' = None /\ userStripeId' = None
         ELSE select(row - 1)

\* The first row has none above it.
commitDelete(row) ==
    /\ At(<<"wallet">>) /\ Free /\ row <= rows
    /\ IF \/ row > Len(cardList)
          \/ row = 1 /\ cardList[1] = selectedIndex /\ Len(cardList) > 1
       THEN fault' = TRUE /\ UNCHANGED <<selectedIndex, userStripeId, spinner,
                                         dels, toDelete, upset>>
       ELSE /\ reselect(row)
            /\ \/ deleteCardWithAPI(row)
               \/ removeActivityIndicator /\ UNCHANGED toDelete
            /\ UNCHANGED fault
    /\ UNCHANGED <<cards, nextCard, defaults, stack, cardList, rows, lists,
                   stray, adding, revisited>>

ServerDeletes(c) ==
    /\ c \in toDelete /\ toDelete' = toDelete \ {c}
    /\ \E k \in 1 .. Len(cards) : cards[k] = c /\ cards' = RemoveAt(cards, k)
    /\ UNCHANGED <<nextCard, defaults, stack, wallet, lists, dels, stray,
                   adding, spinner, upset, revisited, fault>>

\* The end of a deletion takes the indicator from the others.
endDeletion(d) ==
    /\ dels' = IF spinner \/ d.moved THEN Moved(dels \ {d}) ELSE dels \ {d}
    /\ spinner' = FALSE

\* The row is taken out by the index of the tap; a table that shows another
\* number of rows than the list has does not survive it.
deleteSucceeds(d) ==
    /\ d \in dels /\ d.card \notin toDelete /\ ~fault
    /\ endDeletion(d)
    /\ IF d.row > Len(cardList) \/ rows # Len(cardList)
       THEN fault' = TRUE /\ UNCHANGED <<cardList, rows>>
       ELSE /\ cardList' = RemoveAt(cardList, d.row) /\ rows' = rows - 1
            /\ UNCHANGED fault
    /\ upset' = (upset \/ dels # {d})
    /\ UNCHANGED <<server, defaults, stack, selectedIndex, userStripeId,
                   lists, stray, adding, revisited>>

\* The server has refused, or it has deleted the card and the answer is lost.
deleteFails(d) ==
    /\ d \in dels /\ ~fault
    /\ endDeletion(d)
    /\ \/ /\ d.card \in toDelete /\ toDelete' = toDelete \ {d.card}
          /\ upset' = (upset \/ dels # {d})
       \/ upset' = TRUE /\ UNCHANGED toDelete
    /\ UNCHANGED <<cards, nextCard, defaults, stack, wallet, lists, stray,
                   adding, revisited, fault>>

-----------------------------------------------------------------------------
(***************************************************************************)
(* Adding a card                                                           *)
(***************************************************************************)

btnDonePressed ==
    /\ stack # <<>> /\ Last(stack) = "add" /\ Free /\ adding = "none"
    /\ adding' = "token" /\ spinner' = TRUE
    /\ UNCHANGED <<server, defaults, stack, wallet, lists, dels, stray,
                   upset, revisited, fault>>

\* Confirming the error stores a count of one card.
tokenFails ==
    /\ adding = "token" /\ ~fault /\ adding' = "none"
    /\ removeActivityIndicator
    /\ defaults' = [defaults EXCEPT !.count = 1]
    /\ UNCHANGED <<server, stack, wallet, lists, stray, revisited, fault>>

\* addStripeCard, with or without internet.
tokenSucceeds(online) ==
    /\ adding = "token" /\ ~fault
    /\ IF online THEN adding' = "asked" /\ UNCHANGED <<spinner, dels, upset>>
       ELSE adding' = "none" /\ removeActivityIndicator
    /\ UNCHANGED <<server, defaults, stack, wallet, lists, stray, revisited,
                   fault>>

ServerAddsCard ==
    /\ adding = "asked" /\ nextCard <= MaxCards
    /\ adding' = "taken" /\ cards' = Append(cards, nextCard)
    /\ nextCard' = nextCard + 1
    /\ UNCHANGED <<toDelete, defaults, stack, wallet, lists, dels, stray,
                   spinner, upset, revisited, fault>>

addCardSucceeds(online) ==
    /\ adding = "taken" /\ ~fault /\ adding' = "none"
    /\ PopAddCard(online)

addCardFails ==
    /\ adding \in {"asked", "taken"} /\ ~fault /\ adding' = "none"
    /\ removeActivityIndicator
    /\ UNCHANGED <<server, defaults, stack, wallet, lists, stray, revisited,
                   fault>>

-----------------------------------------------------------------------------
\* The app is killed, or has stopped by its own fault, and is opened again.
Relaunch ==
    /\ stack' = <<>> /\ cardList' = <<>> /\ rows' = 0
    /\ selectedIndex' = None /\ userStripeId' = None
    /\ lists' = <<>> /\ dels' = {} /\ stray' = FALSE /\ adding' = "none"
    /\ spinner' = FALSE /\ fault' = FALSE
    /\ upset' = (upset \/ stack # <<>>)
    /\ UNCHANGED <<server, defaults, revisited>>

Answers ==
    \/ \E i \in 1 .. MaxLists : listArrives(i) \/ listFails(i)
    \/ \E d \in dels : deleteSucceeds(d) \/ deleteFails(d)
    \/ strayEnds \/ tokenFails \/ addCardFails
    \/ \E online \in BOOLEAN : tokenSucceeds(online) \/ addCardSucceeds(online)

Next ==
    \/ Answers \/ Relaunch
    \/ sendRequest \/ btnBackPressed \/ btnAddCardPressed \/ btnDonePressed
    \/ \E online \in BOOLEAN : OpenWallet(online) \/ addCardBackPressed(online)
    \/ \E row \in Cards : didSelectRowAt(row) \/ commitDelete(row)
    \/ \E i \in 1 .. MaxLists : ServerAnswersList(i)
    \/ \E c \in Cards : ServerDeletes(c)
    \/ ServerAddsCard

Spec == Init /\ [][Next]_vars

-----------------------------------------------------------------------------
(***************************************************************************)
(* Properties                                                              *)
(***************************************************************************)

\* The table and the list change at different moments: whenever the list has
\* cards the table shows as many rows, also over answers that come out of
\* order and deletions that overlap them; a deletion that finds cards in the
\* list never meets a table of another size.
TableMatchesList == cardList # <<>> => rows = Len(cardList)

\* A deletion is answered for the row it was asked for: the list has not
\* changed under it, unless a list has arrived or was emptied meanwhile, or
\* the indicator went before the answer.
DeletionKnowsItsRow ==
    \A d \in dels : ~d.moved => /\ d.row <= Len(cardList)
                                /\ cardList[d.row] = d.card

\* The card a request is charged to is on file and not being deleted, unless
\* the app was stopped in the wallet, an old list was shown, the answer to a
\* deletion was lost or two of them overlapped.
RememberedCardOnFile ==
    stack = <<>> /\ defaults.card # None /\ ~upset => defaults.card \in Filed

\* It comes with its Stripe customer, unless the wallet was visited again
\* with a card already selected: that visit keeps the card and forgets the
\* customer.
CardHasCustomer ==
    stack = <<>> /\ defaults.card # None /\ ~revisited =>
        defaults.customer = Customer
=============================================================================
