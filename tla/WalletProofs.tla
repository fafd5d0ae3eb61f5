---------------------------- MODULE WalletProofs ----------------------------
(***************************************************************************)
(* Proofs about Wallet, for any number of cards and of list calls: its     *)
(* type invariant, and the four invariants of the rows, the deletions and  *)
(* the card that is remembered.                                            *)
(***************************************************************************)
EXTENDS Wallet, SequenceTheorems, TLAPS

-----------------------------------------------------------------------------
(***************************************************************************)
(* The inductive invariant                                                 *)
(***************************************************************************)

\* A list of cards has each card once, and no more cards than were added.
Listed(s) ==
    /\ s \in Seq(Cards) /\ Len(s) <= MaxCards
    /\ \A j, k \in 1 .. Len(s) : j # k => s[j] # s[k]

\* The server's cards are older than the next one, and what it has to delete
\* is on file.
ServerInv ==
    /\ Listed(cards) /\ Len(cards) < nextCard
    /\ \A k \in 1 .. Len(cards) : cards[k] < nextCard
    /\ toDelete \subseteq Range(cards)

\* The lists on their way and the list shown were the server's once.
ListsInv ==
    /\ Listed(cardList)
    /\ \A i \in 1 .. Len(lists) : Listed(lists[i].cards)

\* A deletion the list has not moved under is covered by the indicator and
\* knows its card.
DelsInv ==
    \A d \in dels : ~d.moved => /\ spinner /\ d.row <= Len(cardList)
                                /\ cardList[d.row] = d.card

\* A card is being added only while its screen is in front.
AddingInv == adding # "none" => stack \in {<<"wallet", "add">>, <<"add">>}

\* The customer goes along with the selected and with the remembered card.
CustomerInv ==
    ~revisited =>
        /\ selectedIndex # None => userStripeId = Customer
        /\ defaults.card # None => defaults.customer = Customer
        /\ stack = <<"wallet", "add">> /\ defaults.card # None =>
              userStripeId = Customer

\* One deletion at a time, under the indicator.
OneDeletion == (dels # {} => spinner) /\ \A d, e \in dels : d = e

\* Every row but the one being deleted is a card on file.
RowsFiled ==
    \A k \in 1 .. Len(cardList) :
        cardList[k] \in Filed \/ \E d \in dels : ~d.moved /\ d.row = k

\* So is the card selected, and the one remembered when no wallet is in front.
SelectionFiled == selectedIndex # None => selectedIndex \in Filed
DefaultFiled ==
    stack # <<"wallet">> /\ defaults.card # None => defaults.card \in Filed

\* All of this unless something has upset the wallet.
FiledInv ==
    ~upset => OneDeletion /\ RowsFiled /\ SelectionFiled /\ DefaultFiled

Inv ==
    /\ TypeOK /\ ServerInv /\ ListsInv /\ TableMatchesList
    /\ DelsInv /\ AddingInv /\ CustomerInv /\ FiledInv

-----------------------------------------------------------------------------
(***************************************************************************)
(* Lists of cards                                                          *)
(***************************************************************************)

\* The bounds are numbers.
LEMMA BoundTypes ==
    MaxCards \in Nat /\ MaxCards >= 1 /\ MaxLists \in Nat /\ None = -1
BY WalletBounds DEF None

\* A sequence without its i-th element: those before it stay, those after it
\* move up.
LEMMA RemoveAtIs ==
    ASSUME NEW S, NEW s \in Seq(S), NEW i \in 1 .. Len(s)
    PROVE  /\ RemoveAt(s, i) \in Seq(S) /\ Len(RemoveAt(s, i)) = Len(s) - 1
           /\ \A k \in 1 .. Len(s) - 1 :
                 RemoveAt(s, i)[k] = s[IF k < i THEN k ELSE k + 1]
<1> DEFINE a == SubSeq(s, 1, i - 1)
           b == SubSeq(s, i + 1, Len(s))
<1>1. Len(s) \in Nat /\ \A k \in 1 .. Len(s) : s[k] \in S
  BY LenProperties, ElementOfSeq
<1>2. /\ a \in Seq(S) /\ Len(a) = i - 1
      /\ \A k \in 1 .. i - 1 : a[k] = s[k]
  BY <1>1
<1>3. /\ b \in Seq(S) /\ Len(b) = Len(s) - i
      /\ \A k \in 1 .. Len(s) - i : b[k] = s[k + i]
  BY <1>1
<1> HIDE DEF a, b
<1>4. /\ a \o b \in Seq(S) /\ Len(a \o b) = Len(a) + Len(b)
      /\ \A k \in 1 .. Len(a) + Len(b) :
            (a \o b)[k] = IF k <= Len(a) THEN a[k] ELSE b[k - Len(a)]
  BY <1>2, <1>3, ConcatProperties
<1>5. Len(a \o b) = Len(s) - 1
  BY <1>1, <1>2, <1>3, <1>4
<1>6. ASSUME NEW k \in 1 .. Len(s) - 1
      PROVE  (a \o b)[k] = s[IF k < i THEN k ELSE k + 1]
  <2>1. k \in 1 .. Len(a) + Len(b)
    BY <1>1, <1>2, <1>3
  <2>2. CASE k < i
    <3>1. k <= Len(a) /\ k \in 1 .. i - 1
      BY <1>1, <1>2, <2>2
    <3> QED BY <1>2, <1>4, <2>1, <2>2, <3>1
  <2>3. CASE ~(k < i)
    <3>1. ~(k <= Len(a)) /\ k - Len(a) \in 1 .. Len(s) - i
          /\ k - Len(a) + i = k + 1
      BY <1>1, <1>2, <2>3
    <3>2. b[k - Len(a)] = s[k - Len(a) + i]
      BY <1>3, <3>1
    <3> QED BY <1>4, <2>1, <2>3, <3>1, <3>2
  <2> QED BY <2>2, <2>3
<1>7. RemoveAt(s, i) = a \o b
  BY DEF RemoveAt, a, b
<1> QED BY <1>4, <1>5, <1>6, <1>7

\* A list of cards without one of them is a list of cards.
LEMMA ListedRemove ==
    ASSUME NEW s, Listed(s), NEW i \in 1 .. Len(s)
    PROVE  /\ Listed(RemoveAt(s, i)) /\ Len(RemoveAt(s, i)) = Len(s) - 1
           /\ \A k \in 1 .. Len(s) - 1 :
                 RemoveAt(s, i)[k] = s[IF k < i THEN k ELSE k + 1]
           /\ Range(RemoveAt(s, i)) = Range(s) \ {s[i]}
<1> DEFINE r == RemoveAt(s, i)
<1>1. s \in Seq(Cards) /\ Len(s) \in Nat /\ Len(s) <= MaxCards
  BY LenProperties DEF Listed
<1>2. /\ r \in Seq(Cards) /\ Len(r) = Len(s) - 1
      /\ \A k \in 1 .. Len(s) - 1 : r[k] = s[IF k < i THEN k ELSE k + 1]
  BY <1>1, RemoveAtIs
<1> HIDE DEF r
<1>3. ASSUME NEW j \in 1 .. Len(r), NEW k \in 1 .. Len(r), j # k
      PROVE  r[j] # r[k]
  <2> DEFINE jj == IF j < i THEN j ELSE j + 1
             kk == IF k < i THEN k ELSE k + 1
  <2>1. jj \in 1 .. Len(s) /\ kk \in 1 .. Len(s) /\ jj # kk
    BY <1>1, <1>2, <1>3
  <2>2. r[j] = s[jj] /\ r[k] = s[kk]
    BY <1>2
  <2> HIDE DEF jj, kk
  <2> QED BY <2>1, <2>2 DEF Listed
<1>4. Listed(r)
  <2>1. Len(r) <= MaxCards
    BY <1>1, <1>2, BoundTypes
  <2> QED BY <1>2, <1>3, <2>1 DEF Listed
<1>5. DOMAIN s = 1 .. Len(s) /\ DOMAIN r = 1 .. Len(r)
  BY <1>1, <1>2, LenProperties
<1>6. ASSUME NEW c \in Range(r) PROVE c \in Range(s) \ {s[i]}
  <2>1. PICK k \in 1 .. Len(r) : c = r[k]
    BY <1>5 DEF Range
  <2> DEFINE kk == IF k < i THEN k ELSE k + 1
  <2>2. kk \in 1 .. Len(s) /\ kk # i
    BY <1>1, <1>2
  <2>3. c = s[kk]
    BY <1>2, <2>1
  <2> HIDE DEF kk
  <2> QED BY <1>5, <2>2, <2>3 DEF Range, Listed
<1>7. ASSUME NEW c \in Range(s) \ {s[i]} PROVE c \in Range(r)
  <2>1. PICK kk \in 1 .. Len(s) : c = s[kk]
    BY <1>5 DEF Range
  <2>2. kk # i
    BY <2>1
  <2> DEFINE k == IF kk < i THEN kk ELSE kk - 1
  <2>3. k \in 1 .. Len(r) /\ (IF k < i THEN k ELSE k + 1) = kk
    BY <1>1, <1>2, <2>2
  <2> HIDE DEF k
  <2>4. c = r[k]
    BY <1>2, <2>1, <2>3
  <2> QED BY <1>5, <2>3, <2>4 DEF Range
<1>8. Range(r) = Range(s) \ {s[i]}
  BY <1>6, <1>7
<1> QED BY <1>2, <1>4, <1>8 DEF r

\* The empty list is one.
LEMMA ListedEmpty ==
    Listed(<<>>) /\ Len(<<>>) = 0 /\ Range(<<>>) = {}
<1>1. <<>> \in Seq(Cards) /\ Len(<<>>) = 0 /\ DOMAIN <<>> = {}
  BY EmptySeq
<1> QED BY <1>1, BoundTypes DEF Listed, Range

-----------------------------------------------------------------------------
(***************************************************************************)
(* The server                                                              *)
(***************************************************************************)

\* Nobody but the server, and a deletion, touches its cards.
LEMMA ServerSteps ==
    ASSUME Next
    PROVE  \/ UNCHANGED server
           \/ ServerAddsCard
           \/ \E c \in Cards : ServerDeletes(c)
           \/ \E d \in dels : deleteFails(d)
           \/ \E row \in Cards : commitDelete(row)
<1>1. CASE Answers
  BY <1>1 DEF Answers, listArrives, listFails, deleteSucceeds, strayEnds,
     tokenFails, addCardFails, tokenSucceeds, addCardSucceeds, PopAddCard,
     server
<1>2. CASE ~Answers
  BY <1>2 DEF Next, Relaunch, sendRequest, btnBackPressed, btnAddCardPressed,
     btnDonePressed, OpenWallet, addCardBackPressed, PopAddCard, didSelectRowAt,
     ServerAnswersList, server
<1> QED BY <1>1, <1>2

\* What the server keeps.
LEMMA ServerSafe ==
    ASSUME TypeOK, ServerInv, Next
    PROVE  ServerInv'
<1>1. /\ cards \in Seq(Cards) /\ Len(cards) \in Nat /\ nextCard \in Nat
      /\ nextCard <= MaxCards + 1 /\ nextCard >= 1
      /\ \A k \in 1 .. Len(cards) : cards[k] \in Cards
  BY LenProperties, ElementOfSeq, BoundTypes DEF TypeOK
<1>2. CASE UNCHANGED server
  BY <1>2 DEF server, ServerInv
<1>3. CASE ServerAddsCard
  <2>1. /\ nextCard <= MaxCards /\ cards' = Append(cards, nextCard)
        /\ nextCard' = nextCard + 1 /\ toDelete' = toDelete
    BY <1>3 DEF ServerAddsCard
  <2>2. nextCard \in Cards
    BY <1>1, <2>1, BoundTypes DEF Cards
  <2>3. /\ cards' \in Seq(Cards) /\ Len(cards') = Len(cards) + 1
        /\ \A k \in 1 .. Len(cards) : cards'[k] = cards[k]
        /\ cards'[Len(cards) + 1] = nextCard
    BY <1>1, <2>1, <2>2, AppendProperties
  <2>4. ASSUME NEW k \in 1 .. Len(cards')
        PROVE  /\ k \in 1 .. Len(cards) \/ k = Len(cards) + 1
               /\ cards'[k] < nextCard'
    <3>1. CASE k \in 1 .. Len(cards)
      <4>1. cards[k] < nextCard /\ cards[k] \in Nat
        BY <1>1, <3>1, BoundTypes DEF ServerInv, Cards
      <4> QED BY <1>1, <2>1, <2>3, <3>1, <4>1
    <3>2. CASE k = Len(cards) + 1
      BY <1>1, <2>1, <2>3, <3>2
    <3> QED BY <1>1, <2>3, <3>1, <3>2
  <2>5. ASSUME NEW j \in 1 .. Len(cards'), NEW k \in 1 .. Len(cards'), j # k
        PROVE  cards'[j] # cards'[k]
    <3>1. \A m \in 1 .. Len(cards) : cards[m] \in Nat /\ cards[m] < nextCard
      BY <1>1, BoundTypes DEF ServerInv, Cards
    <3>2. CASE j \in 1 .. Len(cards) /\ k \in 1 .. Len(cards)
      BY <2>3, <2>5, <3>2 DEF ServerInv, Listed
    <3>3. CASE j = Len(cards) + 1 \/ k = Len(cards) + 1
      <4>1. \A m \in 1 .. Len(cards) : cards'[m] # nextCard
        BY <1>1, <2>3, <3>1
      <4> QED BY <1>1, <2>3, <2>4, <2>5, <3>3, <4>1
    <3> QED BY <2>4, <3>2, <3>3
  <2>6. Len(cards') < nextCard' /\ Len(cards') <= MaxCards
    BY <1>1, <2>1, <2>3, BoundTypes DEF ServerInv
  <2>7. Range(cards) \subseteq Range(cards')
    <3>1. /\ DOMAIN cards = 1 .. Len(cards) /\ DOMAIN cards' = 1 .. Len(cards')
          /\ 1 .. Len(cards) \subseteq 1 .. Len(cards')
      BY <1>1, <2>3, LenProperties
    <3> QED BY <2>3, <3>1 DEF Range
  <2> QED BY <2>1, <2>3, <2>4, <2>5, <2>6, <2>7 DEF ServerInv, Listed
<1>4. CASE \E c \in Cards : ServerDeletes(c)
  <2>1. PICK c \in Cards, k \in 1 .. Len(cards) :
            /\ toDelete' = toDelete \ {c} /\ cards[k] = c
            /\ cards' = RemoveAt(cards, k) /\ nextCard' = nextCard
    BY <1>4 DEF ServerDeletes
  <2>2. /\ Listed(cards') /\ Len(cards') = Len(cards) - 1
        /\ \A j \in 1 .. Len(cards) - 1 :
              cards'[j] = cards[IF j < k THEN j ELSE j + 1]
        /\ Range(cards') = Range(cards) \ {c}
    BY <2>1, ListedRemove DEF ServerInv
  <2>3. ASSUME NEW j \in 1 .. Len(cards') PROVE cards'[j] < nextCard
    <3> DEFINE jj == IF j < k THEN j ELSE j + 1
    <3>1. jj \in 1 .. Len(cards) /\ cards'[j] = cards[jj]
      BY <1>1, <2>2
    <3> HIDE DEF jj
    <3> QED BY <3>1 DEF ServerInv
  <2>4. Len(cards') < nextCard
    BY <1>1, <2>2 DEF ServerInv
  <2> QED BY <2>1, <2>2, <2>3, <2>4 DEF ServerInv
<1>5. CASE \E d \in dels : deleteFails(d)
  BY <1>5 DEF ServerInv, deleteFails
<1>6. CASE \E row \in Cards : commitDelete(row)
  BY <1>6 DEF ServerInv, commitDelete, deleteCardWithAPI
<1> QED BY <1>2, <1>3, <1>4, <1>5, <1>6, ServerSteps

\* The cards that stay on file only become fewer when one is to be deleted.
LEMMA FiledSteps ==
    ASSUME TypeOK, ServerInv, Next
    PROVE  \/ Filed \subseteq Filed'
           \/ \E row \in Cards : /\ commitDelete(row)
                                 /\ Filed \ {cardList[row]} \subseteq Filed'
<1>1. CASE UNCHANGED server
  BY <1>1 DEF server, Filed
<1>2. CASE ServerAddsCard
  <2>1. cards' = Append(cards, nextCard) /\ toDelete' = toDelete
        /\ nextCard <= MaxCards /\ cards \in Seq(Cards) /\ nextCard \in Cards
    BY <1>2, BoundTypes DEF ServerAddsCard, TypeOK, Cards
  <2>2. /\ cards' \in Seq(Cards) /\ Len(cards') = Len(cards) + 1
        /\ \A k \in 1 .. Len(cards) : cards'[k] = cards[k]
    BY <2>1, AppendProperties
  <2>3. /\ DOMAIN cards = 1 .. Len(cards) /\ DOMAIN cards' = 1 .. Len(cards')
        /\ 1 .. Len(cards) \subseteq 1 .. Len(cards')
    BY <2>1, <2>2, LenProperties
  <2>4. Range(cards) \subseteq Range(cards')
    BY <2>2, <2>3 DEF Range
  <2> QED BY <2>1, <2>4 DEF Filed
<1>3. CASE \E c \in Cards : ServerDeletes(c)
  <2>1. PICK c \in Cards, k \in 1 .. Len(cards) :
            /\ c \in toDelete /\ toDelete' = toDelete \ {c} /\ cards[k] = c
            /\ cards' = RemoveAt(cards, k)
    BY <1>3 DEF ServerDeletes
  <2>2. Range(cards') = Range(cards) \ {c}
    BY <2>1, ListedRemove DEF ServerInv
  <2> QED BY <2>1, <2>2 DEF Filed
<1>4. CASE \E d \in dels : deleteFails(d)
  BY <1>4 DEF deleteFails, Filed
<1>5. ASSUME NEW row \in Cards, commitDelete(row)
      PROVE  Filed \ {cardList[row]} \subseteq Filed'
  BY <1>5 DEF commitDelete, deleteCardWithAPI, Filed
<1> QED BY <1>1, <1>2, <1>3, <1>4, <1>5, ServerSteps

-----------------------------------------------------------------------------
(***************************************************************************)
(* Lists and rows                                                          *)
(***************************************************************************)

\* What a step does to the calls for the list.
LEMMA ListSteps ==
    ASSUME Next
    PROVE  \/ lists' = lists
           \/ lists' = <<>>
           \/ Len(lists) < MaxLists /\ lists' = Append(lists, Asked)
           \/ \E i \in 1 .. Len(lists) : lists' = RemoveAt(lists, i)
           \/ \E i \in 1 .. Len(lists) : lists' =
                  [lists EXCEPT ![i] = [answered |-> TRUE, cards |-> cards]]
<1>1. CASE Answers
  BY <1>1 DEF Answers, listArrives, listFails, deleteSucceeds, deleteFails,
     strayEnds, tokenFails, addCardFails, tokenSucceeds, addCardSucceeds,
     PopAddCard, getStripeCardList
<1>2. CASE ~Answers
  BY <1>2 DEF Next, Relaunch, sendRequest, btnBackPressed, btnAddCardPressed,
     btnDonePressed, OpenWallet, addCardBackPressed, PopAddCard, didSelectRowAt,
     ServerAnswersList, getStripeCardList, commitDelete, ServerDeletes,
     ServerAddsCard
<1> QED BY <1>1, <1>2

\* The calls for the list carry lists of cards, and are as many as allowed.
LEMMA ListsSafe ==
    ASSUME TypeOK, ServerInv, ListsInv, Next
    PROVE  /\ lists' \in Seq(Lists) /\ Len(lists') <= MaxLists
           /\ \A i \in 1 .. Len(lists') : Listed(lists'[i].cards)
<1>1. /\ lists \in Seq(Lists) /\ Len(lists) <= MaxLists /\ Len(lists) \in Nat
      /\ \A i \in 1 .. Len(lists) : Listed(lists[i].cards)
      /\ MaxLists \in Nat
  BY LenProperties, BoundTypes DEF TypeOK, ListsInv
<1>2. CASE lists' = lists
  BY <1>1, <1>2
<1>3. CASE lists' = <<>>
  BY <1>1, <1>3, EmptySeq
<1>4. CASE Len(lists) < MaxLists /\ lists' = Append(lists, Asked)
  <2>1. Asked \in Lists /\ Listed(Asked.cards)
    BY ListedEmpty, EmptySeq DEF Asked, Lists
  <2>2. /\ lists' \in Seq(Lists) /\ Len(lists') = Len(lists) + 1
        /\ \A i \in 1 .. Len(lists) : lists'[i] = lists[i]
        /\ lists'[Len(lists) + 1] = Asked
    BY <1>1, <1>4, <2>1, AppendProperties
  <2>3. \A i \in 1 .. Len(lists') : i \in 1 .. Len(lists) \/ i = Len(lists) + 1
    BY <1>1, <2>2
  <2> QED BY <1>1, <1>4, <2>1, <2>2, <2>3
<1>5. ASSUME NEW i \in 1 .. Len(lists), lists' = RemoveAt(lists, i)
      PROVE  /\ lists' \in Seq(Lists) /\ Len(lists') <= MaxLists
             /\ \A j \in 1 .. Len(lists') : Listed(lists'[j].cards)
  <2>1. /\ lists' \in Seq(Lists) /\ Len(lists') = Len(lists) - 1
        /\ \A k \in 1 .. Len(lists) - 1 :
              lists'[k] = lists[IF k < i THEN k ELSE k + 1]
    BY <1>1, <1>5, RemoveAtIs
  <2>2. ASSUME NEW j \in 1 .. Len(lists') PROVE Listed(lists'[j].cards)
    <3> DEFINE jj == IF j < i THEN j ELSE j + 1
    <3>1. jj \in 1 .. Len(lists) /\ lists'[j] = lists[jj]
      BY <1>1, <2>1
    <3> HIDE DEF jj
    <3> QED BY <1>1, <3>1
  <2>3. Len(lists') <= MaxLists
    BY <1>1, <2>1
  <2> QED BY <2>1, <2>2, <2>3
<1>6. ASSUME NEW i \in 1 .. Len(lists),
             lists' = [lists EXCEPT ![i] = [answered |-> TRUE, cards |-> cards]]
      PROVE  /\ lists' \in Seq(Lists) /\ Len(lists') <= MaxLists
             /\ \A j \in 1 .. Len(lists') : Listed(lists'[j].cards)
  <2> DEFINE r == [answered |-> TRUE, cards |-> cards]
  <2>1. r \in Lists /\ r.cards = cards /\ Listed(cards)
    BY DEF Lists, TypeOK, ServerInv
  <2> HIDE DEF r
  <2>2. lists' = [lists EXCEPT ![i] = r]
    BY <1>6 DEF r
  <2>3. /\ lists' \in Seq(Lists) /\ Len(lists') = Len(lists)
        /\ \A j \in 1 .. Len(lists) : lists'[j] = IF j = i THEN r ELSE lists[j]
    BY <1>1, <2>1, <2>2, ExceptSeq
  <2> QED BY <1>1, <2>1, <2>3
<1> QED BY <1>2, <1>3, <1>4, <1>5, <1>6, ListSteps

\* What a step does to the list shown and to the table.
LEMMA RowSteps ==
    ASSUME TypeOK, Next
    PROVE  \/ cardList' = cardList /\ rows' = rows
           \/ cardList' = cardList /\ rows' = Len(cardList)
           \/ cardList' = <<>> /\ rows' \in {0, rows}
           \/ \E i \in 1 .. Len(lists) : /\ cardList' = lists[i].cards
                                         /\ rows' = Len(lists[i].cards)
           \/ \E d \in dels : /\ d.row <= Len(cardList) /\ rows = Len(cardList)
                              /\ cardList' = RemoveAt(cardList, d.row)
                              /\ rows' = rows - 1
<1>1. CASE \E d \in dels : deleteSucceeds(d)
  <2>1. PICK d \in dels : deleteSucceeds(d)
    BY <1>1
  <2>2. CASE d.row > Len(cardList) \/ rows # Len(cardList)
    BY <2>1, <2>2 DEF deleteSucceeds
  <2>3. CASE ~(d.row > Len(cardList)) /\ rows = Len(cardList)
    <3>1. d.row \in Int /\ Len(cardList) \in Int
      BY LenProperties, BoundTypes DEF TypeOK
    <3> QED BY <2>1, <2>3, <3>1 DEF deleteSucceeds
  <2> QED BY <2>2, <2>3
<1>2. CASE Answers /\ ~ \E d \in dels : deleteSucceeds(d)
  BY <1>2 DEF Answers, listArrives, listFails, deleteFails,
     strayEnds, tokenFails, addCardFails, tokenSucceeds, addCardSucceeds,
     PopAddCard, wallet
<1>3. CASE ~Answers
  BY <1>3 DEF Next, Relaunch, sendRequest, btnBackPressed, btnAddCardPressed,
     btnDonePressed, OpenWallet, addCardBackPressed, PopAddCard, didSelectRowAt,
     ServerAnswersList, commitDelete, ServerDeletes, ServerAddsCard, wallet
<1> QED BY <1>1, <1>2, <1>3

\* The list shown is a list of cards, and the table follows it.
LEMMA RowsSafe ==
    ASSUME TypeOK, ServerInv, ListsInv, TableMatchesList, Next
    PROVE  Listed(cardList') /\ rows' \in 0 .. MaxCards /\ TableMatchesList'
<1>1. /\ Listed(cardList) /\ Len(cardList) \in Nat /\ Len(cardList) <= MaxCards
      /\ rows \in 0 .. MaxCards /\ MaxCards \in Nat
  BY LenProperties, BoundTypes DEF TypeOK, ListsInv, Listed
<1>2. CASE cardList' = cardList /\ rows' = rows
  BY <1>1, <1>2 DEF TableMatchesList
<1>3. CASE cardList' = cardList /\ rows' = Len(cardList)
  BY <1>1, <1>3 DEF TableMatchesList
<1>4. CASE cardList' = <<>> /\ rows' \in {0, rows}
  BY <1>1, <1>4, ListedEmpty DEF TableMatchesList
<1>5. ASSUME NEW i \in 1 .. Len(lists), cardList' = lists[i].cards,
             rows' = Len(lists[i].cards)
      PROVE  /\ Listed(cardList') /\ rows' \in 0 .. MaxCards
             /\ TableMatchesList'
  <2>1. Listed(lists[i].cards)
    BY DEF ListsInv
  <2>2. Len(lists[i].cards) \in Nat /\ Len(lists[i].cards) <= MaxCards
    BY <2>1, LenProperties DEF Listed
  <2> QED BY <1>1, <1>5, <2>1, <2>2 DEF TableMatchesList
<1>6. ASSUME NEW d \in dels, d.row <= Len(cardList), rows = Len(cardList),
             cardList' = RemoveAt(cardList, d.row), rows' = rows - 1
      PROVE  /\ Listed(cardList') /\ rows' \in 0 .. MaxCards
             /\ TableMatchesList'
  <2>1. d.row \in 1 .. Len(cardList)
    BY <1>1, <1>6 DEF TypeOK
  <2>2. Listed(cardList') /\ Len(cardList') = Len(cardList) - 1
    BY <1>1, <1>6, <2>1, ListedRemove
  <2>3. rows' \in 0 .. MaxCards
    BY <1>1, <1>6, <2>1
  <2> QED BY <1>6, <2>2, <2>3 DEF TableMatchesList
<1> QED BY <1>2, <1>3, <1>4, <1>5, <1>6, RowSteps

-----------------------------------------------------------------------------
(***************************************************************************)
(* Types                                                                   *)
(***************************************************************************)

Dels == [row : 1 .. MaxCards, card : Cards, moved : BOOLEAN]

\* The list of a deletion has moved: it is still a deletion of its row.
LEMMA MovedIs ==
    ASSUME NEW ds, ds \subseteq Dels
    PROVE  /\ Moved(ds) \subseteq Dels /\ \A d \in Moved(ds) : d.moved
           /\ ds = {} => Moved(ds) = {}
           /\ (\A d, e \in ds : d = e) => \A d, e \in Moved(ds) : d = e
<1>1. ASSUME NEW d \in ds
      PROVE  /\ [d EXCEPT !.moved = TRUE] \in Dels
             /\ [d EXCEPT !.moved = TRUE].moved
  <2>1. d \in Dels
    OBVIOUS
  <2> QED BY <2>1 DEF Dels
<1> QED BY <1>1 DEF Moved

\* The screens, and the call of the add-card screen.
LEMMA ScreenSafe ==
    ASSUME TypeOK, Next
    PROVE  /\ stack' \in {<<>>, <<"wallet">>, <<"wallet", "add">>, <<"add">>}
           /\ adding' \in {"none", "token", "asked", "taken"}
<1>1. CASE Answers
  BY <1>1 DEF TypeOK, Answers, listArrives, listFails, deleteFails, deleteSucceeds,
     strayEnds, tokenFails, addCardFails, tokenSucceeds, addCardSucceeds,
     PopAddCard, endDeletion, removeActivityIndicator
<1>2. CASE ~Answers
  BY <1>2 DEF TypeOK, Next, Relaunch, sendRequest, btnBackPressed, btnAddCardPressed,
     btnDonePressed, OpenWallet, addCardBackPressed, PopAddCard, didSelectRowAt,
     ServerAnswersList, commitDelete, ServerDeletes, ServerAddsCard,
     deleteCardWithAPI, removeActivityIndicator
<1> QED BY <1>1, <1>2

\* The flags.
LEMMA FlagsSafe ==
    ASSUME TypeOK, Next
    PROVE  /\ stray' \in BOOLEAN /\ spinner' \in BOOLEAN
           /\ upset' \in BOOLEAN /\ revisited' \in BOOLEAN /\ fault' \in BOOLEAN
<1>1. CASE Answers
  <2> USE DEF Answers, listArrives, listFails, deleteFails, deleteSucceeds,
         strayEnds, tokenFails, addCardFails, tokenSucceeds, addCardSucceeds,
         PopAddCard, endDeletion, removeActivityIndicator
  <2>1. stray' \in BOOLEAN
    BY <1>1, Zenon DEF TypeOK
  <2>2. spinner' \in BOOLEAN
    BY <1>1, Zenon DEF TypeOK
  <2>3. upset' \in BOOLEAN
    BY <1>1, Zenon DEF TypeOK
  <2>4. revisited' \in BOOLEAN
    BY <1>1, Zenon DEF TypeOK
  <2>5. fault' \in BOOLEAN
    BY <1>1, Zenon DEF TypeOK
  <2> QED BY <2>1, <2>2, <2>3, <2>4, <2>5
<1>2. CASE ~Answers
  <2> USE DEF Next, Relaunch, sendRequest, btnBackPressed, btnAddCardPressed,
         btnDonePressed, OpenWallet, addCardBackPressed, PopAddCard,
         didSelectRowAt, ServerAnswersList, commitDelete, ServerDeletes,
         ServerAddsCard, deleteCardWithAPI, removeActivityIndicator
  <2>1. stray' \in BOOLEAN
    BY <1>2, Zenon DEF TypeOK
  <2>2. spinner' \in BOOLEAN
    BY <1>2, Zenon DEF TypeOK
  <2>3. upset' \in BOOLEAN
    BY <1>2, Zenon DEF TypeOK
  <2>4. revisited' \in BOOLEAN
    BY <1>2, Zenon DEF TypeOK
  <2>5. fault' \in BOOLEAN
    BY <1>2, Zenon DEF TypeOK
  <2> QED BY <2>1, <2>2, <2>3, <2>4, <2>5
<1> QED BY <1>1, <1>2

\* What a step does to the selection.
LEMMA SelectionSteps ==
    ASSUME TypeOK, Next
    PROVE  \/ UNCHANGED <<selectedIndex, userStripeId>>
           \/ selectedIndex' = None /\ userStripeId' = None
           \/ /\ selectedIndex' = defaults.card /\ userStripeId' = userStripeId
              /\ stack # <<"wallet">>
           \/ \E row \in Cards : didSelectRowAt(row) \/ commitDelete(row)
<1>1. Len(stack) = 2 => stack # <<"wallet">>
  OBVIOUS
<1>2. <<>> # <<"wallet">>
  OBVIOUS
<1>3. CASE Answers
  BY <1>1, <1>3 DEF Answers, listArrives, listFails, deleteFails, deleteSucceeds,
     strayEnds, tokenFails, addCardFails, tokenSucceeds, addCardSucceeds,
     PopAddCard, wallet
<1>4. CASE ~Answers
  BY <1>1, <1>2, <1>4 DEF Next, Relaunch, sendRequest, btnBackPressed, btnAddCardPressed,
     btnDonePressed, OpenWallet, addCardBackPressed, PopAddCard,
     ServerAnswersList, ServerDeletes, ServerAddsCard, wallet, At
<1> QED BY <1>3, <1>4

\* A row that is selected or whose deletion selects another: the row is one of
\* the list.
LEMMA SelectionMade ==
    ASSUME TypeOK, NEW row \in Cards, didSelectRowAt(row) \/ commitDelete(row)
    PROVE  \/ UNCHANGED <<selectedIndex, userStripeId>>
           \/ selectedIndex' = None /\ userStripeId' = None
           \/ \E k \in 1 .. Len(cardList) : /\ selectedIndex' = cardList[k]
                                            /\ userStripeId' = Customer
                                            /\ didSelectRowAt(row) \/ k = row - 1
<1>1. row \in Nat /\ row >= 1 /\ Len(cardList) \in Nat
  BY LenProperties, BoundTypes DEF Cards, TypeOK
<1>2. CASE didSelectRowAt(row)
  <2>1. CASE row > Len(cardList)
    BY <1>2, <2>1 DEF didSelectRowAt, wallet
  <2>2. CASE ~(row > Len(cardList))
    <3>1. row \in 1 .. Len(cardList)
      BY <1>1, <2>2
    <3> QED BY <1>2, <2>2, <3>1 DEF didSelectRowAt, select
  <2> QED BY <2>1, <2>2
<1>3. CASE commitDelete(row)
  <2>1. CASE \/ row > Len(cardList)
             \/ row = 1 /\ cardList[1] = selectedIndex /\ Len(cardList) > 1
    BY <1>3, <2>1 DEF commitDelete
  <2>2. CASE ~ \/ row > Len(cardList)
               \/ row = 1 /\ cardList[1] = selectedIndex /\ Len(cardList) > 1
    <3>1. reselect(row)
      BY <1>3, <2>2 DEF commitDelete
    <3>2. CASE cardList[row] # selectedIndex
      BY <3>1, <3>2 DEF reselect
    <3>3. CASE cardList[row] = selectedIndex /\ Len(cardList) = 1
      BY <3>1, <3>3 DEF reselect
    <3>4. CASE cardList[row] = selectedIndex /\ Len(cardList) # 1
      <4>1. row - 1 \in 1 .. Len(cardList)
        BY <1>1, <2>2, <3>4
      <4> QED BY <3>1, <3>4, <4>1 DEF reselect, select
    <3> QED BY <3>2, <3>3, <3>4
  <2> QED BY <2>1, <2>2
<1> QED BY <1>2, <1>3

\* What a step does to the card that is remembered.
LEMMA DefaultsSteps ==
    ASSUME Next
    PROVE  \/ defaults' = defaults
           \/ tokenFails /\ defaults' = [defaults EXCEPT !.count = 1]
           \/ btnBackPressed \/ btnAddCardPressed
<1>1. CASE Answers
  BY <1>1 DEF Answers, listArrives, listFails, deleteFails, deleteSucceeds,
     strayEnds, tokenFails, addCardFails, tokenSucceeds, addCardSucceeds,
     PopAddCard
<1>2. CASE ~Answers
  BY <1>2 DEF Next, Relaunch, sendRequest,
     btnDonePressed, OpenWallet, addCardBackPressed, PopAddCard, didSelectRowAt,
     ServerAnswersList, commitDelete, ServerDeletes, ServerAddsCard
<1> QED BY <1>1, <1>2

\* What a step does to the deletions: it adds one under the indicator, ends
\* one, moves the list under all of them, or drops them with the wallet.
LEMMA DelsSteps ==
    ASSUME Next
    PROVE  \/ /\ dels' = dels /\ cardList' = cardList
              /\ spinner' = spinner \/ ~spinner
           \/ dels' = {}
           \/ /\ dels' = Moved(dels)
              /\ spinner' = spinner \/ (~upset' => dels = {})
           \/ \E d \in dels : /\ deleteSucceeds(d) \/ deleteFails(d)
                              /\ endDeletion(d)
           \/ \E row \in Cards : commitDelete(row)
<1>1. CASE Answers
  BY <1>1 DEF Answers, listArrives, listFails, deleteFails, deleteSucceeds,
     strayEnds, tokenFails, addCardFails, tokenSucceeds, addCardSucceeds,
     PopAddCard, removeActivityIndicator, wallet
<1>2. CASE ~Answers
  BY <1>2 DEF Next, Relaunch, sendRequest, btnBackPressed, btnAddCardPressed,
     btnDonePressed, OpenWallet, addCardBackPressed, PopAddCard, didSelectRowAt,
     ServerAnswersList, ServerDeletes, ServerAddsCard,
     removeActivityIndicator, Free, wallet
<1> QED BY <1>1, <1>2

\* The deletions stay deletions of a row.
LEMMA DelsType ==
    ASSUME TypeOK, ListsInv, Next
    PROVE  dels' \subseteq Dels
<1>1. /\ dels \subseteq Dels /\ Moved(dels) \subseteq Dels
      /\ cardList \in Seq(Cards) /\ Len(cardList) \in Nat
  BY MovedIs, LenProperties DEF TypeOK, Dels
<1>2. ASSUME NEW d \in dels, endDeletion(d)
      PROVE  dels' \subseteq Dels
  <2>1. dels \ {d} \subseteq Dels
    BY <1>1
  <2>2. Moved(dels \ {d}) \subseteq Dels
    BY <2>1, MovedIs
  <2> QED BY <1>2, <2>1, <2>2 DEF endDeletion
<1>3. ASSUME NEW row \in Cards, commitDelete(row)
      PROVE  dels' \subseteq Dels
  <2>1. CASE /\ ~(row > Len(cardList))
             /\ dels' = dels \union {[row |-> row, card |-> cardList[row],
                                      moved |-> FALSE]}
    <3>1. row \in 1 .. Len(cardList) /\ row \in 1 .. MaxCards
      BY <1>1, <2>1, BoundTypes DEF Cards
    <3>2. cardList[row] \in Cards
      BY <1>1, <3>1, ElementOfSeq
    <3>3. [row |-> row, card |-> cardList[row], moved |-> FALSE] \in Dels
      BY <3>1, <3>2 DEF Dels
    <3> QED BY <1>1, <2>1, <3>3
  <2>2. \/ dels' = dels \/ dels' = Moved(dels)
        \/ /\ ~(row > Len(cardList))
           /\ dels' = dels \union {[row |-> row, card |-> cardList[row],
                                    moved |-> FALSE]}
    BY <1>3 DEF commitDelete, deleteCardWithAPI, removeActivityIndicator
  <2> QED BY <1>1, <2>1, <2>2
<1> QED BY <1>1, <1>2, <1>3, DelsSteps

\* The selection and the remembered card are cards, or nothing.
LEMMA SelectionType ==
    ASSUME TypeOK, ListsInv, Next
    PROVE  /\ selectedIndex' \in Cards \union {None}
           /\ userStripeId' \in {None, Customer}
           /\ defaults' \in [card : Cards \union {None},
                             customer : {None, Customer}, count : None .. MaxCards]
<1>1. /\ cardList \in Seq(Cards) /\ Len(cardList) \in 0 .. MaxCards
      /\ \A k \in 1 .. Len(cardList) : cardList[k] \in Cards
  BY LenProperties, ElementOfSeq, BoundTypes DEF TypeOK, ListsInv, Listed
<1>2. /\ selectedIndex' \in Cards \union {None}
      /\ userStripeId' \in {None, Customer}
  <2>1. CASE \E row \in Cards : didSelectRowAt(row) \/ commitDelete(row)
    BY <1>1, <2>1, SelectionMade DEF TypeOK
  <2>2. CASE selectedIndex' = defaults.card /\ userStripeId' = userStripeId
    BY <2>2 DEF TypeOK
  <2> QED BY <2>1, <2>2, SelectionSteps DEF TypeOK
<1>3. defaults' \in [card : Cards \union {None},
                     customer : {None, Customer}, count : None .. MaxCards]
  <2>1. CASE btnBackPressed \/ btnAddCardPressed
    <3>1. viewWillDisappear
      BY <2>1 DEF btnBackPressed, btnAddCardPressed
    <3>2. 0 \in None .. MaxCards /\ Len(cardList) \in None .. MaxCards
      BY <1>1, BoundTypes
    <3>3. \/ defaults' = [card |-> None, customer |-> None, count |-> 0]
          \/ defaults' = [card |-> selectedIndex, customer |-> userStripeId,
                          count |-> Len(cardList)]
      BY <3>1 DEF viewWillDisappear
    <3>4. /\ selectedIndex \in Cards \union {None}
          /\ userStripeId \in {None, Customer}
      BY DEF TypeOK
    <3> QED BY <3>2, <3>3, <3>4
  <2>2. CASE defaults' = [defaults EXCEPT !.count = 1]
    <3>1. 1 \in None .. MaxCards
      BY BoundTypes
    <3>2. defaults \in [card : Cards \union {None},
                        customer : {None, Customer}, count : None .. MaxCards]
      BY DEF TypeOK
    <3> QED BY <2>2, <3>1, <3>2
  <2> QED BY <2>1, <2>2, DefaultsSteps DEF TypeOK
<1> QED BY <1>2, <1>3

\* Every step keeps the types.
LEMMA TypeSafe ==
    ASSUME TypeOK, ServerInv, ListsInv, TableMatchesList, Next
    PROVE  TypeOK'
<1>1. cards' \in Seq(Cards) /\ toDelete' \subseteq Cards
  <2>1. Listed(cards') /\ toDelete' \subseteq Range(cards')
    BY ServerSafe DEF ServerInv
  <2>2. cards' \in Seq(Cards)
    BY <2>1 DEF Listed
  <2>3. Range(cards') \subseteq Cards
    BY <2>2, LenProperties, ElementOfSeq DEF Range
  <2> QED BY <2>1, <2>2, <2>3
<1>2. nextCard' \in 1 .. MaxCards + 1
  <2>1. nextCard' = nextCard \/ (nextCard <= MaxCards /\ nextCard' = nextCard + 1)
    BY ServerSteps DEF server, ServerAddsCard, ServerDeletes, deleteFails,
       commitDelete
  <2> QED BY <2>1, BoundTypes DEF TypeOK
<1>3. cardList' \in Seq(Cards) /\ rows' \in 0 .. MaxCards
  BY RowsSafe DEF Listed
<1>4. lists' \in Seq(Lists) /\ Len(lists') <= MaxLists
  BY ListsSafe
<1>5. dels' \subseteq [row : 1 .. MaxCards, card : Cards, moved : BOOLEAN]
  BY DelsType DEF Dels
<1> QED
  BY <1>1, <1>2, <1>3, <1>4, <1>5, SelectionType, ScreenSafe, FlagsSafe DEF TypeOK

-----------------------------------------------------------------------------
(***************************************************************************)
(* Deletions, customers and cards on file                                  *)
(***************************************************************************)

\* A deletion under which the list has not moved is covered by the indicator
\* and knows its card.
LEMMA DelsSafe ==
    ASSUME TypeOK, ListsInv, DelsInv, Next
    PROVE  DelsInv'
<1>1. dels \subseteq Dels /\ Len(cardList) \in Nat
  BY LenProperties DEF TypeOK, Dels
<1>2. CASE dels' = {}
  BY <1>2 DEF DelsInv
<1>3. CASE dels' = Moved(dels)
  BY <1>1, <1>3, MovedIs DEF DelsInv
<1>4. ASSUME NEW d \in dels, endDeletion(d)
      PROVE  DelsInv'
  <2>1. dels \ {d} \subseteq Dels
    BY <1>1
  <2>2. CASE dels' = Moved(dels \ {d})
    BY <2>1, <2>2, MovedIs DEF DelsInv
  <2>3. CASE dels' = dels \ {d} /\ ~spinner
    BY <2>3 DEF DelsInv
  <2> QED BY <1>4, <2>2, <2>3 DEF endDeletion
<1>5. ASSUME NEW row \in Cards, commitDelete(row)
      PROVE  DelsInv'
  <2>1. ~spinner /\ cardList' = cardList
    BY <1>5 DEF commitDelete, Free
  <2>2. \A d \in dels : d.moved
    BY <2>1 DEF DelsInv
  <2>3. CASE dels' = dels
    BY <2>2, <2>3 DEF DelsInv
  <2>4. CASE dels' = Moved(dels)
    BY <1>1, <2>4, MovedIs DEF DelsInv
  <2>5. CASE ~(row > Len(cardList)) /\ deleteCardWithAPI(row)
    <3> DEFINE n == [row |-> row, card |-> cardList[row], moved |-> FALSE]
    <3>1. /\ n.row = row /\ n.card = cardList[row] /\ dels' = dels \union {n}
      BY <2>5 DEF deleteCardWithAPI
    <3>2. spinner'
      BY <2>5 DEF deleteCardWithAPI
    <3>3. row <= Len(cardList)
      BY <1>1, <2>5, BoundTypes DEF Cards
    <3> HIDE DEF n
    <3> QED BY <2>1, <2>2, <3>1, <3>2, <3>3 DEF DelsInv
  <2> QED
    BY <1>5, <2>3, <2>4, <2>5 DEF commitDelete, removeActivityIndicator
<1>6. CASE /\ dels' = dels /\ cardList' = cardList
           /\ spinner' = spinner \/ ~spinner
  BY <1>6 DEF DelsInv
<1> QED BY <1>2, <1>3, <1>4, <1>5, <1>6, DelsSteps

\* What a step does to the screens and to what they remember.
LEMMA ScreenSteps ==
    ASSUME Next
    PROVE  \/ UNCHANGED <<stack, selectedIndex, userStripeId, defaults, revisited>>
           \/ \E online \in BOOLEAN : OpenWallet(online) \/ PopAddCard(online)
           \/ btnBackPressed \/ btnAddCardPressed \/ tokenFails \/ Relaunch
           \/ sendRequest
           \/ \E row \in Cards : didSelectRowAt(row) \/ commitDelete(row)
<1>1. CASE Answers
  BY <1>1 DEF Answers, listArrives, listFails, deleteFails, deleteSucceeds,
     strayEnds, addCardFails, tokenSucceeds, addCardSucceeds, wallet
<1>2. CASE ~Answers
  BY <1>2 DEF Next, btnDonePressed, addCardBackPressed, ServerAnswersList,
     ServerDeletes, ServerAddsCard, wallet
<1> QED BY <1>1, <1>2

\* The four stacks differ.
LEMMA Stacks ==
    /\ <<>> # <<"wallet">> /\ <<>> # <<"wallet", "add">> /\ <<>> # <<"add">>
    /\ <<"wallet">> # <<"wallet", "add">> /\ <<"wallet">> # <<"add">>
    /\ <<"wallet", "add">> # <<"add">>
    /\ Last(<<"wallet">>) # "add"
    /\ Len(<<"add">>) # 2 /\ Len(<<"wallet", "add">>) = 2 /\ Len(<<>>) # 2
    /\ Len(<<"wallet">>) # 2
BY DEF Last

\* A card is being added only while its screen is in front.
LEMMA AddingSafe ==
    ASSUME TypeOK, AddingInv, Next
    PROVE  AddingInv'
<1>1. /\ stack' = stack \/ adding' = "none" \/ adding' = adding
      /\ adding' # "none" => adding # "none" \/ btnDonePressed
      /\ adding' # "none" => stack' = stack \/ At(<<"wallet">>) \/ At(<<>>)
  <2>1. CASE Answers
    BY <2>1 DEF Answers, listArrives, listFails, deleteFails, deleteSucceeds,
       strayEnds, tokenFails, addCardFails, tokenSucceeds, addCardSucceeds,
       PopAddCard
  <2>2. CASE ~Answers
    BY <2>2 DEF Next, Relaunch, sendRequest, btnBackPressed, btnAddCardPressed,
       btnDonePressed, OpenWallet, addCardBackPressed, PopAddCard,
       didSelectRowAt, ServerAnswersList, commitDelete, ServerDeletes,
       ServerAddsCard
  <2> QED BY <2>1, <2>2
<1>2. CASE btnDonePressed
  BY <1>2, Stacks DEF btnDonePressed, AddingInv, TypeOK
<1>3. CASE ~btnDonePressed
  BY <1>1, <1>3, Stacks DEF AddingInv, At
<1> QED BY <1>2, <1>3

\* The customer goes along with the card.
LEMMA CustomerSafe ==
    ASSUME TypeOK, CustomerInv, Next
    PROVE  CustomerInv'
<1>1. CASE UNCHANGED <<stack, selectedIndex, userStripeId, defaults, revisited>>
  BY <1>1 DEF CustomerInv
<1>2. ASSUME NEW online \in BOOLEAN, OpenWallet(online)
      PROVE  CustomerInv'
  <2>1. /\ stack' = <<"wallet">> /\ selectedIndex' = defaults.card
        /\ UNCHANGED <<defaults, userStripeId>>
        /\ ~revisited' => ~revisited /\ defaults.card = None
    BY <1>2 DEF OpenWallet
  <2> QED BY <2>1, Stacks DEF CustomerInv
<1>3. ASSUME NEW online \in BOOLEAN, PopAddCard(online)
      PROVE  CustomerInv'
  <2>1. UNCHANGED <<defaults, userStripeId, revisited>>
    BY <1>3 DEF PopAddCard
  <2>2. CASE Len(stack) = 2
    <3>1. stack' = <<"wallet">> /\ selectedIndex' = defaults.card
      BY <1>3, <2>2 DEF PopAddCard
    <3>2. stack = <<"wallet", "add">>
      BY <2>2, Stacks DEF TypeOK
    <3> QED BY <2>1, <3>1, <3>2, Stacks DEF CustomerInv
  <2>3. CASE Len(stack) # 2
    <3>1. stack' = <<>> /\ selectedIndex' = selectedIndex
      BY <1>3, <2>3 DEF PopAddCard
    <3> QED BY <2>1, <3>1, Stacks DEF CustomerInv
  <2> QED BY <2>2, <2>3
<1>4. CASE btnBackPressed \/ btnAddCardPressed
  <2>1. /\ \/ stack' = <<>> /\ selectedIndex' = None /\ userStripeId' = None
           \/ UNCHANGED <<selectedIndex, userStripeId>>
        /\ revisited' = revisited
        /\ viewWillDisappear
        /\ stack' = <<"wallet", "add">> => userStripeId' = userStripeId
    BY <1>4, Stacks DEF btnBackPressed, btnAddCardPressed, wallet
  <2>2. \/ defaults'.card = None
        \/ defaults'.card = selectedIndex /\ defaults'.customer = userStripeId
    BY <2>1 DEF viewWillDisappear
  <2> QED BY <2>1, <2>2 DEF CustomerInv
<1>5. CASE tokenFails
  <2>1. /\ defaults' = [defaults EXCEPT !.count = 1]
        /\ UNCHANGED <<stack, selectedIndex, userStripeId, revisited>>
    BY <1>5 DEF tokenFails, wallet
  <2>2. defaults'.card = defaults.card /\ defaults'.customer = defaults.customer
    BY <2>1 DEF TypeOK
  <2> QED BY <2>1, <2>2 DEF CustomerInv
<1>6. CASE Relaunch
  BY <1>6, Stacks DEF Relaunch, CustomerInv
<1>7. CASE sendRequest
  BY <1>7, Stacks DEF sendRequest, CustomerInv, wallet
<1>8. ASSUME NEW row \in Cards, didSelectRowAt(row) \/ commitDelete(row)
      PROVE  CustomerInv'
  <2>1. /\ stack = <<"wallet">> /\ UNCHANGED <<stack, defaults, revisited>>
    BY <1>8 DEF didSelectRowAt, commitDelete, At
  <2> QED BY <1>8, <2>1, SelectionMade, Stacks DEF CustomerInv
<1> QED BY <1>1, <1>2, <1>3, <1>4, <1>5, <1>6, <1>7, <1>8, ScreenSteps

\* What has upset the wallet is not forgotten.
LEMMA UpsetGrows ==
    ASSUME Next, upset
    PROVE  upset'
<1>1. CASE Answers
  BY <1>1, Zenon DEF Answers, listArrives, listFails, deleteFails, deleteSucceeds,
     strayEnds, tokenFails, addCardFails, tokenSucceeds, addCardSucceeds,
     PopAddCard, removeActivityIndicator
<1>2. CASE ~Answers
  BY <1>2, Zenon DEF Next, Relaunch, sendRequest, btnBackPressed, btnAddCardPressed,
     btnDonePressed, OpenWallet, addCardBackPressed, PopAddCard,
     didSelectRowAt, ServerAnswersList, commitDelete, ServerDeletes,
     ServerAddsCard, deleteCardWithAPI, removeActivityIndicator
<1> QED BY <1>1, <1>2

\* The deletion of a row, with the indicator free: the list stays, and the
\* deletion is the only one, or none was made.
LEMMA DeleteOne ==
    ASSUME TypeOK, OneDeletion, NEW row \in Cards, commitDelete(row)
    PROVE  /\ dels = {} /\ cardList' = cardList /\ cards' = cards
           /\ stack = <<"wallet">> /\ stack' = stack
           /\ \/ dels' = {} /\ toDelete' = toDelete
              \/ /\ spinner' /\ row \in 1 .. Len(cardList)
                 /\ dels' = {[row |-> row, card |-> cardList[row], moved |-> FALSE]}
                 /\ Filed \ {cardList[row]} \subseteq Filed'
           /\ \/ UNCHANGED <<selectedIndex, toDelete>>
              \/ /\ row \in 1 .. Len(cardList)
                 /\ Filed \ {cardList[row]} \subseteq Filed'
                 /\ reselect(row)
                 /\ row # 1 \/ cardList[1] # selectedIndex \/ Len(cardList) <= 1
<1>1. /\ dels = {} /\ cardList' = cardList /\ cards' = cards
      /\ stack = <<"wallet">> /\ stack' = stack
  BY DEF commitDelete, Free, OneDeletion, At
<1>2. /\ row \in Nat /\ row >= 1 /\ Len(cardList) \in Nat
  BY LenProperties, BoundTypes DEF TypeOK, Cards
<1>3. Moved({}) = {}
  BY DEF Moved
<1>4. Filed \ {cardList[row]} \subseteq Filed'
  BY DEF commitDelete, deleteCardWithAPI, Filed
<1>5. CASE \/ row > Len(cardList)
           \/ row = 1 /\ cardList[1] = selectedIndex /\ Len(cardList) > 1
  BY <1>1, <1>5 DEF commitDelete
<1>6. CASE ~ \/ row > Len(cardList)
             \/ row = 1 /\ cardList[1] = selectedIndex /\ Len(cardList) > 1
  <2>1. row \in 1 .. Len(cardList)
    BY <1>2, <1>6
  <2>0. row # 1 \/ cardList[1] # selectedIndex \/ Len(cardList) <= 1
    BY <1>2, <1>6
  <2>2. /\ reselect(row)
        /\ deleteCardWithAPI(row)
           \/ (removeActivityIndicator /\ UNCHANGED toDelete)
    BY <1>6 DEF commitDelete
  <2>3. CASE deleteCardWithAPI(row)
    <3>1. spinner'
      BY <2>3 DEF deleteCardWithAPI
    <3>2. dels' = {[row |-> row, card |-> cardList[row], moved |-> FALSE]}
      BY <1>1, <2>3 DEF deleteCardWithAPI
    <3> QED BY <1>1, <1>4, <2>0, <2>1, <2>2, <3>1, <3>2
  <2>4. CASE removeActivityIndicator /\ UNCHANGED toDelete
    BY <1>1, <1>3, <1>4, <2>0, <2>1, <2>2, <2>4 DEF removeActivityIndicator
  <2> QED BY <2>2, <2>3, <2>4
<1> QED BY <1>5, <1>6

\* An answer to a deletion that does not upset the wallet ends the only one.
LEMMA EndOne ==
    ASSUME NEW d \in dels, deleteSucceeds(d) \/ deleteFails(d), ~upset'
    PROVE  dels = {d} /\ dels' = {}
<1>1. dels = {d}
  BY Zenon DEF deleteSucceeds, deleteFails
<1>2. endDeletion(d)
  BY DEF deleteSucceeds, deleteFails
<1>3. dels \ {d} = {} /\ Moved({}) = {}
  BY <1>1 DEF Moved
<1> QED BY <1>1, <1>2, <1>3 DEF endDeletion

\* One deletion at a time.
LEMMA OneSafe ==
    ASSUME TypeOK, OneDeletion, Next, ~upset'
    PROVE  OneDeletion'
<1>1. CASE dels' = dels /\ (spinner' = spinner \/ ~spinner)
  BY <1>1 DEF OneDeletion
<1>2. CASE dels' = {}
  BY <1>2 DEF OneDeletion
<1>3. CASE dels' = Moved(dels) /\ (spinner' = spinner \/ dels = {})
  <2>1. dels \subseteq Dels
    BY DEF TypeOK, Dels
  <2> QED BY <1>3, <2>1, MovedIs DEF OneDeletion
<1>4. ASSUME NEW row \in Cards, commitDelete(row)
      PROVE  OneDeletion'
  BY <1>4, DeleteOne DEF OneDeletion
<1> QED BY <1>1, <1>2, <1>3, <1>4, EndOne, DelsSteps

\* What a step does to the list, with the deletions it may move.
LEMMA ShownSteps ==
    ASSUME Next
    PROVE  \/ \E i \in 1 .. MaxLists : listArrives(i)
           \/ \E d \in dels : deleteSucceeds(d) \/ deleteFails(d)
           \/ \E row \in Cards : commitDelete(row)
           \/ cardList' = <<>>
           \/ /\ cardList' = cardList
              /\ dels' = dels \/ (dels' = Moved(dels) /\ (~upset' => dels = {}))
<1>1. CASE Answers
  BY <1>1 DEF Answers, listFails, strayEnds, tokenFails, addCardFails,
     tokenSucceeds, addCardSucceeds, PopAddCard, removeActivityIndicator, wallet
<1>2. CASE ~Answers
  BY <1>2 DEF Next, Relaunch, sendRequest, btnBackPressed, btnAddCardPressed,
     btnDonePressed, OpenWallet, addCardBackPressed, PopAddCard, didSelectRowAt,
     ServerAnswersList, ServerDeletes, ServerAddsCard,
     removeActivityIndicator, wallet
<1> QED BY <1>1, <1>2

\* Every row but the one being deleted stays a card on file.
LEMMA RowsFiledSafe ==
    ASSUME TypeOK, ServerInv, ListsInv, TableMatchesList, DelsInv, OneDeletion,
           RowsFiled, Next, ~upset'
    PROVE  RowsFiled'
<1>1. Len(cardList) \in Nat /\ Listed(cardList) /\ cardList \in Seq(Cards)
  BY LenProperties DEF TypeOK, ListsInv
<1>2. ASSUME NEW i \in 1 .. MaxLists, listArrives(i)
      PROVE  RowsFiled'
  <2>1. /\ i \in 1 .. Len(lists) /\ cardList' = lists[i].cards
        /\ Range(cardList') \subseteq Filed /\ Filed' = Filed
    BY <1>2 DEF listArrives, server, Filed
  <2>2. cardList' \in Seq(Cards)
    BY <2>1 DEF ListsInv, Listed
  <2>3. DOMAIN cardList' = 1 .. Len(cardList')
    BY <2>2, LenProperties
  <2> QED BY <2>1, <2>3 DEF RowsFiled, Range
<1>3. ASSUME NEW d \in dels, deleteSucceeds(d)
      PROVE  RowsFiled'
  <2>1. dels = {d} /\ dels' = {} /\ Filed' = Filed
    BY <1>3, EndOne DEF deleteSucceeds, server, Filed
  <2>2. d.row \in 1 .. MaxCards
    BY DEF TypeOK
  <2>3. \A k \in 1 .. Len(cardList) : k # d.row \/ d.moved => cardList[k] \in Filed
    BY <2>1 DEF RowsFiled
  <2>4. CASE d.row > Len(cardList) \/ rows # Len(cardList)
    <3>1. cardList' = cardList
      BY <1>3, <2>4 DEF deleteSucceeds
    <3>2. CASE d.moved
      BY <2>1, <2>3, <3>1, <3>2 DEF RowsFiled
    <3>3. CASE ~d.moved
      <4>1. d.row <= Len(cardList)
        BY <3>3 DEF DelsInv
      <4>2. cardList # <<>>
        BY <2>2, <4>1, EmptySeq
      <4> QED BY <1>1, <2>2, <2>4, <4>1, <4>2 DEF TableMatchesList
    <3> QED BY <3>2, <3>3
  <2>5. CASE ~(d.row > Len(cardList) \/ rows # Len(cardList))
    <3>1. cardList' = RemoveAt(cardList, d.row)
      BY <1>3, <2>5 DEF deleteSucceeds
    <3>2. d.row \in 1 .. Len(cardList)
      BY <1>1, <2>2, <2>5, BoundTypes
    <3>3. /\ Len(cardList') = Len(cardList) - 1
          /\ \A k \in 1 .. Len(cardList) - 1 :
                cardList'[k] = cardList[IF k < d.row THEN k ELSE k + 1]
      BY <1>1, <3>1, <3>2, ListedRemove
    <3>4. ASSUME NEW k \in 1 .. Len(cardList') PROVE cardList'[k] \in Filed
      <4> DEFINE kk == IF k < d.row THEN k ELSE k + 1
      <4>1. kk \in 1 .. Len(cardList) /\ kk # d.row /\ cardList'[k] = cardList[kk]
        BY <1>1, <3>2, <3>3
      <4> HIDE DEF kk
      <4> QED BY <2>3, <4>1
    <3> QED BY <2>1, <3>4 DEF RowsFiled
  <2> QED BY <2>4, <2>5
<1>4. ASSUME NEW d \in dels, deleteFails(d)
      PROVE  RowsFiled'
  <2>1. dels = {d}
    BY <1>4, EndOne
  <2>2. /\ cardList' = cardList /\ cards' = cards /\ d.card \in toDelete
        /\ toDelete' = toDelete \ {d.card}
    BY <1>4, Zenon DEF deleteFails, wallet
  <2>3. Filed \union {d.card} \subseteq Filed'
    BY <2>2 DEF Filed, ServerInv
  <2>4. ASSUME NEW k \in 1 .. Len(cardList) PROVE cardList[k] \in Filed'
    <3>1. CASE cardList[k] \in Filed
      BY <2>3, <3>1
    <3>2. CASE ~d.moved /\ d.row = k
      <4>1. cardList[k] = d.card
        BY <3>2 DEF DelsInv
      <4> QED BY <2>3, <4>1
    <3> QED BY <2>1, <3>1, <3>2 DEF RowsFiled
  <2> QED BY <2>2, <2>4 DEF RowsFiled
<1>5. ASSUME NEW row \in Cards, commitDelete(row)
      PROVE  RowsFiled'
  <2>1. /\ dels = {} /\ cardList' = cardList /\ cards' = cards
    BY <1>5, DeleteOne
  <2>2. \A k \in 1 .. Len(cardList) : cardList[k] \in Filed
    BY <2>1 DEF RowsFiled
  <2>3. CASE dels' = {} /\ toDelete' = toDelete
    BY <2>1, <2>2, <2>3 DEF RowsFiled, Filed
  <2>4. CASE /\ row \in 1 .. Len(cardList)
             /\ dels' = {[row |-> row, card |-> cardList[row], moved |-> FALSE]}
             /\ Filed \ {cardList[row]} \subseteq Filed'
    <3>1. \A k \in 1 .. Len(cardList) : k # row => cardList[k] \in Filed'
      BY <1>1, <2>2, <2>4 DEF Listed
    <3>2. \E d \in dels' : ~d.moved /\ d.row = row
      BY <2>4
    <3> QED BY <2>1, <3>1, <3>2 DEF RowsFiled
  <2> QED BY <1>5, <2>3, <2>4, DeleteOne
<1>6. CASE cardList' = <<>>
  BY <1>6, EmptySeq DEF RowsFiled
<1>7. CASE /\ cardList' = cardList
           /\ dels' = dels \/ (dels' = Moved(dels) /\ dels = {})
           /\ Filed \subseteq Filed'
  <2>1. Moved({}) = {}
    BY DEF Moved
  <2>2. dels' = dels
    BY <1>7, <2>1
  <2> QED BY <1>7, <2>2 DEF RowsFiled
<1> QED
  BY <1>2, <1>3, <1>4, <1>5, <1>6, <1>7, ShownSteps, FiledSteps

\* The card selected stays on file.
LEMMA SelectionSafe ==
    ASSUME TypeOK, ServerInv, ListsInv, OneDeletion, RowsFiled, SelectionFiled,
           DefaultFiled, Next
    PROVE  SelectionFiled'
<1>1. Len(cardList) \in Nat /\ Listed(cardList)
  BY LenProperties DEF TypeOK, ListsInv
<1>2. ASSUME NEW row \in Cards, commitDelete(row)
      PROVE  SelectionFiled'
  <2>1. dels = {} /\ cards' = cards
    BY <1>2, DeleteOne
  <2>2. CASE UNCHANGED <<selectedIndex, toDelete>>
    BY <2>1, <2>2 DEF SelectionFiled, Filed
  <2>3. CASE /\ row \in 1 .. Len(cardList)
             /\ Filed \ {cardList[row]} \subseteq Filed'
             /\ reselect(row)
             /\ row # 1 \/ cardList[1] # selectedIndex \/ Len(cardList) <= 1
    <3>1. CASE cardList[row] # selectedIndex
      BY <2>3, <3>1 DEF reselect, SelectionFiled
    <3>2. CASE selectedIndex' = None
      BY <3>2 DEF SelectionFiled
    <3>3. CASE cardList[row] = selectedIndex /\ selectedIndex' # None
      <4>1. Len(cardList) # 1 /\ selectedIndex' = cardList[row - 1]
        BY <2>3, <3>3 DEF reselect, select
      <4>2. row # 1
        BY <1>1, <2>3, <3>3, <4>1
      <4>3. row - 1 \in 1 .. Len(cardList) /\ row - 1 # row
        BY <1>1, <2>3, <4>2
      <4>4. cardList[row - 1] # cardList[row] /\ cardList[row - 1] \in Filed
        BY <1>1, <2>1, <2>3, <4>3 DEF Listed, RowsFiled
      <4> QED BY <2>3, <4>1, <4>4 DEF SelectionFiled
    <3> QED BY <3>1, <3>2, <3>3
  <2> QED BY <1>2, <2>2, <2>3, DeleteOne
<1>3. ASSUME NEW row \in Cards, didSelectRowAt(row)
      PROVE  SelectionFiled'
  <2>1. dels = {} /\ Filed' = Filed
    BY <1>3 DEF didSelectRowAt, server, Free, OneDeletion, Filed
  <2>2. \/ selectedIndex' = selectedIndex \/ selectedIndex' = None
        \/ \E k \in 1 .. Len(cardList) : selectedIndex' = cardList[k]
    BY <1>3, SelectionMade
  <2> QED BY <2>1, <2>2 DEF SelectionFiled, RowsFiled
<1>4. CASE /\ ~ \E row \in Cards : didSelectRowAt(row) \/ commitDelete(row)
  <2>1. Filed \subseteq Filed'
    BY <1>4, FiledSteps
  <2>2. \/ selectedIndex' = selectedIndex \/ selectedIndex' = None
        \/ selectedIndex' = defaults.card /\ stack # <<"wallet">>
    BY <1>4, SelectionSteps
  <2> QED BY <2>1, <2>2 DEF SelectionFiled, DefaultFiled
<1> QED BY <1>2, <1>3, <1>4

\* The wallet in front is left only by its own buttons, or with the app.
LEMMA WalletLeft ==
    ASSUME AddingInv, Next, stack = <<"wallet">>, stack' # stack
    PROVE  btnBackPressed \/ btnAddCardPressed \/ Relaunch
<1>1. adding = "none"
  BY Stacks DEF AddingInv
<1>2. CASE Answers
  BY <1>1, <1>2 DEF Answers, listArrives, listFails, deleteFails, deleteSucceeds,
     strayEnds, tokenFails, addCardFails, tokenSucceeds, addCardSucceeds
<1>3. CASE ~Answers
  BY <1>3, Stacks DEF Next, sendRequest, btnDonePressed, OpenWallet,
     addCardBackPressed, didSelectRowAt, ServerAnswersList, commitDelete,
     ServerDeletes, ServerAddsCard, At
<1> QED BY <1>2, <1>3

\* The card remembered stays on file while no wallet is in front.
LEMMA DefaultSafe ==
    ASSUME TypeOK, ServerInv, AddingInv, SelectionFiled, DefaultFiled, Next,
           ~upset'
    PROVE  DefaultFiled'
<1>1. CASE btnBackPressed \/ btnAddCardPressed
  <2>1. viewWillDisappear /\ Filed' = Filed
    BY <1>1 DEF btnBackPressed, btnAddCardPressed, server, Filed
  <2>2. defaults'.card = None \/ defaults'.card = selectedIndex
    BY <2>1 DEF viewWillDisappear
  <2> QED BY <2>1, <2>2 DEF DefaultFiled, SelectionFiled
<1>2. CASE Relaunch
  <2>1. stack = <<>>
    BY <1>2, Zenon DEF Relaunch
  <2>2. Filed' = Filed /\ defaults' = defaults
    BY <1>2 DEF Relaunch, server, Filed
  <2> QED BY <2>1, <2>2, Stacks DEF DefaultFiled
<1>3. CASE ~(btnBackPressed \/ btnAddCardPressed \/ Relaunch)
  <2>1. defaults'.card = defaults.card
    <3>1. CASE defaults' = [defaults EXCEPT !.count = 1]
      BY <3>1 DEF TypeOK
    <3> QED BY <1>3, <3>1, DefaultsSteps
  <2>2. CASE stack = <<"wallet">>
    BY <1>3, <2>2, WalletLeft DEF DefaultFiled
  <2>3. CASE stack # <<"wallet">>
    <3>1. Filed \subseteq Filed'
      BY <2>3, FiledSteps DEF commitDelete, At
    <3> QED BY <2>1, <2>3, <3>1 DEF DefaultFiled
  <2> QED BY <2>2, <2>3
<1> QED BY <1>1, <1>2, <1>3

-----------------------------------------------------------------------------
(***************************************************************************)
(* The invariant                                                           *)
(***************************************************************************)

\* The invariant holds of a fresh installation.
LEMMA InvInit == Init => Inv
<1> SUFFICES ASSUME Init PROVE Inv
  OBVIOUS
<1>1. PICK n \in 0 .. MaxCards : cards = [i \in 1 .. n |-> i] /\ nextCard = n + 1
  BY DEF Init
<1>2. n \in Nat /\ n <= MaxCards
  BY BoundTypes
<1>3. /\ cards \in Seq(Cards) /\ Len(cards) = n
      /\ \A k \in 1 .. n : cards[k] = k
  <2>1. \A k \in 1 .. n : k \in Cards
    BY <1>2, BoundTypes DEF Cards
  <2>2. cards \in [1 .. n -> Cards]
    BY <1>1, <2>1
  <2>3. cards \in Seq(Cards)
    BY <1>2, <2>2, SeqDef
  <2> QED BY <1>1, <1>2, <2>2, <2>3, LenProperties
<1>4. /\ toDelete = {}
      /\ defaults = [card |-> None, customer |-> None, count |-> None]
      /\ stack = <<>> /\ cardList = <<>> /\ rows = 0
      /\ selectedIndex = None /\ userStripeId = None
      /\ lists = <<>> /\ dels = {} /\ adding = "none"
  BY DEF Init
<1>5. TypeOK
  <2>1. nextCard \in 1 .. MaxCards + 1
    BY <1>1, <1>2, BoundTypes
  <2>2. None \in None .. MaxCards /\ 0 \in 0 .. MaxCards /\ 0 <= MaxLists
    BY BoundTypes
  <2>3. cardList \in Seq(Cards) /\ lists \in Seq(Lists) /\ Len(lists) = 0
    BY <1>4, EmptySeq
  <2>4. stray \in BOOLEAN /\ spinner \in BOOLEAN /\ upset \in BOOLEAN
        /\ revisited \in BOOLEAN /\ fault \in BOOLEAN
    BY DEF Init
  <2> QED BY <1>3, <1>4, <2>1, <2>2, <2>3, <2>4 DEF TypeOK
<1>6. ServerInv
  <2>1. Listed(cards)
    BY <1>2, <1>3 DEF Listed
  <2> QED BY <1>1, <1>2, <1>3, <1>4, <2>1 DEF ServerInv
<1>7. ListsInv /\ TableMatchesList
  BY <1>4, ListedEmpty, EmptySeq DEF ListsInv, TableMatchesList
<1>8. DelsInv /\ AddingInv /\ CustomerInv
  BY <1>4 DEF DelsInv, AddingInv, CustomerInv
<1>9. FiledInv
  <2>1. \A k \in 1 .. Len(cardList) : FALSE
    BY <1>4, EmptySeq
  <2> QED
    BY <1>4, <2>1
    DEF FiledInv, OneDeletion, RowsFiled, SelectionFiled, DefaultFiled
<1> QED BY <1>5, <1>6, <1>7, <1>8, <1>9 DEF Inv

\* Every step keeps it.
LEMMA InvNext == Inv /\ [Next]_vars => Inv'
<1> SUFFICES ASSUME Inv, [Next]_vars PROVE Inv'
  OBVIOUS
<1>1. CASE Next
  <2>1. TypeOK' /\ ServerInv' /\ DelsInv' /\ AddingInv' /\ CustomerInv'
    BY <1>1, TypeSafe, ServerSafe, DelsSafe, AddingSafe, CustomerSafe DEF Inv
  <2>2. ListsInv' /\ TableMatchesList'
    BY <1>1, ListsSafe, RowsSafe DEF Inv, ListsInv
  <2>3. FiledInv'
    <3>1. SUFFICES ASSUME ~upset'
                   PROVE  /\ OneDeletion' /\ RowsFiled' /\ SelectionFiled'
                          /\ DefaultFiled'
      BY DEF FiledInv
    <3>2. OneDeletion /\ RowsFiled /\ SelectionFiled /\ DefaultFiled
      BY <1>1, <3>1, UpsetGrows DEF Inv, FiledInv
    <3> QED
      BY <1>1, <3>1, <3>2, OneSafe, RowsFiledSafe, SelectionSafe, DefaultSafe
      DEF Inv
  <2> QED BY <2>1, <2>2, <2>3 DEF Inv
<1>2. CASE UNCHANGED vars
  <2>1. UNCHANGED <<cards, toDelete, nextCard, defaults, stack, cardList, rows,
                    selectedIndex, userStripeId, lists, dels, stray, adding,
                    spinner, upset, revisited, fault>>
    BY <1>2 DEF vars, server, wallet
  <2>2. TypeOK'
    BY <2>1 DEF Inv, TypeOK
  <2>3. ServerInv' /\ ListsInv' /\ TableMatchesList'
    BY <2>1 DEF Inv, ServerInv, ListsInv, TableMatchesList
  <2>4. DelsInv' /\ AddingInv' /\ CustomerInv'
    BY <2>1 DEF Inv, DelsInv, AddingInv, CustomerInv
  <2>5. FiledInv'
    BY <2>1 DEF Inv, FiledInv, OneDeletion, RowsFiled, SelectionFiled,
                DefaultFiled, Filed
  <2> QED BY <2>2, <2>3, <2>4, <2>5 DEF Inv
<1> QED BY <1>1, <1>2

\* The wallet keeps its invariant: the types of its state, the lists of cards
\* with every card once, the deletions that know their row, the customer that
\* goes along with a card and the cards that are on file.
THEOREM Inductive == Spec => []Inv
BY InvInit, InvNext, PTL DEF Spec

\* The variables of the wallet have their types: the lists are lists of cards,
\* a deletion is of a row and the table never has more rows than there are cards.
THEOREM TypeCorrect == Spec => []TypeOK
<1>1. Inv => TypeOK
  BY DEF Inv
<1> QED BY <1>1, Inductive, PTL

\* Whenever the list has cards the table shows as many rows, over answers that
\* come out of order and deletions that overlap them (Wallet's viewWillAppear,
\* getStripeCardList and deleteCardWithAPI).
THEOREM TableIsList == Spec => []TableMatchesList
<1>1. Inv => TableMatchesList
  BY DEF Inv
<1> QED BY <1>1, Inductive, PTL

\* The index a deletion keeps until its answer is still that of its card, unless
\* the list has moved or the indicator went before the answer.
THEOREM DeletionIsOfItsRow == Spec => []DeletionKnowsItsRow
<1>1. Inv => DeletionKnowsItsRow
  BY DEF Inv, DelsInv, DeletionKnowsItsRow
<1> QED BY <1>1, Inductive, PTL

\* The card a request is charged to is on file, unless something has upset the
\* wallet: a relaunch in it, an old list, a lost answer or deletions that overlap.
THEOREM RememberedIsOnFile == Spec => []RememberedCardOnFile
<1>1. Inv => RememberedCardOnFile
  BY Stacks DEF Inv, FiledInv, DefaultFiled, RememberedCardOnFile
<1> QED BY <1>1, Inductive, PTL

\* The card remembered comes with its Stripe customer, unless the wallet was
\* visited again with a card already selected.
THEOREM CustomerGoesAlong == Spec => []CardHasCustomer
<1>1. Inv => CardHasCustomer
  BY DEF Inv, CustomerInv, CardHasCustomer
<1> QED BY <1>1, Inductive, PTL
=============================================================================
