---------------------------- MODULE Exchange_proofs ----------------------------
(***************************************************************************)
(* The player trade for any number of users, items, amounts and messages:  *)
(* types, how offers and mirrors divide the bags, that no step leaves one  *)
(* of two partners behind, and that none creates gold or loses it.         *)
(*                                                                         *)
(* The total of the gold is a fold over the users.  What a fold computes   *)
(* is shown by induction on the subsets of a finite set: a set of subsets  *)
(* that holds each one whose proper subsets it holds has them all.         *)
(*                                                                         *)
(* ExchangeCancel is a chain of calls from partner to partner.  The        *)
(* argument about it needs two facts only: the chain starts with the       *)
(* canceller, and with everybody it reaches it reaches his partner.        *)
(***************************************************************************)
EXTENDS Exchange, FiniteSetTheorems, WellFoundedInduction, TLAPS

PurseTypes ==
    /\ gold \in [Users -> Nat]
    /\ inventory \in [Users -> SUBSET Items]

TradeTypes ==
    /\ partner \in [Users -> Users \cup {NoUser}]
    /\ decided \in [Users -> BOOLEAN]
    /\ offerGold \in [Users -> Nat]
    /\ offerItems \in [Users -> SUBSET Items]
    /\ mirror \in [Users -> SUBSET Items]

WindowStates == {"NONE", "WAIT_FOR_REQ", "WAIT_DECISION", "NORMAL", "DECIDED"}

ClientTypes ==
    /\ window \in [Users -> WindowStates]
    /\ waiting \in [Users -> BOOLEAN]
    /\ approved \in [Users -> BOOLEAN]

StoreTypes ==
    /\ storedGold \in Nat /\ storedItems \subseteq Items
    /\ inherited \subseteq Users

\* The property of the bags made inductive: a slot that is empty, and does not
\* pass anything on, holds no list and no mirror.
ListsDivide ==
    \A v \in Users \ inherited :
        /\ mirror[v] \cap offerItems[v] = {}
        /\ mirror[v] \cup offerItems[v] \in {{}, inventory[v]}
        /\ v \notin online => mirror[v] \cup offerItems[v] = {}

ExchangeInv ==
    /\ online \subseteq Users
    /\ PurseTypes
    /\ TradeTypes
    /\ ClientTypes
    /\ StoreTypes
    /\ ListsDivide

\* What a handler does to the purses and the trade.
ServerKeeps == PurseTypes' /\ TradeTypes' /\ ListsDivide' /\ inherited' \subseteq Users

-----------------------------------------------------------------------------
(***************************************************************************)
(* The chain of cancels.                                                   *)
(***************************************************************************)

\* The partner that is found is a user in game, and the one m_sExchangeUser
\* names (GetUserPtr).
LEMMA PartnerFound ==
  ASSUME NEW u, Partner(u) # NoUser
  PROVE  Partner(u) = partner[u] /\ partner[u] \in online
  BY DEF Partner

\* Somebody in game who is named as a partner is found.
LEMMA PartnerOnline ==
  ASSUME NEW u, partner[u] \in online, online \subseteq Users
  PROVE  Partner(u) = partner[u] /\ Partner(u) # NoUser
  BY UserAssumption DEF Partner

\* A cancel reaches the canceller, and with each user that user's partner.
LEMMA CancelReaches ==
  ASSUME NEW u \in Users, online \subseteq Users
  PROVE  /\ Cancelled(u) \subseteq Users
         /\ u \in Cancelled(u)
         /\ \A v \in Cancelled(u) : Partner(v) # NoUser => Partner(v) \in Cancelled(u)
  <1> DEFINE closed == {set \in SUBSET Users :
                          u \in set /\ \A v \in set : Partner(v) \in set \cup {NoUser}}
  <1>1. Cancelled(u) = {v \in Users : \A set \in closed : v \in set}
    BY DEF Cancelled
  <1>2. \A set \in closed : u \in set
    OBVIOUS
  <1>3. ASSUME NEW v \in Cancelled(u), Partner(v) # NoUser
        PROVE  Partner(v) \in Cancelled(u)
    <2>1. Partner(v) \in Users
      BY <1>3, PartnerFound
    <2>2. \A set \in closed : Partner(v) \in set
      BY <1>1, <1>3
    <2> QED BY <1>1, <2>1, <2>2
  <1> QED BY <1>1, <1>2, <1>3

\* A cancel empties the lists and the mirrors of those it reaches and returns
\* their gold; nobody else's trade is touched.
LEMMA CancelKeeps ==
  ASSUME ExchangeInv, NEW u \in Users, UndoTrades(u), online \subseteq online' \cup {u}
  PROVE  ServerKeeps
  <1> DEFINE set == Cancelled(u)
  <1>1. /\ gold' = [v \in Users |-> IF v \in set THEN gold[v] + offerGold[v] ELSE gold[v]]
        /\ offerGold' = [v \in Users |-> IF v \in set THEN 0 ELSE offerGold[v]]
        /\ inventory' = inventory
    BY DEF UndoTrades, Refund, Reset
  <1>2. /\ partner' = [v \in Users |-> IF v \in set THEN NoUser ELSE partner[v]]
        /\ decided' = [v \in Users |-> IF v \in set THEN FALSE ELSE decided[v]]
        /\ offerItems' = [v \in Users |-> IF v \in set THEN {} ELSE offerItems[v]]
        /\ mirror' = [v \in Users |-> IF v \in set THEN {} ELSE mirror[v]]
        /\ inherited' = inherited \ set
    BY DEF UndoTrades, EndExchange, Reset
  <1>2a. u \in set
    BY CancelReaches DEF ExchangeInv
  <1> HIDE DEF set
  <1>3. PurseTypes'
    BY <1>1 DEF ExchangeInv, PurseTypes, TradeTypes
  <1>4. TradeTypes'
    BY <1>1, <1>2 DEF ExchangeInv, TradeTypes
  <1>5. ListsDivide'
    BY <1>1, <1>2, <1>2a DEF ExchangeInv, ListsDivide
  <1> QED BY <1>2, <1>3, <1>4, <1>5 DEF ServerKeeps, ExchangeInv, StoreTypes

\* Two partners are both reached by a cancel, or neither is, and whoever is
\* reached is free.
LEMMA CancelKeepsPartners ==
  ASSUME ExchangeInv, NEW w \in Users, UndoTrades(w),
         NEW u \in Users, NEW p \in Users, Mutual(u, p)
  PROVE  \/ /\ partner'[u] = p /\ partner'[p] = u
            /\ u \notin Cancelled(w) /\ p \notin Cancelled(w)
         \/ partner'[u] = NoUser
  <1>1. partner' = [v \in Users |-> IF v \in Cancelled(w) THEN NoUser ELSE partner[v]]
    BY DEF UndoTrades, EndExchange, Reset
  <1>2. Partner(u) = p /\ Partner(p) = u /\ u # NoUser /\ p # NoUser
    BY UserAssumption DEF Mutual, Partner
  <1>3. u \in Cancelled(w) <=> p \in Cancelled(w)
    BY <1>2, CancelReaches DEF ExchangeInv
  <1> QED BY <1>1, <1>3 DEF Mutual

-----------------------------------------------------------------------------
(***************************************************************************)
(* Each operation keeps the invariant.                                     *)
(***************************************************************************)

\* The client changes neither purses nor trades.
LEMMA ClientStep ==
  ASSUME ExchangeInv, NEW u \in Users, Client(u) \/ Receive(u)
  PROVE  ExchangeInv'
  <1>1. UNCHANGED <<online, gold, inventory, partner, decided, offerGold, offerItems, mirror,
                    storedGold, storedItems, inherited>>
    BY DEF Client, Ask, AnswerRequest, Add, Decide, Cancel, Receive,
           ServerUnchanged, purseVars, tradeVars, storeVars
  <1>2. PurseTypes' /\ TradeTypes' /\ StoreTypes'
    BY <1>1 DEF ExchangeInv, PurseTypes, TradeTypes, StoreTypes
  <1>3. ListsDivide'
    BY <1>1 DEF ExchangeInv, ListsDivide
  <1>4. /\ window' = window \/ \E state \in WindowStates : window' = [window EXCEPT ![u] = state]
        /\ waiting' = waiting \/ \E b \in BOOLEAN : waiting' = [waiting EXCEPT ![u] = b]
        /\ approved' = approved \/ \E b \in BOOLEAN : approved' = [approved EXCEPT ![u] = b]
    <2>1. CASE \E target \in Users : Ask(u, target)
      BY <2>1 DEF Ask, Show, WindowStates
    <2>2. CASE AnswerRequest(u)
      BY <2>2 DEF AnswerRequest, Show, WindowStates
    <2>3. CASE Add(u)
      BY <2>3 DEF Add
    <2>4. CASE Decide(u)
      BY <2>4 DEF Decide, Show, WindowStates
    <2>5. CASE Cancel(u)
      BY <2>5 DEF Cancel, Show, WindowStates
    <2>6. CASE Receive(u)
      BY <2>6 DEF Receive, Show, WindowStates
    <2> QED BY <2>1, <2>2, <2>3, <2>4, <2>5, <2>6 DEF Client
  <1>5. ClientTypes'
    BY <1>4 DEF ExchangeInv, ClientTypes
  <1> QED BY <1>1, <1>2, <1>3, <1>5 DEF ExchangeInv

\* A handler changes no client.
LEMMA HandlerStep ==
  ASSUME ExchangeInv, ServerKeeps, ClientUnchanged, online' = online
  PROVE  ExchangeInv'
  BY DEF ExchangeInv, ServerKeeps, ClientUnchanged, clientVars, ClientTypes, storeVars,
         StoreTypes

\* A request makes two users partners, whatever they have listed.
LEMMA ReqStep ==
  ASSUME ExchangeInv, NEW u \in Users, NEW target \in Users, ExchangeReq(u, target)
  PROVE  ExchangeInv'
  <1>1. /\ partner' \in [Users -> Users \cup {NoUser}]
        /\ UNCHANGED <<online, gold, inventory, decided, offerGold, offerItems, mirror,
                       inherited>>
    BY DEF ExchangeReq, ExchangeInv, TradeTypes, purseVars
  <1>2. ServerKeeps
    BY <1>1 DEF ServerKeeps, ExchangeInv, PurseTypes, TradeTypes, StoreTypes, ListsDivide
  <1> QED BY <1>1, <1>2, HandlerStep DEF ExchangeReq

\* An agreement copies both bags into the mirrors and clears both lists.
LEMMA AgreeStep ==
  ASSUME ExchangeInv, NEW u \in Users, NEW result \in BOOLEAN, ExchangeAgree(u, result)
  PROVE  ExchangeInv'
  <1> SUFFICES ServerKeeps
    BY HandlerStep DEF ExchangeAgree
  <1> DEFINE p == Partner(u)
  <1>1. UNCHANGED <<online, gold, inventory, decided>>
    BY DEF ExchangeAgree, purseVars
  <1>2. PurseTypes'
    BY <1>1 DEF ExchangeInv, PurseTypes
  <1>3. CASE UNCHANGED <<offerGold, offerItems, mirror, inherited>>
             /\ partner' \in [Users -> Users \cup {NoUser}]
    BY <1>1, <1>2, <1>3 DEF ServerKeeps, ExchangeInv, TradeTypes, StoreTypes, ListsDivide
  <1>4. CASE BeginExchange({u, p}) /\ UNCHANGED partner
    <2>1. /\ offerGold' = [v \in Users |-> IF v \in {u, p} THEN 0 ELSE offerGold[v]]
          /\ offerItems' = [v \in Users |-> IF v \in {u, p} THEN {} ELSE offerItems[v]]
          /\ mirror' = [v \in Users |-> IF v \in {u, p} THEN inventory[v] ELSE mirror[v]]
          /\ inherited' = inherited \ {u, p}
      BY <1>4 DEF BeginExchange, Reset
    <2>1a. u \in online /\ p \in online \cup {NoUser}
      BY DEF ExchangeAgree, Partner
    <2> HIDE DEF p
    <2>2. TradeTypes'
      BY <1>1, <1>4, <2>1 DEF ExchangeInv, TradeTypes, PurseTypes
    <2>3. ListsDivide'
      BY <1>1, <2>1, <2>1a, UserAssumption DEF ExchangeInv, ListsDivide
    <2> QED BY <1>2, <2>1, <2>2, <2>3 DEF ServerKeeps, ExchangeInv, StoreTypes
  <1>5. p # NoUser => p \in Users
    BY PartnerFound DEF ExchangeInv
  <1>6. CASE partner' = [partner EXCEPT ![u] = NoUser]
             /\ UNCHANGED <<offerGold, offerItems, mirror, inherited>>
    BY <1>3, <1>6 DEF ExchangeInv, TradeTypes
  <1>7. CASE partner' = [partner EXCEPT ![u] = NoUser, ![p] = NoUser]
             /\ UNCHANGED <<offerGold, offerItems, mirror, inherited>>
    BY <1>3, <1>7 DEF ExchangeInv, TradeTypes
  <1> QED BY <1>4, <1>6, <1>7 DEF ExchangeAgree

\* Gold that is offered leaves the purse, never below nothing.
LEMMA AddGoldStep ==
  ASSUME ExchangeInv, NEW u \in Users, NEW n \in Amounts, ExchangeAddGold(u, n)
  PROVE  ExchangeInv'
  <1>1. CASE ExchangeCancel(u)
    BY <1>1, CancelKeeps, HandlerStep DEF ExchangeAddGold, ExchangeCancel
  <1>2. CASE /\ IF decided[u] \/ n > gold[u]
                THEN UNCHANGED <<gold, offerGold>>
                ELSE /\ gold' = [gold EXCEPT ![u] = @ - n]
                     /\ offerGold' = [offerGold EXCEPT ![u] = @ + n]
             /\ UNCHANGED <<inventory, partner, decided, offerItems, mirror, inherited>>
    <2>1. n \in Nat
      BY AmountAssumption
    <2>2. PurseTypes'
      BY <1>2, <2>1 DEF ExchangeInv, PurseTypes
    <2>3. TradeTypes'
      BY <1>2, <2>1 DEF ExchangeInv, TradeTypes
    <2>4. ListsDivide'
      BY <1>2 DEF ExchangeInv, ListsDivide, ExchangeAddGold
    <2>5. inherited' \subseteq Users
      BY <1>2 DEF ExchangeInv, StoreTypes
    <2> QED BY <2>2, <2>3, <2>4, <2>5, HandlerStep DEF ServerKeeps, ExchangeAddGold
  <1> QED BY <1>1, <1>2 DEF ExchangeAddGold

\* An item that is offered leaves the mirror, from which it came.
LEMMA AddItemStep ==
  ASSUME ExchangeInv, NEW u \in Users, NEW i \in Items, ExchangeAddItem(u, i)
  PROVE  ExchangeInv'
  <1>1. CASE ExchangeCancel(u)
    BY <1>1, CancelKeeps, HandlerStep DEF ExchangeAddItem, ExchangeCancel
  <1>2. CASE /\ IF decided[u] \/ i \notin mirror[u]
                THEN UNCHANGED <<offerItems, mirror>>
                ELSE /\ offerItems' = [offerItems EXCEPT ![u] = @ \cup {i}]
                     /\ mirror' = [mirror EXCEPT ![u] = @ \ {i}]
             /\ UNCHANGED <<gold, inventory, partner, decided, offerGold, inherited>>
    <2>1. PurseTypes'
      BY <1>2 DEF ExchangeInv, PurseTypes
    <2>2. TradeTypes'
      BY <1>2 DEF ExchangeInv, TradeTypes
    <2>3. ListsDivide'
      <3> SUFFICES ASSUME NEW v \in Users \ inherited
                   PROVE  /\ mirror'[v] \cap offerItems'[v] = {}
                          /\ mirror'[v] \cup offerItems'[v] \in {{}, inventory[v]}
                          /\ v \notin online => mirror'[v] \cup offerItems'[v] = {}
        BY <1>2 DEF ListsDivide, ExchangeAddItem
      <3>1. /\ mirror[v] \cap offerItems[v] = {}
            /\ mirror[v] \cup offerItems[v] \in {{}, inventory[v]}
            /\ v \notin online => mirror[v] \cup offerItems[v] = {}
        BY DEF ExchangeInv, ListsDivide
      <3>2. CASE mirror'[v] = mirror[v] /\ offerItems'[v] = offerItems[v]
        BY <3>1, <3>2
      <3>3. CASE /\ i \in mirror[v]
                 /\ mirror'[v] = mirror[v] \ {i} /\ offerItems'[v] = offerItems[v] \cup {i}
        <4>1. mirror'[v] \cup offerItems'[v] = mirror[v] \cup offerItems[v]
          BY <3>3
        <4> QED BY <3>1, <3>3, <4>1
      <3> QED BY <1>2, <3>2, <3>3 DEF ExchangeInv, TradeTypes
    <2>4. inherited' \subseteq Users
      BY <1>2 DEF ExchangeInv, StoreTypes
    <2> QED BY <2>1, <2>2, <2>3, <2>4, HandlerStep DEF ServerKeeps, ExchangeAddItem
  <1> QED BY <1>1, <1>2 DEF ExchangeAddItem

\* The end of a trade: both lists and both mirrors are empty, so that what the
\* bags have become divides nothing.
LEMMA EndKeeps ==
  ASSUME ExchangeInv, NEW u \in Users, NEW p \in Users, EndExchange({u, p}),
         online' = online, PurseTypes', offerGold' \in [Users -> Nat],
         \A v \in Users \ {u, p} : inventory'[v] = inventory[v]
  PROVE  ServerKeeps
  <1>1. /\ partner' = [v \in Users |-> IF v \in {u, p} THEN NoUser ELSE partner[v]]
        /\ decided' = [v \in Users |-> IF v \in {u, p} THEN FALSE ELSE decided[v]]
        /\ offerItems' = [v \in Users |-> IF v \in {u, p} THEN {} ELSE offerItems[v]]
        /\ mirror' = [v \in Users |-> IF v \in {u, p} THEN {} ELSE mirror[v]]
        /\ inherited' = inherited \ {u, p}
    BY DEF EndExchange, Reset
  <1>2. TradeTypes'
    BY <1>1 DEF ExchangeInv, TradeTypes
  <1>3. ListsDivide'
    BY <1>1 DEF ExchangeInv, ListsDivide
  <1> QED BY <1>1, <1>2, <1>3 DEF ServerKeeps, ExchangeInv, StoreTypes

\* Both have decided: the trade fails and the gold returns, or it is made.
LEMMA TradeKeeps ==
  ASSUME ExchangeInv, NEW u \in Users, NEW p \in Users, EndExchange({u, p}),
         online' = online, TradeSucceeds(u, p) \/ TradeFails(u, p)
  PROVE  ServerKeeps
  <1>1. CASE TradeFails(u, p)
    <2>1. /\ gold' = [v \in Users |-> IF v \in {u, p} THEN gold[v] + offerGold[v] ELSE gold[v]]
          /\ offerGold' = [v \in Users |-> IF v \in {u, p} THEN 0 ELSE offerGold[v]]
          /\ inventory' = inventory
      BY <1>1 DEF TradeFails, Refund, Reset
    <2>2. PurseTypes' /\ offerGold' \in [Users -> Nat]
      BY <2>1 DEF ExchangeInv, PurseTypes, TradeTypes
    <2> QED BY <2>1, <2>2, EndKeeps
  <1>2. CASE TradeSucceeds(u, p)
    <2>1. Partner(u) \in Users /\ Partner(p) \in Users
      BY <1>2, PartnerFound DEF TradeSucceeds, HasRoom, ExchangeInv
    <2>2. /\ gold' = [gold EXCEPT ![u] = @ + offerGold[p], ![p] = @ + offerGold[Partner(p)]]
          /\ offerGold' = [v \in Users |-> IF v \in {u, p, Partner(p)} THEN 0 ELSE offerGold[v]]
          /\ inventory' = [inventory EXCEPT ![u] = BagAfter(u), ![p] = BagAfter(p)]
      BY <1>2 DEF TradeSucceeds, Reset
    <2>3. BagAfter(u) \in SUBSET Items /\ BagAfter(p) \in SUBSET Items
      BY <2>1 DEF BagAfter, ExchangeInv, TradeTypes
    <2>4. PurseTypes'
      BY <2>1, <2>2, <2>3 DEF ExchangeInv, PurseTypes, TradeTypes
    <2>5. offerGold' \in [Users -> Nat]
      BY <2>2 DEF ExchangeInv, TradeTypes
    <2>6. \A v \in Users \ {u, p} : inventory'[v] = inventory[v]
      BY <2>2 DEF ExchangeInv, PurseTypes
    <2> QED BY <2>4, <2>5, <2>6, EndKeeps
  <1> QED BY <1>1, <1>2

\* A decision is noted, or ends the trade.
LEMMA DecideStep ==
  ASSUME ExchangeInv, NEW u \in Users, ExchangeDecide(u)
  PROVE  ExchangeInv'
  <1> SUFFICES ServerKeeps
    BY HandlerStep DEF ExchangeDecide
  <1> online' = online
    BY DEF ExchangeDecide
  <1>1. CASE ExchangeCancel(u)
    BY <1>1, CancelKeeps DEF ExchangeCancel
  <1>2. CASE /\ decided' = [decided EXCEPT ![u] = TRUE]
             /\ UNCHANGED <<purseVars, partner, offerGold, offerItems, mirror, inherited>>
    BY <1>2 DEF ServerKeeps, ExchangeInv, purseVars, PurseTypes, TradeTypes, StoreTypes,
                ListsDivide
  <1>3. CASE /\ Partner(u) # NoUser
             /\ TradeSucceeds(u, Partner(u)) \/ TradeFails(u, Partner(u))
             /\ EndExchange({u, Partner(u)})
    <2>1. Partner(u) \in Users
      BY <1>3, PartnerFound DEF ExchangeInv
    <2> QED BY <1>3, <2>1, TradeKeeps
  <1> QED BY <1>1, <1>2, <1>3 DEF ExchangeDecide

\* A log-out cancels, or leaves a list or a mirror in the slot, which passes it on.
LEMMA LogOutStep ==
  ASSUME ExchangeInv, NEW u \in Users, LogOut(u)
  PROVE  ExchangeInv'
  <1>1. /\ online' = online \ {u} /\ online' \subseteq Users
        /\ UNCHANGED <<storedGold, storedItems>>
    BY DEF LogOut, storeVars, ExchangeInv
  <1>2. ASSUME UndoTrades(u) PROVE ServerKeeps
    <2>1. online \subseteq online' \cup {u}
      BY <1>1
    <2> QED BY <1>2, <2>1, CancelKeeps
  <1>3. ASSUME decided' = [decided EXCEPT ![u] = FALSE],
               inherited' = IF offerGold[u] # 0 \/ offerItems[u] \cup mirror[u] # {}
                            THEN inherited \cup {u} ELSE inherited,
               UNCHANGED <<purseVars, partner, offerGold, offerItems, mirror>>
        PROVE  ServerKeeps
    <2>1. PurseTypes' /\ TradeTypes'
      BY <1>3 DEF ExchangeInv, purseVars, PurseTypes, TradeTypes
    <2>2. ListsDivide'
      BY <1>1, <1>3 DEF ExchangeInv, purseVars, ListsDivide
    <2>3. inherited' \subseteq Users
      BY <1>3 DEF ExchangeInv, StoreTypes
    <2> QED BY <2>1, <2>2, <2>3 DEF ServerKeeps
  <1>4. ServerKeeps
    BY <1>2, <1>3 DEF LogOut
  <1>5. ClientTypes'
    BY DEF LogOut, Show, ExchangeInv, ClientTypes, WindowStates
  <1> QED BY <1>1, <1>4, <1>5 DEF ServerKeeps, ExchangeInv, StoreTypes

\* Who enters a slot that passes nothing on finds no list and no mirror.
LEMMA LogInStep ==
  ASSUME ExchangeInv, NEW u \in Users, LogIn(u)
  PROVE  ExchangeInv'
  <1>1. /\ online' = online \cup {u} /\ u \notin online
        /\ UNCHANGED <<partner, decided, offerGold, offerItems, mirror, inherited,
                       window, waiting, approved>>
    BY DEF LogIn, tradeVars, clientVars
  <1>2. PICK n \in Purses : /\ n <= storedGold + gold[u]
                            /\ gold' = [gold EXCEPT ![u] = n]
                            /\ storedGold' = storedGold + gold[u] - n
    BY DEF LogIn
  <1>3. PICK bag \in Bags :
           /\ inventory' = [inventory EXCEPT ![u] = bag]
           /\ storedItems' = (storedItems \cup inventory[u]) \ bag
    BY DEF LogIn
  <1>4. PurseTypes'
    BY <1>2, <1>3, BoundAssumption DEF ExchangeInv, PurseTypes
  <1>5. TradeTypes' /\ ClientTypes'
    BY <1>1 DEF ExchangeInv, TradeTypes, ClientTypes
  <1>6. StoreTypes'
    BY <1>1, <1>2, <1>3, BoundAssumption DEF ExchangeInv, StoreTypes, PurseTypes
  <1>7. ListsDivide'
    BY <1>1, <1>3 DEF ExchangeInv, PurseTypes, ListsDivide
  <1> QED BY <1>1, <1>4, <1>5, <1>6, <1>7 DEF ExchangeInv

\* Every step keeps the invariant.
LEMMA ExchangeStep ==
  ASSUME ExchangeInv, [Next]_vars PROVE ExchangeInv'
  <1>1. CASE UNCHANGED vars
    BY <1>1 DEF vars, purseVars, tradeVars, clientVars, storeVars, ExchangeInv, PurseTypes,
                TradeTypes, ClientTypes, StoreTypes, ListsDivide
  <1>2. ASSUME NEW u \in Users, HandleCancel(u) PROVE ExchangeInv'
    BY <1>2, CancelKeeps, HandlerStep DEF HandleCancel, ExchangeCancel
  <1>3. ASSUME NEW u \in Users, Server(u) PROVE ExchangeInv'
    BY <1>2, <1>3, ReqStep, AgreeStep, AddGoldStep, AddItemStep, DecideStep DEF Server
  <1> QED BY <1>1, <1>3, ClientStep, LogOutStep, LogInStep DEF Next

-----------------------------------------------------------------------------
(***************************************************************************)
(* Two partners.                                                           *)
(***************************************************************************)

\* The ways two partners may part that the property names.
Parted(u, p) ==
    \/ Mutual(u, p)'
    \/ Partner(u)' = NoUser
    \/ \E target \in Users : ExchangeReq(p, target)
    \/ \E target \in Users : ExchangeReq(u, target)
    \/ \E w \in Users \ {u} :
         /\ partner[w] = p
         /\ ExchangeAgree(w, FALSE) \/ ExchangeDecide(w)

\* Whose partner's field is untouched stays a partner.
LEMMA KeptPartners ==
  ASSUME NEW u, NEW p, Mutual(u, p), {u, p} \subseteq online',
         partner'[u] = partner[u], partner'[p] = partner[p]
  PROVE  Parted(u, p)
  BY DEF Mutual, Parted

\* Whose partner's field is emptied is free.
LEMMA FreedPartner ==
  ASSUME NEW u, NEW p, online' \subseteq Users, partner'[u] = NoUser
  PROVE  Parted(u, p)
  BY UserAssumption DEF Parted, Partner

\* A step that frees a user and his partner frees a third one's partner only if
\* that user names him.
LEMMA PairFreed ==
  ASSUME ExchangeInv, NEW w \in Users, Partner(w) # NoUser, online' = online,
         partner' = [v \in Users |-> IF v \in {w, Partner(w)} THEN NoUser ELSE partner[v]],
         ExchangeAgree(w, FALSE) \/ ExchangeDecide(w),
         NEW u \in Users, NEW p \in Users, Mutual(u, p)
  PROVE  Parted(u, p)
  <1>1. CASE u \in {w, Partner(w)}
    BY <1>1, FreedPartner DEF ExchangeInv
  <1>2. CASE u \notin {w, Partner(w)} /\ p \in {w, Partner(w)}
    <2>1. Partner(p) = u
      BY UserAssumption DEF Mutual, Partner
    <2>2. p = partner[w] /\ w # u
      BY <1>2, <2>1, PartnerFound
    <2> QED BY <2>2 DEF Parted
  <1>3. CASE u \notin {w, Partner(w)} /\ p \notin {w, Partner(w)}
    BY <1>3, KeptPartners DEF Mutual
  <1> QED BY <1>1, <1>2, <1>3

\* A cancel of somebody who stays in game.
LEMMA CancelParts ==
  ASSUME ExchangeInv, NEW w \in Users, UndoTrades(w), online' = online,
         NEW u \in Users, NEW p \in Users, Mutual(u, p)
  PROVE  Parted(u, p)
  BY CancelKeepsPartners, KeptPartners, FreedPartner DEF Mutual, ExchangeInv

\* A log-out cancels the trade of who logs out.
LEMMA LogOutParts ==
  ASSUME ExchangeInv, NEW w \in Users, LogOut(w),
         NEW u \in Users, NEW p \in Users, Mutual(u, p)
  PROVE  Parted(u, p)
  <1>1. online' = online \ {w} /\ online' \subseteq Users
    BY DEF LogOut, ExchangeInv
  <1>2. CASE UndoTrades(w)
    <2>1. CASE partner'[u] = NoUser
      BY <1>1, <2>1, FreedPartner
    <2>2. CASE /\ partner'[u] = p /\ partner'[p] = u
               /\ u \notin Cancelled(w) /\ p \notin Cancelled(w)
      <3>1. w \notin {u, p}
        BY <2>2, CancelReaches DEF ExchangeInv
      <3> QED BY <1>1, <2>2, <3>1, KeptPartners DEF Mutual
    <2> QED BY <1>2, <2>1, <2>2, CancelKeepsPartners
  <1>3. CASE partner[w] = NoUser /\ partner' = partner
    <2>1. w \notin {u, p}
      BY <1>3, UserAssumption DEF Mutual
    <2> QED BY <1>1, <1>3, <2>1, KeptPartners DEF Mutual
  <1> QED BY <1>2, <1>3 DEF LogOut

\* No step parts two partners in any other way.
LEMMA PartnersStep ==
  ASSUME ExchangeInv, [Next]_vars, NEW u \in Users, NEW p \in Users, Mutual(u, p)
  PROVE  Parted(u, p)
  <1>1. CASE partner' = partner /\ online' = online
    BY <1>1, KeptPartners DEF Mutual
  <1>2. CASE UNCHANGED vars
    BY <1>1, <1>2 DEF vars, tradeVars
  <1>3. ASSUME NEW w \in Users, Client(w) \/ Receive(w) PROVE Parted(u, p)
    BY <1>1, <1>3 DEF Client, Ask, AnswerRequest, Add, Decide, Cancel, Receive,
                      ServerUnchanged, tradeVars
  <1>4. ASSUME NEW w \in Users, NEW target \in Users, ExchangeReq(w, target)
        PROVE  Parted(u, p)
    <2>1. CASE w \in {u, p}
      BY <1>4, <2>1 DEF Parted
    <2>2. CASE partner' = partner
      BY <1>1, <1>4, <2>2 DEF ExchangeReq
    <2>3. CASE /\ w \notin {u, p} /\ partner[target] = NoUser
               /\ partner' = [partner EXCEPT ![target] = w, ![w] = target]
      <3>1. target \notin {u, p}
        BY <2>3, UserAssumption DEF Mutual
      <3>2. partner'[u] = partner[u] /\ partner'[p] = partner[p]
        BY <2>3, <3>1 DEF ExchangeInv, TradeTypes
      <3> QED BY <1>4, <3>2, KeptPartners DEF ExchangeReq, Mutual
    <2> QED BY <1>4, <2>1, <2>2, <2>3 DEF ExchangeReq, ExchangeInv, TradeTypes
  <1>5. ASSUME NEW w \in Users, NEW result \in BOOLEAN, ExchangeAgree(w, result)
        PROVE  Parted(u, p)
    <2>1. online' = online
      BY <1>5 DEF ExchangeAgree
    <2>2. CASE Partner(w) = NoUser
      <3>1. w \notin {u, p}
        BY <2>2, UserAssumption DEF Mutual, Partner
      <3>2. partner' = [partner EXCEPT ![w] = NoUser]
        BY <1>5, <2>2 DEF ExchangeAgree
      <3> QED BY <2>1, <3>1, <3>2, KeptPartners DEF Mutual, ExchangeInv, TradeTypes
    <2>3. CASE Partner(w) # NoUser /\ result
      BY <1>1, <1>5, <2>1, <2>3 DEF ExchangeAgree
    <2>4. CASE Partner(w) # NoUser /\ ~result
      <3>1. ExchangeAgree(w, FALSE)
        <4>1. result = FALSE
          BY <2>4
        <4> QED BY <1>5, <4>1
      <3>2. partner' = [partner EXCEPT ![w] = NoUser, ![Partner(w)] = NoUser]
        BY <1>5, <2>4 DEF ExchangeAgree
      <3>3. partner' = [v \in Users |-> IF v \in {w, Partner(w)} THEN NoUser ELSE partner[v]]
        BY <2>4, <3>2, PartnerFound DEF ExchangeInv, TradeTypes
      <3> QED BY <2>1, <2>4, <3>1, <3>3, PairFreed
    <2> QED BY <2>2, <2>3, <2>4
  <1>6. ASSUME NEW w \in Users, ExchangeDecide(w) PROVE Parted(u, p)
    <2>1. online' = online
      BY <1>6 DEF ExchangeDecide
    <2>2. CASE ExchangeCancel(w)
      BY <2>1, <2>2, CancelParts DEF ExchangeCancel
    <2>3. CASE partner' = partner
      BY <1>1, <2>1, <2>3
    <2>4. CASE Partner(w) # NoUser /\ EndExchange({w, Partner(w)})
      <3>1. partner' = [v \in Users |-> IF v \in {w, Partner(w)} THEN NoUser ELSE partner[v]]
        BY <2>4 DEF EndExchange, Reset
      <3> QED BY <1>6, <2>1, <2>4, <3>1, PairFreed
    <2> QED BY <1>6, <2>2, <2>3, <2>4 DEF ExchangeDecide
  <1>7. ASSUME NEW w \in Users, NEW n \in Amounts, ExchangeAddGold(w, n)
        PROVE  Parted(u, p)
    BY <1>1, <1>7, CancelParts DEF ExchangeAddGold, ExchangeCancel
  <1>8. ASSUME NEW w \in Users, NEW i \in Items, ExchangeAddItem(w, i)
        PROVE  Parted(u, p)
    BY <1>1, <1>8, CancelParts DEF ExchangeAddItem, ExchangeCancel
  <1>9. ASSUME NEW w \in Users, HandleCancel(w) PROVE Parted(u, p)
    BY <1>9, CancelParts DEF HandleCancel, ExchangeCancel
  <1>10. ASSUME NEW w \in Users, Server(w) PROVE Parted(u, p)
    BY <1>4, <1>5, <1>6, <1>7, <1>8, <1>9, <1>10 DEF Server
  <1>11. ASSUME NEW w \in Users, LogIn(w) PROVE Parted(u, p)
    BY <1>11, KeptPartners DEF LogIn, tradeVars, Mutual
  <1> QED BY <1>2, <1>3, <1>10, <1>11, LogOutParts DEF Next

-----------------------------------------------------------------------------
(***************************************************************************)
(* Sums: the fold of a function over a finite set is a sum, whatever order *)
(* it takes the elements in.                                               *)
(***************************************************************************)

\* Induction on the subsets of a finite set, in terms of a set of subsets.
LEMMA SetInduction ==
    ASSUME NEW S, IsFiniteSet(S), NEW Good,
           \A T \in SUBSET S : (\A U \in SUBSET T : U # T => U \in Good) => T \in Good
    PROVE  SUBSET S \subseteq Good
<1> DEFINE Bad == {T \in SUBSET S : T \notin Good}
<1> SUFFICES ASSUME Bad # {} PROVE FALSE
  OBVIOUS
<1>1. Bad \subseteq FiniteSubsetsOf(S)
  BY FS_Subset DEF FiniteSubsetsOf
<1>2. IsWellFoundedOn(StrictSubsetOrdering(S), FiniteSubsetsOf(S))
  BY FS_StrictSubsetOrderingWellFounded
<1> HIDE DEF Bad
<1>3. PICK T \in Bad : \A U \in Bad : ~ (<<U, T>> \in StrictSubsetOrdering(S))
  BY <1>1, <1>2, WFMin
<1>4. T \in SUBSET S /\ T \notin Good
  BY DEF Bad
<1>5. \A U \in SUBSET T : U # T => U \in Good
  BY <1>3, <1>4 DEF Bad, StrictSubsetOrdering
<1> QED BY <1>4, <1>5

\* The element that a fold takes first.
First(s) == CHOOSE x \in s : TRUE

\* The function on the subsets of S that the sum of f over S is defined by.
Sums(f, S, h) ==
    h = [s \in SUBSET S |-> IF s = {} THEN 0 ELSE f[First(s)] + h[s \ {First(s)}]]

\* The sum of f over S, as TotalGold has it.
SumOver(f, S) == FoldFunctionOnSet(+, 0, f, S)

\* There is a first element.
LEMMA FirstIn == \A s : s # {} => First(s) \in s
BY DEF First

\* What that function is at each subset.
LEMMA SumsAt ==
    ASSUME NEW f, NEW S, NEW h, Sums(f, S, h), NEW s \in SUBSET S
    PROVE  /\ s = {} => h[s] = 0
           /\ s # {} => h[s] = f[First(s)] + h[s \ {First(s)}]
BY DEF Sums

\* There is one such function at most.
LEMMA SumsUnique ==
    ASSUME NEW f, NEW S, IsFiniteSet(S), NEW h, Sums(f, S, h), NEW k, Sums(f, S, k)
    PROVE  h = k
<1> DEFINE Good == {T \in SUBSET S : h[T] = k[T]}
<1>1. ASSUME NEW T \in SUBSET S, \A U \in SUBSET T : U # T => U \in Good
      PROVE  T \in Good
  <2>1. CASE T = {}
    BY <2>1, SumsAt
  <2>2. CASE T # {}
    <3>1. First(T) \in T /\ T \ {First(T)} \in SUBSET T /\ T \ {First(T)} # T
      BY <2>2, FirstIn
    <3>2. h[T \ {First(T)}] = k[T \ {First(T)}]
      BY <1>1, <3>1
    <3> QED BY <2>2, <3>2, SumsAt
  <2> QED BY <2>1, <2>2
<1> HIDE DEF Good
<1>2. SUBSET S \subseteq Good
  BY <1>1, SetInduction
<1>3. \A T \in SUBSET S : h[T] = k[T]
  BY <1>2 DEF Good
<1>4. DOMAIN h = SUBSET S /\ DOMAIN k = SUBSET S /\ h = [s \in SUBSET S |-> h[s]]
      /\ k = [s \in SUBSET S |-> k[s]]
  BY DEF Sums
<1> QED BY <1>3, <1>4

\* Restricted to the subsets of a subset it is the function of that subset.
LEMMA SumsBelow ==
    ASSUME NEW f, NEW S, NEW h, Sums(f, S, h), NEW T \in SUBSET S
    PROVE  Sums(f, T, [s \in SUBSET T |-> h[s]])
<1> DEFINE k == [s \in SUBSET T |-> h[s]]
<1>1. ASSUME NEW s \in SUBSET T
      PROVE  k[s] = IF s = {} THEN 0 ELSE f[First(s)] + k[s \ {First(s)}]
  <2>1. s \in SUBSET S /\ s \ {First(s)} \in SUBSET T
    OBVIOUS
  <2> QED BY <2>1, SumsAt
<1> QED BY <1>1 DEF Sums

\* The function that the fold computes, if there is one.
SumsOn(f, S) == CHOOSE h : Sums(f, S, h)

\* There is one: at each set it extends those of the smaller sets.
LEMMA SumsExist ==
    ASSUME NEW f, NEW S, IsFiniteSet(S)
    PROVE  Sums(f, S, SumsOn(f, S))
<1> DEFINE Good == {T \in SUBSET S : Sums(f, T, SumsOn(f, T))}
<1>1. ASSUME NEW T \in SUBSET S, \A U \in SUBSET T : U # T => U \in Good
      PROVE  T \in Good
  <2>1. CASE T = {}
    <3>1. Sums(f, T, [s \in SUBSET T |-> 0])
      BY <2>1 DEF Sums
    <3> QED BY <3>1 DEF SumsOn
  <2>2. CASE T # {}
    <3> DEFINE x == First(T)
               below(U) == SumsOn(f, U)[U]
               h == [s \in SUBSET T |-> IF s = T THEN f[x] + below(T \ {x}) ELSE below(s)]
    <3>1. ASSUME NEW U \in SUBSET T, U # T PROVE Sums(f, U, SumsOn(f, U)) /\ IsFiniteSet(U)
      BY <1>1, <3>1, FS_Subset
    <3>2. ASSUME NEW U \in SUBSET T, U # T, NEW V \in SUBSET U
          PROVE  SumsOn(f, U)[V] = below(V)
      <4>1. Sums(f, V, [s \in SUBSET V |-> SumsOn(f, U)[s]])
        BY <3>1, <3>2, SumsBelow
      <4>2. V # T /\ V \in SUBSET T
        BY <3>2
      <4>3. Sums(f, V, SumsOn(f, V)) /\ IsFiniteSet(V)
        BY <4>2, <3>1
      <4>4. [s \in SUBSET V |-> SumsOn(f, U)[s]] = SumsOn(f, V)
        BY <4>1, <4>3, SumsUnique
      <4> QED BY <4>4
    <3>3. x \in T
      BY <2>2, FirstIn
    <3>4. ASSUME NEW s \in SUBSET T
          PROVE  h[s] = IF s = {} THEN 0 ELSE f[First(s)] + h[s \ {First(s)}]
      <4>1. CASE s = T
        <5>1. T \ {x} \in SUBSET T /\ T \ {x} # T
          BY <3>3
        <5> QED BY <2>2, <4>1, <5>1
      <4>2. CASE s # T /\ s = {}
        <5>1. SumsOn(f, s)[s] = 0
          BY <3>1, <4>2, SumsAt
        <5> QED BY <4>2, <5>1
      <4>3. CASE s # T /\ s # {}
        <5>1. First(s) \in s /\ s \ {First(s)} \in SUBSET s /\ s \ {First(s)} # T
          BY <4>3, FirstIn
        <5>2. SumsOn(f, s)[s] = f[First(s)] + SumsOn(f, s)[s \ {First(s)}]
          BY <3>1, <4>3, SumsAt
        <5>3. SumsOn(f, s)[s \ {First(s)}] = below(s \ {First(s)})
          BY <3>2, <4>3, <5>1
        <5> QED BY <4>3, <5>1, <5>2, <5>3
      <4> QED BY <4>1, <4>2, <4>3
    <3>5. Sums(f, T, h)
      BY <3>4 DEF Sums
    <3> QED BY <3>5 DEF SumsOn
  <2> QED BY <2>1, <2>2
<1> HIDE DEF Good
<1>2. SUBSET S \subseteq Good
  BY <1>1, SetInduction
<1> QED BY <1>2 DEF Good

\* The sum is its value at the whole set.
LEMMA SumOverIs ==
    ASSUME NEW f, NEW S
    PROVE  SumOver(f, S) = SumsOn(f, S)[S]
BY DEF SumOver, FoldFunctionOnSet, MapThenFoldSet, SumsOn, Sums, First

\* The sum over a set: the first element, and the sum over the rest.
LEMMA SumFirst ==
    ASSUME NEW f, NEW S, IsFiniteSet(S)
    PROVE  /\ S = {} => SumOver(f, S) = 0
           /\ S # {} => /\ First(S) \in S
                        /\ SumOver(f, S) = f[First(S)] + SumOver(f, S \ {First(S)})
<1>1. Sums(f, S, SumsOn(f, S))
  BY SumsExist
<1>2. CASE S = {}
  BY <1>1, <1>2, SumsAt, SumOverIs
<1>3. CASE S # {}
  <2> DEFINE T == S \ {First(S)}
  <2>1. T \in SUBSET S /\ First(S) \in S /\ IsFiniteSet(T)
    BY <1>3, FirstIn, FS_Subset
  <2>2. SumsOn(f, S)[S] = f[First(S)] + SumsOn(f, S)[T]
    BY <1>1, <1>3, SumsAt
  <2>3. Sums(f, T, [s \in SUBSET T |-> SumsOn(f, S)[s]])
    BY <1>1, <2>1, SumsBelow
  <2>4. SumsOn(f, T) = [s \in SUBSET T |-> SumsOn(f, S)[s]]
    BY <2>1, <2>3, SumsExist, SumsUnique
  <2>5. SumsOn(f, T)[T] = SumsOn(f, S)[T]
    BY <2>4
  <2> QED BY <1>3, <2>1, <2>2, <2>5, SumOverIs
<1> QED BY <1>2, <1>3

\* A sum of natural numbers is one.
LEMMA SumType ==
    ASSUME NEW D, IsFiniteSet(D), NEW f \in [D -> Nat]
    PROVE  \A S \in SUBSET D : SumOver(f, S) \in Nat
<1> DEFINE Good == {T \in SUBSET D : SumOver(f, T) \in Nat}
<1>1. ASSUME NEW T \in SUBSET D, \A U \in SUBSET T : U # T => U \in Good
      PROVE  T \in Good
  <2>1. IsFiniteSet(T)
    BY FS_Subset
  <2>2. CASE T = {}
    <3>1. SumOver(f, T) = 0
      BY <2>1, <2>2, SumFirst
    <3> QED BY <3>1
  <2>3. CASE T # {}
    <3>1. First(T) \in T /\ SumOver(f, T) = f[First(T)] + SumOver(f, T \ {First(T)})
      BY <2>1, <2>3, SumFirst
    <3>2. SumOver(f, T \ {First(T)}) \in Nat
      BY <1>1, <3>1
    <3> QED BY <3>1, <3>2
  <2> QED BY <2>2, <2>3
<1> HIDE DEF Good
<1>2. SUBSET D \subseteq Good
  BY <1>1, SetInduction
<1> QED BY <1>2 DEF Good

\* Any element may be taken out of a sum.
LEMMA SumTake ==
    ASSUME NEW D, IsFiniteSet(D), NEW f \in [D -> Nat]
    PROVE  \A S \in SUBSET D : \A a \in S : SumOver(f, S) = f[a] + SumOver(f, S \ {a})
<1> DEFINE Good == {T \in SUBSET D :
                      \A a \in T : SumOver(f, T) = f[a] + SumOver(f, T \ {a})}
<1>1. ASSUME NEW T \in SUBSET D, \A U \in SUBSET T : U # T => U \in Good
      PROVE  T \in Good
  <2> SUFFICES ASSUME NEW a \in T PROVE SumOver(f, T) = f[a] + SumOver(f, T \ {a})
    OBVIOUS
  <2> DEFINE x == First(T)
  <2>1. x \in T /\ SumOver(f, T) = f[x] + SumOver(f, T \ {x})
    BY FS_Subset, SumFirst
  <2>2. CASE a # x
    <3>1. T \ {x} \in Good /\ a \in T \ {x} /\ T \ {a} \in Good /\ x \in T \ {a}
      BY <1>1, <2>1, <2>2
    <3>2. /\ SumOver(f, T \ {x}) = f[a] + SumOver(f, (T \ {x}) \ {a})
          /\ SumOver(f, T \ {a}) = f[x] + SumOver(f, (T \ {a}) \ {x})
      BY <3>1
    <3>3. (T \ {x}) \ {a} = (T \ {a}) \ {x}
      OBVIOUS
    <3>4. SumOver(f, (T \ {a}) \ {x}) \in Nat /\ f[a] \in Nat /\ f[x] \in Nat
      BY <2>1, SumType
    <3> QED BY <2>1, <3>2, <3>3, <3>4
  <2> QED BY <2>1, <2>2
<1> HIDE DEF Good
<1>2. SUBSET D \subseteq Good
  BY <1>1, SetInduction
<1> QED BY <1>2 DEF Good

\* What is not more at any place is not more in sum.
LEMMA SumMonotone ==
    ASSUME NEW D, IsFiniteSet(D), NEW f \in [D -> Nat], NEW g \in [D -> Nat]
    PROVE  \A S \in SUBSET D :
              (\A u \in S : g[u] <= f[u]) => SumOver(g, S) <= SumOver(f, S)
<1> DEFINE Good == {T \in SUBSET D :
              (\A u \in T : g[u] <= f[u]) => SumOver(g, T) <= SumOver(f, T)}
<1>1. ASSUME NEW T \in SUBSET D, \A U \in SUBSET T : U # T => U \in Good
      PROVE  T \in Good
  <2> SUFFICES ASSUME \A u \in T : g[u] <= f[u]
               PROVE  SumOver(g, T) <= SumOver(f, T)
    OBVIOUS
  <2>1. IsFiniteSet(T)
    BY FS_Subset
  <2>2. CASE T = {}
    <3>1. SumOver(f, T) = 0 /\ SumOver(g, T) = 0
      BY <2>1, <2>2, SumFirst
    <3> QED BY <3>1
  <2>3. CASE T # {}
    <3> DEFINE x == First(T)
    <3>1. x \in T /\ SumOver(f, T) = f[x] + SumOver(f, T \ {x})
          /\ SumOver(g, T) = g[x] + SumOver(g, T \ {x})
      BY <2>1, <2>3, SumFirst
    <3>2. SumOver(g, T \ {x}) <= SumOver(f, T \ {x})
      BY <1>1, <3>1
    <3>3. SumOver(g, T \ {x}) \in Nat /\ SumOver(f, T \ {x}) \in Nat
          /\ f[x] \in Nat /\ g[x] \in Nat /\ g[x] <= f[x]
      BY <3>1, SumType
    <3> QED BY <3>1, <3>2, <3>3
  <2> QED BY <2>2, <2>3
<1> HIDE DEF Good
<1>2. SUBSET D \subseteq Good
  BY <1>1, SetInduction
<1> QED BY <1>2 DEF Good

\* Two sums are the sum of the two at each place.
LEMMA SumPlus ==
    ASSUME NEW D, IsFiniteSet(D), NEW f \in [D -> Nat], NEW g \in [D -> Nat],
           NEW e \in [D -> Nat], \A u \in D : e[u] = f[u] + g[u]
    PROVE  \A S \in SUBSET D : SumOver(e, S) = SumOver(f, S) + SumOver(g, S)
<1> DEFINE Good == {T \in SUBSET D : SumOver(e, T) = SumOver(f, T) + SumOver(g, T)}
<1>1. ASSUME NEW T \in SUBSET D, \A U \in SUBSET T : U # T => U \in Good
      PROVE  T \in Good
  <2>1. IsFiniteSet(T)
    BY FS_Subset
  <2>2. CASE T = {}
    <3>1. SumOver(e, T) = 0 /\ SumOver(f, T) = 0 /\ SumOver(g, T) = 0
      BY <2>1, <2>2, SumFirst
    <3> QED BY <3>1
  <2>3. CASE T # {}
    <3> DEFINE x == First(T)
    <3>1. x \in T /\ SumOver(f, T) = f[x] + SumOver(f, T \ {x})
          /\ SumOver(g, T) = g[x] + SumOver(g, T \ {x})
          /\ SumOver(e, T) = e[x] + SumOver(e, T \ {x})
      BY <2>1, <2>3, SumFirst
    <3>2. SumOver(e, T \ {x}) = SumOver(f, T \ {x}) + SumOver(g, T \ {x})
      BY <1>1, <3>1
    <3>3. SumOver(g, T \ {x}) \in Nat /\ SumOver(f, T \ {x}) \in Nat
          /\ f[x] \in Nat /\ g[x] \in Nat /\ e[x] = f[x] + g[x]
      BY <3>1, SumType
    <3> QED BY <3>1, <3>2, <3>3
  <2> QED BY <2>2, <2>3
<1> HIDE DEF Good
<1>2. SUBSET D \subseteq Good
  BY <1>1, SetInduction
<1> QED BY <1>2 DEF Good

-----------------------------------------------------------------------------
(***************************************************************************)
(* The gold.                                                               *)
(***************************************************************************)

ClientMessages ==
    [op : {"REQ", "AGREE", "ADD_GOLD", "ADD_ITEM", "DECIDE", "CANCEL"},
     arg : Users \cup {NoUser} \cup BOOLEAN \cup Amounts \cup Items]

\* Nobody is, or asks to be, his own partner: such a trade would double his gold.
NoSelfTrade ==
    /\ toServer \in [Users -> Seq(ClientMessages)]
    /\ \A u \in Users :
         /\ partner[u] # u
         /\ \A n \in DOMAIN toServer[u] : toServer[u][n].op = "REQ" => toServer[u][n].arg # u

\* A packet of the client keeps the channel free of requests to himself.
LEMMA SendsToOthers ==
  ASSUME NoSelfTrade, NEW u \in Users, NEW msg \in ClientMessages, SendToServer(u, msg),
         msg.op = "REQ" => msg.arg # u, partner' = partner
  PROVE  NoSelfTrade'
  <1>1. \A v \in Users : toServer'[v] = IF v = u THEN Append(toServer[u], msg) ELSE toServer[v]
    BY DEF SendToServer, NoSelfTrade
  <1>2. toServer[u] \in Seq(ClientMessages)
    BY DEF NoSelfTrade
  <1>3. Append(toServer[u], msg) \in Seq(ClientMessages)
    BY <1>2
  <1>4. \A n \in DOMAIN Append(toServer[u], msg) :
           Append(toServer[u], msg)[n].op = "REQ" => Append(toServer[u], msg)[n].arg # u
    BY <1>2 DEF NoSelfTrade
  <1>5. toServer' \in [Users -> Seq(ClientMessages)]
    BY <1>3 DEF SendToServer, NoSelfTrade
  <1> QED BY <1>1, <1>4, <1>5 DEF NoSelfTrade

\* A packet that is handled, or thrown away, leaves the others.
LEMMA HandlesOthers ==
  ASSUME NoSelfTrade, NEW u \in Users,
         \/ toServer' = toServer
         \/ toServer[u] # <<>> /\ toServer' = [toServer EXCEPT ![u] = Tail(@)]
         \/ toServer' = [toServer EXCEPT ![u] = <<>>],
         \A v \in Users : partner'[v] # v
  PROVE  NoSelfTrade'
  <1>1. toServer[u] \in Seq(ClientMessages)
    BY DEF NoSelfTrade
  <1>2. CASE toServer' = toServer
    BY <1>2 DEF NoSelfTrade
  <1>3. ASSUME NEW q \in Seq(ClientMessages), toServer' = [toServer EXCEPT ![u] = q],
               \A n \in DOMAIN q : q[n].op = "REQ" => q[n].arg # u
        PROVE  NoSelfTrade'
    BY <1>3 DEF NoSelfTrade
  <1>4. CASE toServer[u] # <<>> /\ toServer' = [toServer EXCEPT ![u] = Tail(@)]
    <2>1. \A n \in DOMAIN Tail(toServer[u]) :
             Tail(toServer[u])[n].op = "REQ" => Tail(toServer[u])[n].arg # u
      BY <1>1, <1>4 DEF NoSelfTrade
    <2>2. Tail(toServer[u]) \in Seq(ClientMessages)
      BY <1>1, <1>4
    <2> QED BY <1>3, <1>4, <2>1, <2>2
  <1>5. CASE toServer' = [toServer EXCEPT ![u] = <<>>]
    <2>1. <<>> \in Seq(ClientMessages) /\ DOMAIN <<>> = {}
      OBVIOUS
    <2> QED BY <1>3, <1>5, <2>1, Zenon
  <1> QED BY <1>2, <1>4, <1>5

\* No step makes a user his own partner.
LEMMA NoSelfTradeStep ==
  ASSUME ExchangeInv, NoSelfTrade, [Next]_vars PROVE NoSelfTrade'
  <1>1. CASE UNCHANGED vars
    BY <1>1, Zenon DEF vars, tradeVars, NoSelfTrade
  <1>2. ASSUME NEW u \in Users, Client(u) PROVE NoSelfTrade'
    <2>1. partner' = partner
      BY <1>2 DEF Client, Ask, AnswerRequest, Add, Decide, Cancel, ServerUnchanged, tradeVars
    <2>2. \E msg \in ClientMessages :
             SendToServer(u, msg) /\ (msg.op = "REQ" => msg.arg # u)
      <3>1. ASSUME NEW target \in Users, Ask(u, target)
            PROVE  SendToServer(u, Msg("REQ", target)) /\ target # u
        BY <3>1 DEF Ask
      <3>2. CASE AnswerRequest(u)
        <4>1. PICK agrees \in BOOLEAN : SendToServer(u, Msg("AGREE", agrees))
          BY <3>2, Zenon DEF AnswerRequest
        <4>2. Msg("AGREE", agrees) \in ClientMessages /\ Msg("AGREE", agrees).op = "AGREE"
          BY DEF Msg, ClientMessages
        <4> QED BY <4>1, <4>2
      <3>3. CASE Add(u)
        <4>1. inventory[u] \subseteq Items
          BY DEF ExchangeInv, PurseTypes
        <4>2. PICK op \in {"ADD_GOLD", "ADD_ITEM"}, arg \in Amounts \cup Items :
                 SendToServer(u, Msg(op, arg))
          BY <3>3, <4>1 DEF Add
        <4>3. Msg(op, arg) \in ClientMessages /\ Msg(op, arg).op # "REQ"
          BY DEF Msg, ClientMessages
        <4> QED BY <4>2, <4>3
      <3>4. CASE Decide(u) \/ Cancel(u)
        BY <3>4 DEF Decide, Cancel, Msg, ClientMessages
      <3>5. \A target \in Users : Msg("REQ", target) \in ClientMessages
                                  /\ Msg("REQ", target).arg = target
        BY DEF Msg, ClientMessages
      <3> QED BY <1>2, <3>1, <3>2, <3>3, <3>4, <3>5 DEF Client
    <2> QED BY <2>1, <2>2, SendsToOthers
  <1>3. ASSUME NEW u \in Users, Receive(u) PROVE NoSelfTrade'
    BY <1>3, HandlesOthers DEF Receive, tradeVars, NoSelfTrade
  <1>4. ASSUME NEW u \in Users, Server(u)
        PROVE  toServer[u] # <<>> /\ toServer' = [toServer EXCEPT ![u] = Tail(@)]
    BY <1>4 DEF Server, ExchangeReq, ExchangeAgree, ExchangeAddGold, ExchangeAddItem,
                ExchangeDecide, HandleCancel, Handles
  <1>5. ASSUME NEW u \in Users, Server(u) \/ LogOut(u) PROVE \A v \in Users : partner'[v] # v
    <2>1. \A v \in Users : partner[v] # v /\ v # NoUser
      BY UserAssumption DEF NoSelfTrade
    <2>2. ASSUME NEW target \in Users, ExchangeReq(u, target) PROVE \A v \in Users : partner'[v] # v
      <3>1. target # u
        <4>1. toServer[u] \in Seq(ClientMessages) /\ toServer[u] # <<>>
              /\ Head(toServer[u]) = Msg("REQ", target)
          BY <2>2 DEF NoSelfTrade, ExchangeReq, Handles
        <4>2. 1 \in DOMAIN toServer[u] /\ toServer[u][1] = Msg("REQ", target)
          BY <4>1
        <4> QED BY <4>2 DEF NoSelfTrade, Msg
      <3> QED BY <2>1, <2>2, <3>1 DEF ExchangeReq, ExchangeInv, TradeTypes
    <2>3. ASSUME \/ partner' = partner
                 \/ \E set : partner' = Reset(partner, set, NoUser)
                 \/ \E p \in Users : partner' = [partner EXCEPT ![u] = NoUser, ![p] = NoUser]
                 \/ partner' = [partner EXCEPT ![u] = NoUser]
          PROVE  \A v \in Users : partner'[v] # v
      BY <2>1, <2>3 DEF Reset, ExchangeInv, TradeTypes
    <2>4. CASE UndoTrades(u)
      BY <2>3, <2>4 DEF UndoTrades, EndExchange
    <2>5. ASSUME NEW result \in BOOLEAN, ExchangeAgree(u, result)
          PROVE  \A v \in Users : partner'[v] # v
      <3>1. Partner(u) # NoUser => Partner(u) \in Users
        BY PartnerFound DEF ExchangeInv
      <3> QED BY <2>3, <2>5, <3>1 DEF ExchangeAgree
    <2>6. ASSUME NEW n \in Amounts, ExchangeAddGold(u, n) PROVE \A v \in Users : partner'[v] # v
      BY <2>3, <2>4, <2>6 DEF ExchangeAddGold, ExchangeCancel
    <2>7. ASSUME NEW i \in Items, ExchangeAddItem(u, i) PROVE \A v \in Users : partner'[v] # v
      BY <2>3, <2>4, <2>7 DEF ExchangeAddItem, ExchangeCancel
    <2>8. CASE ExchangeDecide(u)
      BY <2>3, <2>4, <2>8 DEF ExchangeDecide, EndExchange, ExchangeCancel
    <2>9. CASE LogOut(u)
      BY <2>3, <2>4, <2>9 DEF LogOut
    <2> QED BY <1>5, <2>2, <2>4, <2>5, <2>6, <2>7, <2>8, <2>9
          DEF Server, HandleCancel, ExchangeCancel
  <1>6. ASSUME NEW u \in Users, LogOut(u) PROVE toServer' = [toServer EXCEPT ![u] = <<>>]
    BY <1>6 DEF LogOut
  <1>7. ASSUME NEW u \in Users, LogIn(u) PROVE NoSelfTrade'
    BY <1>7, HandlesOthers DEF LogIn, tradeVars, NoSelfTrade
  <1> QED BY <1>1, <1>2, <1>3, <1>4, <1>5, <1>6, <1>7, HandlesOthers DEF Next

\* What a user has, offered or not.
Wealth == [u \in Users |-> gold[u] + offerGold[u]]

\* The total is what is saved and the sum of what everyone has.
LEMMA TotalIsWealth ==
  ASSUME ExchangeInv
  PROVE  /\ TotalGold = storedGold + SumOver(Wealth, Users)
         /\ Wealth \in [Users -> Nat] /\ storedGold \in Nat
  <1>1. gold \in [Users -> Nat] /\ offerGold \in [Users -> Nat]
    BY DEF ExchangeInv, PurseTypes, TradeTypes
  <1>2. Wealth \in [Users -> Nat] /\ \A u \in Users : Wealth[u] = gold[u] + offerGold[u]
    BY <1>1 DEF Wealth
  <1>3. DOMAIN gold = Users /\ DOMAIN offerGold = Users
    BY <1>1
  <1>4. TotalGold = storedGold + SumOver(gold, DOMAIN gold)
                               + SumOver(offerGold, DOMAIN offerGold)
    BY DEF TotalGold, SumOver, FoldFunction
  <1>5. SumOver(Wealth, Users) = SumOver(gold, Users) + SumOver(offerGold, Users)
    BY <1>1, <1>2, SumPlus, UserAssumption
  <1>6. /\ storedGold \in Nat
        /\ SumOver(gold, Users) \in Nat /\ SumOver(offerGold, Users) \in Nat
    BY <1>1, SumType, UserAssumption DEF ExchangeInv, StoreTypes
  <1>7. TotalGold = storedGold + SumOver(gold, Users) + SumOver(offerGold, Users)
    BY <1>3, <1>4
  <1> QED BY <1>2, <1>5, <1>6, <1>7

\* The same after a step.
LEMMA TotalIsWealthNext ==
  ASSUME ExchangeInv'
  PROVE  /\ TotalGold' = storedGold' + SumOver(Wealth', Users)
         /\ Wealth' \in [Users -> Nat] /\ storedGold' \in Nat
  <1>1. gold' \in [Users -> Nat] /\ offerGold' \in [Users -> Nat]
    BY DEF ExchangeInv, PurseTypes, TradeTypes
  <1>2. Wealth' \in [Users -> Nat] /\ \A u \in Users : Wealth'[u] = gold'[u] + offerGold'[u]
    BY <1>1 DEF Wealth
  <1>3. DOMAIN gold' = Users /\ DOMAIN offerGold' = Users
    BY <1>1
  <1>4. TotalGold' = storedGold' + SumOver(gold', DOMAIN gold')
                                 + SumOver(offerGold', DOMAIN offerGold')
    BY DEF TotalGold, SumOver, FoldFunction, FoldFunctionOnSet, MapThenFoldSet
  <1>5. SumOver(Wealth', Users) = SumOver(gold', Users) + SumOver(offerGold', Users)
    BY <1>1, <1>2, SumPlus, UserAssumption
  <1>6. /\ storedGold' \in Nat
        /\ SumOver(gold', Users) \in Nat /\ SumOver(offerGold', Users) \in Nat
    BY <1>1, SumType, UserAssumption DEF ExchangeInv, StoreTypes
  <1>7. TotalGold' = storedGold' + SumOver(gold', Users) + SumOver(offerGold', Users)
    BY <1>3, <1>4
  <1> QED BY <1>2, <1>5, <1>6, <1>7

\* When nobody has more, there is not more.
LEMMA WealthDown ==
  ASSUME ExchangeInv, ExchangeInv', storedGold' = storedGold,
         \A u \in Users : Wealth'[u] <= Wealth[u]
  PROVE  TotalGold' <= TotalGold
  <1>1. SumOver(Wealth', Users) <= SumOver(Wealth, Users)
    BY TotalIsWealth, TotalIsWealthNext, SumMonotone, UserAssumption
  <1>2. SumOver(Wealth', Users) \in Nat /\ SumOver(Wealth, Users) \in Nat
    BY TotalIsWealth, TotalIsWealthNext, SumType, UserAssumption
  <1> QED BY <1>1, <1>2, TotalIsWealth, TotalIsWealthNext

\* When everyone has what he had, there is as much.
LEMMA WealthSame ==
  ASSUME ExchangeInv, ExchangeInv', storedGold' = storedGold,
         \A u \in Users : Wealth'[u] = Wealth[u]
  PROVE  TotalGold' = TotalGold
  <1>1. Wealth' = Wealth
    BY TotalIsWealth, TotalIsWealthNext
  <1> QED BY <1>1, TotalIsWealth, TotalIsWealthNext

\* What two or three users have between them decides.
LEMMA WealthOfThree ==
  ASSUME ExchangeInv, ExchangeInv', NEW a \in Users, NEW b \in Users, NEW c \in Users,
         a # b, b # c, a # c, storedGold' = storedGold,
         \A u \in Users \ {a, b, c} : Wealth'[u] = Wealth[u]
  PROVE  /\ {Wealth[a], Wealth[b], Wealth[c], Wealth'[a], Wealth'[b], Wealth'[c]} \subseteq Nat
         /\ \E rest \in Nat :
               /\ TotalGold = Wealth[a] + (Wealth[b] + (Wealth[c] + rest))
               /\ TotalGold' = Wealth'[a] + (Wealth'[b] + (Wealth'[c] + rest))
  <1> DEFINE f == Wealth
             g == Wealth'
             U1 == Users \ {a}
             U2 == U1 \ {b}
             U3 == U2 \ {c}
  <1>1. /\ f \in [Users -> Nat] /\ g \in [Users -> Nat] /\ IsFiniteSet(Users)
        /\ TotalGold = storedGold + SumOver(f, Users)
        /\ TotalGold' = storedGold + SumOver(g, Users) /\ storedGold \in Nat
    BY TotalIsWealth, TotalIsWealthNext, UserAssumption
  <1>2. /\ U1 \in SUBSET Users /\ U2 \in SUBSET Users /\ U3 \in SUBSET Users
        /\ b \in U1 /\ c \in U2
    OBVIOUS
  <1>3. \A u \in U3 : g[u] = f[u]
    OBVIOUS
  <1> HIDE DEF f, g
  <1>4. /\ SumOver(f, Users) = f[a] + SumOver(f, U1)
        /\ SumOver(g, Users) = g[a] + SumOver(g, U1)
    BY <1>1, SumTake
  <1> HIDE DEF U1
  <1>5. /\ SumOver(f, U1) = f[b] + SumOver(f, U2)
        /\ SumOver(g, U1) = g[b] + SumOver(g, U2)
    BY <1>1, <1>2, SumTake
  <1> HIDE DEF U2
  <1>6. /\ SumOver(f, U2) = f[c] + SumOver(f, U3)
        /\ SumOver(g, U2) = g[c] + SumOver(g, U3)
    BY <1>1, <1>2, SumTake
  <1> HIDE DEF U3
  <1>7. SumOver(f, U3) \in Nat /\ SumOver(g, U3) \in Nat
    BY <1>1, <1>2, SumType
  <1>8. \A u \in U3 : g[u] <= f[u] /\ f[u] <= g[u]
    BY <1>1, <1>2, <1>3
  <1>9. SumOver(g, U3) = SumOver(f, U3)
    <2>1. SumOver(g, U3) <= SumOver(f, U3)
      BY <1>1, <1>2, <1>8, SumMonotone
    <2>2. SumOver(f, U3) <= SumOver(g, U3)
      BY <1>1, <1>2, <1>8, SumMonotone
    <2> QED BY <1>7, <2>1, <2>2
  <1>10. {f[a], f[b], f[c], g[a], g[b], g[c]} \subseteq Nat
    BY <1>1
  <1> DEFINE rest == storedGold + SumOver(f, U3)
  <1>11. /\ rest \in Nat
         /\ TotalGold = f[a] + (f[b] + (f[c] + rest))
         /\ TotalGold' = g[a] + (g[b] + (g[c] + rest))
    BY <1>1, <1>4, <1>5, <1>6, <1>7, <1>9, <1>10
  <1> QED BY <1>10, <1>11 DEF f, g

\* When two users exchange what they have, there is as much.
LEMMA WealthOfTwo ==
  ASSUME ExchangeInv, ExchangeInv', NEW a \in Users, NEW b \in Users, a # b,
         storedGold' = storedGold,
         \A u \in Users \ {a, b} : Wealth'[u] = Wealth[u],
         Wealth'[a] + Wealth'[b] = Wealth[a] + Wealth[b]
  PROVE  TotalGold' = TotalGold
  <1> DEFINE f == Wealth
             g == Wealth'
             U1 == Users \ {a}
             U2 == U1 \ {b}
  <1>1. /\ f \in [Users -> Nat] /\ g \in [Users -> Nat] /\ IsFiniteSet(Users)
        /\ TotalGold = storedGold + SumOver(f, Users)
        /\ TotalGold' = storedGold + SumOver(g, Users) /\ storedGold \in Nat
    BY TotalIsWealth, TotalIsWealthNext, UserAssumption
  <1>2. U1 \in SUBSET Users /\ U2 \in SUBSET Users /\ b \in U1
    OBVIOUS
  <1>3. \A u \in U2 : g[u] = f[u]
    OBVIOUS
  <1>4. g[a] + g[b] = f[a] + f[b]
    OBVIOUS
  <1> HIDE DEF f, g
  <1>5. /\ SumOver(f, Users) = f[a] + SumOver(f, U1)
        /\ SumOver(g, Users) = g[a] + SumOver(g, U1)
    BY <1>1, SumTake
  <1> HIDE DEF U1
  <1>6. /\ SumOver(f, U1) = f[b] + SumOver(f, U2)
        /\ SumOver(g, U1) = g[b] + SumOver(g, U2)
    BY <1>1, <1>2, SumTake
  <1> HIDE DEF U2
  <1>7. SumOver(f, U2) \in Nat /\ SumOver(g, U2) \in Nat
    BY <1>1, <1>2, SumType
  <1>8. \A u \in U2 : g[u] <= f[u] /\ f[u] <= g[u]
    BY <1>1, <1>2, <1>3
  <1>9. SumOver(g, U2) = SumOver(f, U2)
    <2>1. SumOver(g, U2) <= SumOver(f, U2)
      BY <1>1, <1>2, <1>8, SumMonotone
    <2>2. SumOver(f, U2) <= SumOver(g, U2)
      BY <1>1, <1>2, <1>8, SumMonotone
    <2> QED BY <1>7, <2>1, <2>2
  <1>10. {f[a], f[b], g[a], g[b]} \subseteq Nat
    BY <1>1
  <1> QED BY <1>1, <1>4, <1>5, <1>6, <1>7, <1>9, <1>10

\* Gold that is given back, or offered, stays its owner's.
LEMMA RefundKeepsWealth ==
  ASSUME ExchangeInv, NEW set, Refund(set) PROVE \A u \in Users : Wealth'[u] = Wealth[u]
  <1>1. \A u \in Users :
           /\ gold'[u] = IF u \in set THEN gold[u] + offerGold[u] ELSE gold[u]
           /\ offerGold'[u] = IF u \in set THEN 0 ELSE offerGold[u]
    BY DEF Refund, Reset
  <1>2. \A u \in Users : gold[u] \in Nat /\ offerGold[u] \in Nat
    BY DEF ExchangeInv, PurseTypes, TradeTypes
  <1> QED BY <1>1, <1>2 DEF Wealth

\* A trade of two partners exchanges their offers.  When the second one's partner
\* is a third user, whose offer he takes, the first one's is lost.
LEMMA TradeKeepsGold ==
  ASSUME ExchangeInv, ExchangeInv', NoSelfTrade, NEW u \in Users, NEW p \in Users,
         storedGold' = storedGold, p = Partner(u), TradeSucceeds(u, p)
  PROVE  /\ Partner(p) = u => TotalGold' = TotalGold
         /\ TotalGold' <= TotalGold
  <1> DEFINE w == Partner(p)
  <1>1. w \in Users /\ w # p /\ p # u
    BY UserAssumption, PartnerFound DEF TradeSucceeds, HasRoom, ExchangeInv, NoSelfTrade
  <1>2. /\ gold' = [gold EXCEPT ![u] = @ + offerGold[p], ![p] = @ + offerGold[w]]
        /\ offerGold' = [v \in Users |-> IF v \in {u, p, w} THEN 0 ELSE offerGold[v]]
    BY DEF TradeSucceeds, Reset
  <1> HIDE DEF w
  <1>3. \A v \in Users : gold[v] \in Nat /\ offerGold[v] \in Nat
    BY DEF ExchangeInv, PurseTypes, TradeTypes
  <1>4. /\ \A v \in Users : Wealth[v] = gold[v] + offerGold[v]
        /\ \A v \in Users : Wealth'[v] = gold'[v] + offerGold'[v]
    BY DEF Wealth
  <1>5. /\ gold'[u] = gold[u] + offerGold[p] /\ gold'[p] = gold[p] + offerGold[w]
        /\ \A v \in Users \ {u, p} : gold'[v] = gold[v]
    BY <1>1, <1>2 DEF ExchangeInv, PurseTypes
  <1>6. \A v \in Users : offerGold'[v] = IF v \in {u, p, w} THEN 0 ELSE offerGold[v]
    BY <1>2
  <1>7. \A v \in Users \ {u, p, w} : Wealth'[v] = Wealth[v]
    BY <1>4, <1>5, <1>6
  <1>8. CASE w = u
    <2>1. Wealth'[u] + Wealth'[p] = Wealth[u] + Wealth[p]
      BY <1>1, <1>3, <1>4, <1>5, <1>6, <1>8
    <2>2. TotalGold' = TotalGold
      BY <1>1, <1>7, <1>8, <2>1, WealthOfTwo
    <2>3. TotalGold \in Nat
      BY TotalIsWealth, SumType, UserAssumption
    <2> QED BY <2>2, <2>3, <1>8 DEF w
  <1>9. CASE w # u
    <2>1. /\ Wealth'[u] = gold[u] + offerGold[p] /\ Wealth'[p] = gold[p] + offerGold[w]
          /\ Wealth'[w] = gold[w]
      BY <1>1, <1>3, <1>4, <1>5, <1>6, <1>9
    <2>2. \E rest \in Nat :
             /\ TotalGold = Wealth[u] + (Wealth[p] + (Wealth[w] + rest))
             /\ TotalGold' = Wealth'[u] + (Wealth'[p] + (Wealth'[w] + rest))
      BY <1>1, <1>7, <1>9, WealthOfThree
    <2>3. /\ Wealth[u] = gold[u] + offerGold[u] /\ Wealth[p] = gold[p] + offerGold[p]
          /\ Wealth[w] = gold[w] + offerGold[w]
      BY <1>1, <1>4
    <2>4. TotalGold' <= TotalGold
      BY <1>1, <1>3, <2>1, <2>2, <2>3
    <2> QED BY <1>9, <2>4 DEF w
  <1> QED BY <1>8, <1>9

\* What one user takes from what is saved is missing there.
LEMMA EntryKeepsGold ==
  ASSUME ExchangeInv, ExchangeInv', NEW a \in Users, LogIn(a)
  PROVE  /\ TotalGold' = TotalGold
         /\ \A u \in Users \ {a} : Wealth'[u] = Wealth[u]
  <1> DEFINE f == Wealth
             g == Wealth'
             U1 == Users \ {a}
  <1>1. /\ f \in [Users -> Nat] /\ g \in [Users -> Nat] /\ IsFiniteSet(Users)
        /\ TotalGold = storedGold + SumOver(f, Users) /\ storedGold \in Nat
        /\ TotalGold' = storedGold' + SumOver(g, Users) /\ storedGold' \in Nat
    BY TotalIsWealth, TotalIsWealthNext, UserAssumption
  <1>2. PICK n \in Purses : /\ gold' = [gold EXCEPT ![a] = n]
                            /\ storedGold' = storedGold + gold[a] - n
    BY DEF LogIn
  <1>3. \A u \in Users : gold[u] \in Nat /\ offerGold[u] \in Nat
    BY DEF ExchangeInv, PurseTypes, TradeTypes
  <1>4. offerGold' = offerGold /\ n \in Nat
    BY BoundAssumption DEF LogIn, tradeVars
  <1>5. \A u \in Users \ {a} : g[u] = f[u]
    BY <1>2, <1>4 DEF Wealth
  <1>6. f[a] = gold[a] + offerGold[a] /\ g[a] = n + offerGold[a]
    BY <1>2, <1>4 DEF Wealth, ExchangeInv, PurseTypes
  <1>7. \A u \in U1 : g[u] <= f[u] /\ f[u] <= g[u]
    BY <1>1, <1>5
  <1> HIDE DEF f, g
  <1>8. U1 \in SUBSET Users
    OBVIOUS
  <1>9. SumOver(f, Users) = f[a] + SumOver(f, U1) /\ SumOver(g, Users) = g[a] + SumOver(g, U1)
    BY <1>1, SumTake
  <1> HIDE DEF U1
  <1>10. SumOver(f, U1) \in Nat /\ SumOver(g, U1) \in Nat
    BY <1>1, <1>8, SumType
  <1>11. SumOver(g, U1) = SumOver(f, U1)
    <2>1. SumOver(g, U1) <= SumOver(f, U1)
      BY <1>1, <1>7, <1>8, SumMonotone
    <2>2. SumOver(f, U1) <= SumOver(g, U1)
      BY <1>1, <1>7, <1>8, SumMonotone
    <2> QED BY <1>10, <2>1, <2>2
  <1>12. TotalGold' = TotalGold
    <2>1. /\ TotalGold = storedGold + (gold[a] + offerGold[a] + SumOver(f, U1))
          /\ TotalGold' = storedGold' + (n + offerGold[a] + SumOver(f, U1))
      BY <1>1, <1>6, <1>9, <1>11
    <2>2. gold[a] \in Nat /\ offerGold[a] \in Nat
      BY <1>3
    <2> QED BY <1>1, <1>2, <1>4, <1>10, <2>1, <2>2
  <1> QED BY <1>5, <1>12 DEF f, g

\* What GoldAccountedFor says of a step but for those who leave.
GoldKeeps == GoldConserved /\ GoldKeepsItsOwner

\* No step makes gold, and none but a decision or an entry makes somebody richer.
LEMMA GoldStep ==
  ASSUME ExchangeInv, NoSelfTrade, [Next]_vars PROVE GoldKeeps
  <1>1. ExchangeInv'
    BY ExchangeStep
  <1>2. TotalGold \in Nat /\ TotalGold' \in Nat
    BY <1>1, TotalIsWealth, TotalIsWealthNext, SumType, UserAssumption
  <1>3. \A u \in Users :
           /\ Wealth[u] = gold[u] + offerGold[u] /\ Wealth'[u] = gold'[u] + offerGold'[u]
           /\ Wealth[u] \in Nat /\ Wealth'[u] \in Nat
    BY <1>1, TotalIsWealth, TotalIsWealthNext DEF Wealth
  <1>4. ASSUME \A u \in Users : Wealth'[u] <= Wealth[u] PROVE GoldKeepsItsOwner
    <2>1. \A u \in Users : ~(gold'[u] + offerGold'[u] > gold[u] + offerGold[u])
      BY <1>3, <1>4
    <2> QED BY <2>1 DEF GoldKeepsItsOwner
  <1>5. ASSUME storedGold' = storedGold, \A u \in Users : Wealth'[u] = Wealth[u] PROVE GoldKeeps
    <2>1. TotalGold' = TotalGold
      BY <1>1, <1>5, WealthSame
    <2>2. GoldKeepsItsOwner
      BY <1>3, <1>4, <1>5
    <2> QED BY <2>1, <2>2 DEF GoldKeeps, GoldConserved
  <1>6. ASSUME UNCHANGED <<gold, offerGold, storedGold>> PROVE GoldKeeps
    BY <1>5, <1>6 DEF Wealth
  <1>7. ASSUME NEW set, Refund(set), storedGold' = storedGold PROVE GoldKeeps
    BY <1>5, <1>7, RefundKeepsWealth
  <1>8. ASSUME NEW u \in Users, UndoTrades(u), storedGold' = storedGold PROVE GoldKeeps
    BY <1>7, <1>8 DEF UndoTrades
  <1>9. ASSUME TotalGold' <= TotalGold, TotalGold' # TotalGold PROVE TotalGold' < TotalGold
    BY <1>2, <1>9
  <1>10. CASE UNCHANGED vars
    BY <1>6, <1>10 DEF vars, purseVars, tradeVars, storeVars
  <1>11. ASSUME NEW u \in Users, Client(u) \/ Receive(u) PROVE GoldKeeps
    BY <1>6, <1>11 DEF Client, Ask, AnswerRequest, Add, Decide, Cancel, Receive,
                       ServerUnchanged, purseVars, tradeVars, storeVars
  <1>12. ASSUME NEW u \in Users, NEW target \in Users, ExchangeReq(u, target) PROVE GoldKeeps
    BY <1>6, <1>12 DEF ExchangeReq, purseVars, ClientUnchanged, storeVars
  <1>13. ASSUME NEW u \in Users, NEW result \in BOOLEAN, ExchangeAgree(u, result)
         PROVE  GoldKeeps
    <2>1. gold' = gold /\ storedGold' = storedGold
      BY <1>13 DEF ExchangeAgree, purseVars, ClientUnchanged, storeVars
    <2>2. CASE offerGold' = offerGold
      BY <1>6, <2>1, <2>2
    <2>3. CASE result /\ BeginExchange({u, Partner(u)})
      <3>1. \A v \in Users : gold[v] \in Nat /\ offerGold[v] \in Nat
        BY DEF ExchangeInv, PurseTypes, TradeTypes
      <3>2. \A v \in Users : Wealth'[v] <= Wealth[v]
        BY <2>1, <2>3, <3>1 DEF BeginExchange, Wealth, Reset
      <3>3. TotalGold' <= TotalGold
        BY <1>1, <2>1, <3>2, WealthDown
      <3>4. ExchangeAgree(u, TRUE)
        BY <1>13, <2>3
      <3>5. GoldKeepsItsOwner
        BY <1>4, <3>2
      <3>6. GoldConserved
        BY <1>9, <3>3, <3>4, Zenon DEF GoldConserved
      <3> QED BY <3>5, <3>6 DEF GoldKeeps
    <2> QED BY <1>13, <2>2, <2>3 DEF ExchangeAgree
  <1>14. ASSUME NEW u \in Users, NEW n \in Amounts, ExchangeAddGold(u, n) PROVE GoldKeeps
    <2> storedGold' = storedGold
      BY <1>14 DEF ExchangeAddGold, ClientUnchanged, storeVars
    <2>1. CASE ExchangeCancel(u)
      BY <1>8, <2>1 DEF ExchangeCancel
    <2>2. CASE UNCHANGED <<gold, offerGold>>
      BY <1>6, <2>2
    <2>3. CASE /\ gold' = [gold EXCEPT ![u] = @ - n]
               /\ offerGold' = [offerGold EXCEPT ![u] = @ + n]
      <3>1. /\ gold \in [Users -> Nat] /\ offerGold \in [Users -> Nat] /\ n \in Nat
        BY AmountAssumption DEF ExchangeInv, PurseTypes, TradeTypes
      <3>2. \A v \in Users : Wealth'[v] = Wealth[v]
        BY <2>3, <3>1 DEF Wealth
      <3> QED BY <1>5, <3>2
    <2> QED BY <1>14, <2>1, <2>2, <2>3 DEF ExchangeAddGold
  <1>15. ASSUME NEW u \in Users, NEW i \in Items, ExchangeAddItem(u, i) PROVE GoldKeeps
    BY <1>6, <1>8, <1>15 DEF ExchangeAddItem, ExchangeCancel, ClientUnchanged, storeVars
  <1>16. ASSUME NEW u \in Users, HandleCancel(u) PROVE GoldKeeps
    BY <1>8, <1>16 DEF HandleCancel, ExchangeCancel, ClientUnchanged, storeVars
  <1>17. ASSUME NEW u \in Users, ExchangeDecide(u) PROVE GoldKeeps
    <2> storedGold' = storedGold
      BY <1>17 DEF ExchangeDecide, ClientUnchanged, storeVars
    <2>1. CASE ExchangeCancel(u)
      BY <1>8, <2>1 DEF ExchangeCancel
    <2>2. CASE UNCHANGED purseVars /\ UNCHANGED offerGold
      BY <1>6, <2>2 DEF purseVars
    <2>3. CASE TradeFails(u, Partner(u))
      BY <1>7, <2>3 DEF TradeFails
    <2>4. CASE Partner(u) # NoUser /\ TradeSucceeds(u, Partner(u))
      <3>1. Partner(u) \in Users
        BY <2>4, PartnerFound DEF ExchangeInv
      <3>2. /\ Partner(Partner(u)) = u => TotalGold' = TotalGold
            /\ TotalGold' <= TotalGold
        BY <1>1, <2>4, <3>1, TradeKeepsGold
      <3>3. Partner(Partner(u)) = partner[Partner(u)]
        BY <2>4, PartnerFound DEF TradeSucceeds, HasRoom
      <3>4. GoldConserved
        BY <1>9, <1>17, <3>2, <3>3, Zenon DEF GoldConserved
      <3>5. GoldKeepsItsOwner
        BY <1>17 DEF GoldKeepsItsOwner
      <3> QED BY <3>4, <3>5 DEF GoldKeeps
    <2> QED BY <1>17, <2>1, <2>2, <2>3, <2>4 DEF ExchangeDecide
  <1>18. ASSUME NEW u \in Users, LogOut(u) PROVE GoldKeeps
    BY <1>6, <1>8, <1>18 DEF LogOut, purseVars, storeVars
  <1>19. ASSUME NEW u \in Users, LogIn(u) PROVE GoldKeeps
    <2>1. GoldConserved
      BY <1>1, <1>19, EntryKeepsGold DEF GoldConserved
    <2>2. \A v \in Users \ {u} : ~(gold'[v] + offerGold'[v] > gold[v] + offerGold[v])
      BY <1>1, <1>3, <1>19, EntryKeepsGold
    <2>3. GoldKeepsItsOwner
      BY <1>19, <2>2 DEF GoldKeepsItsOwner
    <2> QED BY <2>1, <2>3 DEF GoldKeeps
  <1> QED BY <1>10, <1>11, <1>12, <1>13, <1>14, <1>15, <1>16, <1>17, <1>18, <1>19
      DEF Next, Server

\* The cancel of a log-out returns the leaver's gold before anything else happens.
LEMMA LeaverStep ==
  ASSUME ExchangeInv PROVE LeaverIsRefunded
  <1> SUFFICES ASSUME NEW u \in Users, LogOut(u), partner[u] # NoUser
               PROVE  gold'[u] = gold[u] + offerGold[u]
    BY DEF LeaverIsRefunded
  <1>1. Refund(Cancelled(u))
    BY DEF LogOut, UndoTrades
  <1>2. u \in Cancelled(u)
    BY CancelReaches DEF ExchangeInv
  <1> QED BY <1>1, <1>2 DEF Refund

-----------------------------------------------------------------------------
(***************************************************************************)
(* The theorems.                                                           *)
(***************************************************************************)

\* The invariant holds of every behaviour.
LEMMA ExchangeInvariant == Spec => []ExchangeInv
  <1>1. Init => ExchangeInv
    BY StartAssumption DEF Init, ExchangeInv, PurseTypes, TradeTypes, ClientTypes,
                           WindowStates, StoreTypes, ListsDivide
  <1> QED BY <1>1, ExchangeStep, PTL DEF Spec

\* Purses, lists, mirrors and windows have their types: in particular no purse
\* and no offer of gold is ever negative.
THEOREM TypeCorrect == Spec => []TypeOK
  <1>1. ExchangeInv => TypeOK
    BY DEF ExchangeInv, PurseTypes, TradeTypes, ClientTypes, WindowStates, StoreTypes, TypeOK
  <1> QED BY <1>1, ExchangeInvariant, PTL

\* No item is offered and kept, whatever requests, answers, offers, decisions and
\* log-outs cross, among any number of users, in any slot that has not passed a
\* former user's list or mirror on to the one who is in it.
THEOREM BagsDivided == Spec => []MirrorDividesBag
  <1>1. ExchangeInv => MirrorDividesBag
    BY DEF ExchangeInv, ListsDivide, MirrorDividesBag
  <1> QED BY <1>1, ExchangeInvariant, PTL

\* Whose partner turns away is free again, unless one of the two asked somebody
\* else, or a third user who names the partner refuses or decides.
THEOREM PartnersPartTogether == Spec => PartnersMutual
  <1>1. ExchangeInv /\ [Next]_vars =>
          \A u, p \in Users : Mutual(u, p) => Parted(u, p)
    BY PartnersStep
  <1>2. ExchangeInv /\ [Next]_vars =>
          [\A u, p \in Users :
             Mutual(u, p) => \/ Mutual(u, p)'
                             \/ Partner(u)' = NoUser
                             \/ \E target \in Users : ExchangeReq(p, target)
                             \/ \E target \in Users : ExchangeReq(u, target)
                             \/ \E w \in Users \ {u} :
                                  /\ partner[w] = p
                                  /\ ExchangeAgree(w, FALSE) \/ ExchangeDecide(w)]_vars
    BY <1>1 DEF Parted
  <1> QED BY <1>2, ExchangeInvariant, PTL DEF Spec, PartnersMutual

\* Nobody is his own partner in any behaviour.
LEMMA NoSelfTradeHolds == Spec => []NoSelfTrade
  <1>1. Init => NoSelfTrade
    BY UserAssumption DEF Init, NoSelfTrade
  <1> QED BY <1>1, NoSelfTradeStep, ExchangeInvariant, PTL DEF Spec

\* No step creates gold; one that loses some is an agreement over offers that are
\* still listed, or a trade with somebody who trades with a third user.  Every
\* cancel returns all of it, however long the chain of partners it reaches, and to
\* the one who is in the slot: nobody grows richer but by a decision or by entering
\* a slot, whose list he finds.
THEOREM GoldKept == Spec => GoldAccountedFor
  <1>1. ExchangeInv /\ NoSelfTrade /\ [Next]_vars =>
          GoldConserved /\ GoldKeepsItsOwner /\ LeaverIsRefunded
    BY GoldStep, LeaverStep DEF GoldKeeps
  <1>2. ExchangeInv /\ NoSelfTrade /\ [Next]_vars =>
          [GoldConserved /\ GoldKeepsItsOwner /\ LeaverIsRefunded]_vars
    BY <1>1
  <1> QED BY <1>2, ExchangeInvariant, NoSelfTradeHolds, PTL DEF Spec, GoldAccountedFor
=============================================================================
