------------------------------- MODULE Exchange -------------------------------
(***************************************************************************)
(* The player-to-player trade: Ebenezer's CUser exchange handlers and the  *)
(* client's CSubProcPerTrade, as one message-passing protocol.             *)
(*                                                                         *)
(* The server runs one packet handler at a time (ReceivedData under the    *)
(* socket manager's _mutex), so a handler is one step.  Each connection is *)
(* a pair of FIFO channels; messages of different users overtake each      *)
(* other freely.  Items are not countable, each is a value of its own, and *)
(* a bag is the set of items in it.                                        *)
(***************************************************************************)
EXTENDS Integers, Sequences, FiniteSets, Functions

CONSTANTS
    Users,         \* the users' socket ids, which are slots: one user after another
    NoUser,        \* -1, no exchange partner
    Items,         \* the items there are
    StartGold,     \* gold each user starts with
    StartItems,    \* items each user starts with, [Users -> SUBSET Items]
    StartLists,    \* gold that former users may have left in the slots' lists
    Capacity,      \* HAVE_MAX: items a bag holds
    Amounts,       \* amounts of gold a user may offer at once
    Leavers,       \* bound: slots whose users may log out in a run
    Purses, Bags,  \* bound: gold and bags with which users enter a slot
    MaxBacklog,    \* bound: packets of one client not handled yet
    MaxRequests,   \* bound: trade requests in a run
    MaxAdds        \* bound: offers added in a run

ASSUME UserAssumption == IsFiniteSet(Users) /\ NoUser \notin Users
ASSUME StartAssumption ==
    /\ StartGold \in [Users -> Nat]
    /\ StartItems \in [Users -> SUBSET Items]
    /\ StartLists \subseteq [Users -> Nat]
    /\ \A u, v \in Users : u # v => StartItems[u] \cap StartItems[v] = {}
ASSUME AmountAssumption == Amounts \subseteq Nat \ {0} /\ Capacity \in Nat
ASSUME BoundAssumption ==
    /\ Leavers \subseteq Users
    /\ MaxBacklog \in Nat /\ MaxRequests \in Nat /\ MaxAdds \in Nat
    /\ Purses \subseteq Nat /\ Bags \subseteq SUBSET Items

VARIABLES
    online,         \* users in game
    gold,           \* m_iGold
    inventory,      \* the bag part of m_sItemArray
    partner,        \* m_sExchangeUser
    decided,        \* m_bExchangeOK
    offerGold,      \* the gold entry of m_ExchangeItemList
    offerItems,     \* its other entries
    mirror,         \* m_MirrorItem, the bag as it will be after the trade
    window,         \* client: m_ePerTradeState
    waiting,        \* client: s_bWaitFromServer
    approved,       \* client: the decide button was pressed in this window
    toServer,       \* packets sent by the client and not handled yet
    toClient,       \* packets sent by the server and not handled yet
    storedGold,     \* gold saved of users who are in no slot
    storedItems,    \* and their items
    inherited,      \* history: slots with a list or a mirror left by a former user
    requests, adds  \* counters for the two bounds

purseVars  == <<gold, inventory>>
tradeVars  == <<partner, decided, offerGold, offerItems, mirror>>
clientVars == <<window, waiting, approved>>
storeVars  == <<storedGold, storedItems>>
vars == <<online, purseVars, tradeVars, clientVars, toServer, toClient, storeVars, inherited,
          requests, adds>>

Init ==
    /\ online = Users
    /\ gold = StartGold
    /\ inventory = StartItems
    /\ partner = [u \in Users |-> NoUser]
    /\ decided = [u \in Users |-> FALSE]
    /\ offerGold \in StartLists
    /\ offerItems = [u \in Users |-> {}]
    /\ mirror = [u \in Users |-> {}]
    /\ window = [u \in Users |-> "NONE"]
    /\ waiting = [u \in Users |-> FALSE]
    /\ approved = [u \in Users |-> FALSE]
    /\ toServer = [u \in Users |-> <<>>]
    /\ toClient = [u \in Users |-> <<>>]
    /\ storedGold = 0
    /\ storedItems = {}
    /\ inherited = {u \in Users : offerGold[u] # 0}
    /\ requests = 0
    /\ adds = 0

Msg(op, arg) == [op |-> op, arg |-> arg]

\* GetUserPtr(m_sExchangeUser)
Partner(u) == IF partner[u] \in online THEN partner[u] ELSE NoUser

-----------------------------------------------------------------------------
(***************************************************************************)
(* The client.  While it waits for the answer to an ADD the trade window   *)
(* takes no input; the message boxes can still be answered by key.         *)
(***************************************************************************)
SendToServer(u, msg) ==
    /\ Len(toServer[u]) < MaxBacklog
    /\ toServer' = [toServer EXCEPT ![u] = Append(@, msg)]

ServerUnchanged == UNCHANGED <<online, purseVars, tradeVars, toClient, storeVars, inherited>>

Show(u, state) == window' = [window EXCEPT ![u] = state]

\* MsgSend_PerTradeReq, then EnterWaitMsgFromServerStatePerTradeReq.
Ask(u, target) ==
    /\ u \in online /\ target # u
    /\ window[u] = "NONE"
    /\ requests < MaxRequests
    /\ requests' = requests + 1
    /\ SendToServer(u, Msg("REQ", target))
    /\ Show(u, "WAIT_FOR_REQ")
    /\ UNCHANGED <<waiting, approved, adds>> /\ ServerUnchanged

\* The request's message box: ProcessProceed or LeavePerTradeState.
AnswerRequest(u) ==
    /\ u \in online /\ window[u] = "WAIT_DECISION"
    /\ \/ /\ SendToServer(u, Msg("AGREE", TRUE))
          /\ Show(u, "NORMAL")
          /\ approved' = [approved EXCEPT ![u] = FALSE]
       \/ /\ SendToServer(u, Msg("AGREE", FALSE))
          /\ Show(u, "NONE")
          /\ UNCHANGED approved
    /\ UNCHANGED <<waiting, requests, adds>> /\ ServerUnchanged

\* ItemCountEditOK for gold, SendToServerItemAddMsg for an item.
Add(u) ==
    /\ u \in online /\ window[u] = "NORMAL" /\ ~waiting[u]
    /\ adds < MaxAdds
    /\ adds' = adds + 1
    /\ \/ \E n \in Amounts : SendToServer(u, Msg("ADD_GOLD", n))
       \/ \E i \in inventory[u] : SendToServer(u, Msg("ADD_ITEM", i))
    /\ waiting' = [waiting EXCEPT ![u] = TRUE]
    /\ UNCHANGED <<window, approved, requests>> /\ ServerUnchanged

\* PerTradeMyDecision
Decide(u) ==
    /\ u \in online /\ window[u] = "NORMAL" /\ ~waiting[u]
    /\ SendToServer(u, Msg("DECIDE", NoUser))
    /\ Show(u, "DECIDED")
    /\ approved' = [approved EXCEPT ![u] = TRUE]
    /\ UNCHANGED <<waiting, requests, adds>> /\ ServerUnchanged

\* LeavePerTradeState(MY_CANCEL), from the message box or the trade window.
Cancel(u) ==
    /\ u \in online
    /\ \/ window[u] = "WAIT_FOR_REQ"
       \/ window[u] \in {"NORMAL", "DECIDED"} /\ ~waiting[u]
    /\ SendToServer(u, Msg("CANCEL", NoUser))
    /\ Show(u, "NONE")
    /\ UNCHANGED <<waiting, approved, requests, adds>> /\ ServerUnchanged

\* MsgRecv_PerTrade.  A request is ignored, and not answered, when a trade is
\* being arranged or made already, or when the asker is not in sight.
Receive(u) ==
    /\ u \in online /\ toClient[u] # <<>>
    /\ toClient' = [toClient EXCEPT ![u] = Tail(@)]
    /\ LET msg == Head(toClient[u]) IN
         \/ /\ msg.op = "REQ"
            /\ \/ window[u] = "NONE" /\ Show(u, "WAIT_DECISION")
               \/ UNCHANGED window
            /\ UNCHANGED <<waiting, approved>>
         \/ /\ msg = Msg("AGREE", TRUE)
            /\ Show(u, "NORMAL")
            /\ approved' = [approved EXCEPT ![u] = FALSE]
            /\ UNCHANGED waiting
         \/ /\ msg = Msg("AGREE", FALSE) \/ msg.op \in {"CANCEL", "DONE"}
            /\ Show(u, "NONE")
            /\ UNCHANGED <<waiting, approved>>
         \/ /\ msg.op = "ADD"
            /\ waiting' = [waiting EXCEPT ![u] = FALSE]
            /\ UNCHANGED <<window, approved>>
    /\ UNCHANGED <<online, purseVars, tradeVars, toServer, storeVars, inherited, requests,
                   adds>>

-----------------------------------------------------------------------------
(***************************************************************************)
(* The server's handlers.                                                  *)
(***************************************************************************)
ClientUnchanged == UNCHANGED <<clientVars, storeVars, requests, adds>>

\* The next packet of u is this one and is consumed.
Handles(u, msg) ==
    /\ toServer[u] # <<>> /\ Head(toServer[u]) = msg
    /\ toServer' = [toServer EXCEPT ![u] = Tail(@)]

SendToClient(u, msg) == toClient' = [toClient EXCEPT ![u] = Append(@, msg)]

\* The function f with the value v for everyone in the set.
Reset(f, set, v) == [u \in Users |-> IF u \in set THEN v ELSE f[u]]

\* InitExchange(false) of everyone in the set; the gold entry is set apart.
EndExchange(set) ==
    /\ partner' = Reset(partner, set, NoUser)
    /\ decided' = Reset(decided, set, FALSE)
    /\ offerItems' = Reset(offerItems, set, {})
    /\ mirror' = Reset(mirror, set, {})
    /\ inherited' = inherited \ set

\* InitExchange(true) of everyone in the set: m_bExchangeOK stays as it is.
BeginExchange(set) ==
    /\ offerGold' = Reset(offerGold, set, 0)
    /\ offerItems' = Reset(offerItems, set, {})
    /\ mirror' = [u \in Users |-> IF u \in set THEN inventory[u] ELSE mirror[u]]
    /\ inherited' = inherited \ set

\* The gold entry of everyone in the set goes back to its owner.
Refund(set) ==
    /\ gold' = [u \in Users |-> IF u \in set THEN gold[u] + offerGold[u] ELSE gold[u]]
    /\ offerGold' = Reset(offerGold, set, 0)

\* ExchangeReq: only the target must be free.  A request of or to a dead user
\* or one of the other nation is refused.
ExchangeReq(u, target) ==
    /\ u \in online /\ Handles(u, Msg("REQ", target))
    /\ \/ /\ target \in online /\ partner[target] = NoUser
          /\ partner' = [partner EXCEPT ![u] = target, ![target] = u]
          /\ SendToClient(target, Msg("REQ", u))
       \/ /\ SendToClient(u, Msg("CANCEL", NoUser))
          /\ UNCHANGED partner
    /\ UNCHANGED <<online, purseVars, decided, offerGold, offerItems, mirror, inherited>>
    /\ ClientUnchanged

\* Faulty variant: a refusal frees only the one who refuses.
ExchangeAgree_FreesOne(u, result) ==
    LET p == Partner(u) IN
    /\ u \in online /\ Handles(u, Msg("AGREE", result))
    /\ IF result /\ p # NoUser
       THEN BeginExchange({u, p}) /\ UNCHANGED partner
       ELSE /\ partner' = [partner EXCEPT ![u] = NoUser]
            /\ UNCHANGED <<offerGold, offerItems, mirror, inherited>>
    /\ IF p = NoUser THEN UNCHANGED toClient ELSE SendToClient(p, Msg("AGREE", result))
    /\ UNCHANGED <<online, purseVars, decided>> /\ ClientUnchanged

\* ExchangeAgree: without a partner nothing happens; a refusal frees both but
\* leaves their lists, an agreement clears the lists but returns no gold.
ExchangeAgree(u, result) ==
    LET p == Partner(u) IN
    /\ u \in online /\ Handles(u, Msg("AGREE", result))
    /\ IF p = NoUser
       THEN /\ partner' = [partner EXCEPT ![u] = NoUser]
            /\ UNCHANGED <<decided, offerGold, offerItems, mirror, inherited, toClient>>
       ELSE /\ SendToClient(p, Msg("AGREE", result))
            /\ UNCHANGED decided
            /\ IF result
               THEN BeginExchange({u, p}) /\ UNCHANGED partner
               ELSE /\ partner' = [partner EXCEPT ![u] = NoUser, ![p] = NoUser]
                    /\ UNCHANGED <<offerGold, offerItems, mirror, inherited>>
    /\ UNCHANGED <<online, purseVars>> /\ ClientUnchanged

\* Whom ExchangeCancel of u reaches: it calls the partner's, and so on.
Cancelled(u) ==
    LET closed == {set \in SUBSET Users :
                     u \in set /\ \A v \in set : Partner(v) \in set \cup {NoUser}}
    IN  {v \in Users : \A set \in closed : v \in set}

\* Each call of a partner's ExchangeCancel is followed by a CANCEL to that
\* partner; the chain closes, so the canceller gets one too.
CancelsSent(u) ==
    LET set == Cancelled(u)
        calls(v) == Cardinality({w \in set : Partner(w) = v})
    IN  [v \in Users |-> toClient[v] \o [i \in 1 .. calls(v) |-> Msg("CANCEL", NoUser)]]

\* Faulty variant: the offered gold is not given back.
UndoTrades_NoRefund(u) ==
    /\ EndExchange(Cancelled(u))
    /\ offerGold' = Reset(offerGold, Cancelled(u), 0)
    /\ UNCHANGED <<gold, inventory>>

\* ExchangeCancel gives the gold of each user it reaches back.
UndoTrades(u) ==
    /\ Refund(Cancelled(u))
    /\ EndExchange(Cancelled(u))
    /\ UNCHANGED inventory

ExchangeCancel(u) == UndoTrades(u) /\ toClient' = CancelsSent(u)

HandleCancel(u) ==
    /\ u \in online /\ Handles(u, Msg("CANCEL", NoUser))
    /\ ExchangeCancel(u)
    /\ UNCHANGED online /\ ClientUnchanged

\* Faulty variant: gold the user does not have is accepted.
ExchangeAddGold_NoTest(u, n) ==
    /\ u \in online /\ Handles(u, Msg("ADD_GOLD", n))
    /\ IF Partner(u) = NoUser
       THEN ExchangeCancel(u)
       ELSE /\ SendToClient(u, Msg("ADD", NoUser))
            /\ gold' = [gold EXCEPT ![u] = @ - n]
            /\ offerGold' = [offerGold EXCEPT ![u] = @ + n]
            /\ UNCHANGED <<inventory, partner, decided, offerItems, mirror, inherited>>
    /\ UNCHANGED online /\ ClientUnchanged

\* ExchangeAdd of gold: refused when decided or short, deducted at once.
ExchangeAddGold(u, n) ==
    /\ u \in online /\ Handles(u, Msg("ADD_GOLD", n))
    /\ IF Partner(u) = NoUser
       THEN ExchangeCancel(u)
       ELSE /\ SendToClient(u, Msg("ADD", NoUser))
            /\ IF decided[u] \/ n > gold[u]
               THEN UNCHANGED <<gold, offerGold>>
               ELSE /\ gold' = [gold EXCEPT ![u] = @ - n]
                    /\ offerGold' = [offerGold EXCEPT ![u] = @ + n]
            /\ UNCHANGED <<inventory, partner, decided, offerItems, mirror, inherited>>
    /\ UNCHANGED online /\ ClientUnchanged

\* Faulty variant: the offered item stays in the mirror.
ExchangeAddItem_KeepsMirror(u, i) ==
    /\ u \in online /\ Handles(u, Msg("ADD_ITEM", i))
    /\ IF Partner(u) = NoUser
       THEN ExchangeCancel(u)
       ELSE /\ SendToClient(u, Msg("ADD", NoUser))
            /\ IF decided[u] \/ i \notin mirror[u]
               THEN UNCHANGED offerItems
               ELSE offerItems' = [offerItems EXCEPT ![u] = @ \cup {i}]
            /\ UNCHANGED <<gold, inventory, partner, decided, offerGold, mirror, inherited>>
    /\ UNCHANGED online /\ ClientUnchanged

\* ExchangeAdd of an item: it moves from the mirror to the list.
ExchangeAddItem(u, i) ==
    /\ u \in online /\ Handles(u, Msg("ADD_ITEM", i))
    /\ IF Partner(u) = NoUser
       THEN ExchangeCancel(u)
       ELSE /\ SendToClient(u, Msg("ADD", NoUser))
            /\ IF decided[u] \/ i \notin mirror[u]
               THEN UNCHANGED <<offerItems, mirror>>
               ELSE /\ offerItems' = [offerItems EXCEPT ![u] = @ \cup {i}]
                    /\ mirror' = [mirror EXCEPT ![u] = @ \ {i}]
            /\ UNCHANGED <<gold, inventory, partner, decided, offerGold, inherited>>
    /\ UNCHANGED online /\ ClientUnchanged

\* What v's bag becomes: ExecuteExchange puts the partner's items in its mirror.
BagAfter(v) == mirror[v] \cup offerItems[Partner(v)]

\* ExecuteExchange's test for room.
HasRoom(v) == Partner(v) # NoUser /\ Cardinality(BagAfter(v)) <= Capacity

\* ExecuteExchange of both has succeeded: ExchangeDone of both, each of which
\* takes the gold entry out of the list of its own partner.
TradeSucceeds(u, p) ==
    /\ HasRoom(u) /\ HasRoom(p)
    /\ gold' = [gold EXCEPT ![u] = @ + offerGold[p], ![p] = @ + offerGold[Partner(p)]]
    /\ offerGold' = Reset(offerGold, {u, p, Partner(p)}, 0)
    /\ inventory' = [inventory EXCEPT ![u] = BagAfter(u), ![p] = BagAfter(p)]

\* No room, or too much weight: both get their gold back.
TradeFails(u, p) == Refund({u, p}) /\ UNCHANGED inventory

ExchangeDecide(u) ==
    LET p == Partner(u) IN
    /\ u \in online /\ Handles(u, Msg("DECIDE", NoUser))
    /\ \/ /\ p = NoUser
          /\ ExchangeCancel(u)
       \/ /\ p # NoUser /\ ~decided[p]
          /\ decided' = [decided EXCEPT ![u] = TRUE]
          /\ UNCHANGED <<purseVars, partner, offerGold, offerItems, mirror, inherited,
                         toClient>>
       \/ /\ p # NoUser /\ decided[p]
          /\ TradeSucceeds(u, p) \/ TradeFails(u, p)
          /\ EndExchange({u, p})
          /\ toClient' = [v \in Users |-> IF v \in {u, p}
                            THEN Append(toClient[v], Msg("DONE", NoUser)) ELSE toClient[v]]
    /\ UNCHANGED online /\ ClientUnchanged

\* CloseProcess: a user with a partner cancels; then Initialize, which leaves list
\* and mirror in the slot.  His client is gone with its packets.
LogOut(u) ==
    /\ u \in online \cap Leavers
    /\ online' = online \ {u}
    /\ IF partner[u] # NoUser
       THEN UndoTrades(u)
       ELSE /\ decided' = [decided EXCEPT ![u] = FALSE]
            /\ inherited' = IF offerGold[u] # 0 \/ offerItems[u] \cup mirror[u] # {}
                            THEN inherited \cup {u} ELSE inherited
            /\ UNCHANGED <<purseVars, partner, offerGold, offerItems, mirror>>
    /\ toServer' = [toServer EXCEPT ![u] = <<>>]
    /\ toClient' = [CancelsSent(u) EXCEPT ![u] = <<>>]
    /\ Show(u, "NONE")
    /\ waiting' = [waiting EXCEPT ![u] = FALSE]
    /\ approved' = [approved EXCEPT ![u] = FALSE]
    /\ UNCHANGED <<storeVars, requests, adds>>

\* Another user, or the same one, enters the slot with gold and items of those who
\* are in no slot.
LogIn(u) ==
    /\ u \in Users \ online
    /\ online' = online \cup {u}
    /\ \E n \in Purses :
          /\ n <= storedGold + gold[u]
          /\ gold' = [gold EXCEPT ![u] = n]
          /\ storedGold' = storedGold + gold[u] - n
    /\ \E bag \in Bags :
          /\ bag \subseteq storedItems \cup inventory[u]
          /\ inventory' = [inventory EXCEPT ![u] = bag]
          /\ storedItems' = (storedItems \cup inventory[u]) \ bag
    /\ UNCHANGED <<tradeVars, clientVars, toServer, toClient, inherited, requests, adds>>

-----------------------------------------------------------------------------
Client(u) ==
    \/ \E target \in Users : Ask(u, target)
    \/ AnswerRequest(u) \/ Add(u) \/ Decide(u) \/ Cancel(u)

Server(u) ==
    \/ \E target \in Users : ExchangeReq(u, target)
    \/ \E result \in BOOLEAN : ExchangeAgree(u, result)
    \/ \E n \in Amounts : ExchangeAddGold(u, n)
    \/ \E i \in Items : ExchangeAddItem(u, i)
    \/ ExchangeDecide(u)
    \/ HandleCancel(u)

Next == \E u \in Users : Client(u) \/ Receive(u) \/ Server(u) \/ LogOut(u) \/ LogIn(u)

Spec == Init /\ [][Next]_vars

-----------------------------------------------------------------------------
TypeOK ==
    /\ online \subseteq Users
    /\ gold \in [Users -> Nat]
    /\ inventory \in [Users -> SUBSET Items]
    /\ partner \in [Users -> Users \cup {NoUser}]
    /\ decided \in [Users -> BOOLEAN]
    /\ offerGold \in [Users -> Nat]
    /\ offerItems \in [Users -> SUBSET Items]
    /\ mirror \in [Users -> SUBSET Items]
    /\ window \in [Users -> {"NONE", "WAIT_FOR_REQ", "WAIT_DECISION", "NORMAL", "DECIDED"}]
    /\ waiting \in [Users -> BOOLEAN]
    /\ approved \in [Users -> BOOLEAN]
    /\ storedGold \in Nat /\ storedItems \subseteq Items
    /\ inherited \subseteq Users

TotalGold == storedGold + FoldFunction(+, 0, gold) + FoldFunction(+, 0, offerGold)

\* What a user has offered and what its mirror keeps are its bag, divided in
\* two, or the mirror holds nothing: no interleaving of requests, answers,
\* offers and cancels lets one item be both offered and kept (ExchangeAdd).  A
\* slot whose former user left a list or a mirror in it is excepted until its
\* next trade begins or is cancelled (Initialize clears neither).
MirrorDividesBag ==
    \A u \in online \ inherited :
        /\ mirror[u] \cap offerItems[u] = {}
        /\ mirror[u] \cup offerItems[u] \in {{}, inventory[u]}

\* No step creates gold, and none loses any but the two that forget offered
\* gold: an AGREE over offers still listed, and a trade whose second party has a
\* partner of its own.
GoldConserved ==
    TotalGold' # TotalGold =>
        /\ TotalGold' < TotalGold
        /\ \E u \in Users :
             \/ ExchangeAgree(u, TRUE)
             \/ ExchangeDecide(u) /\ partner[Partner(u)] # u

\* What a user has in purse and list grows by a decision only, or when he enters a
\* slot, where he finds the list that a former user may have left.
GoldKeepsItsOwner ==
    \A u \in Users :
        gold'[u] + offerGold'[u] > gold[u] + offerGold[u] =>
            LogIn(u) \/ \E w \in Users : ExchangeDecide(w)

\* A user in a trade is saved with all the gold he has offered.
LeaverIsRefunded ==
    \A u \in Users :
        LogOut(u) /\ partner[u] # NoUser => gold'[u] = gold[u] + offerGold[u]

\* The gold of all users, in purses, lists and saved, is kept, and is kept by its
\* owners: every cancel, every failed trade and every log-out from a trade
\* returns what was offered to the one who offered it.
GoldAccountedFor == [][GoldConserved /\ GoldKeepsItsOwner /\ LeaverIsRefunded]_vars

Mutual(u, p) == {u, p} \subseteq online /\ partner[u] = p /\ partner[p] = u

\* No cancel, refusal, decision or logout leaves one of two partners behind in
\* the exchange: a user whose partner turns away from him is free again, unless
\* that partner has asked somebody else meanwhile (ExchangeReq tests only the
\* target), or a third user whose trade he had left in that way refuses or
\* decides (ExchangeAgree and ExchangeDecide never ask whose partner theirs is).
PartnersMutual ==
    [][\A u, p \in Users :
         Mutual(u, p) => \/ Mutual(u, p)'
                         \/ Partner(u)' = NoUser
                         \/ \E target \in Users : ExchangeReq(p, target)
                         \/ \E target \in Users : ExchangeReq(u, target)
                         \/ \E w \in Users \ {u} :
                              /\ partner[w] = p
                              /\ ExchangeAgree(w, FALSE) \/ ExchangeDecide(w)]_vars

-----------------------------------------------------------------------------
(***************************************************************************)
(* What a comment says, and the code does not.                             *)
(***************************************************************************)

\* User.cpp:6747, "when both have approved": a trade is made only when both
\* users pressed the button in the trade window they have had last.
BothApproved ==
    [][\A u \in Users : ExchangeDecide(u) /\ Partner(u) # NoUser /\ decided[Partner(u)]
          => approved[u] /\ approved[Partner(u)]]_vars
=============================================================================
