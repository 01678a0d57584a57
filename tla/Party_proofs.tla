----------------------------- MODULE Party_proofs -----------------------------
(***************************************************************************)
(* For any number of users, places and indices: the lists of the parties,  *)
(* the members' indices and the AI server's copy agree, and nobody is left *)
(* with an index he cannot use.                                            *)
(*                                                                         *)
(* MembersAgree is not inductive: a user who logs out is listed no more,   *)
(* and only that keeps the next connection in his slot, which starts with  *)
(* no index, out of a list.  "Agrees" therefore speaks of every user who   *)
(* was not led astray, and says that whoever is listed is online.          *)
(* The lists are followed through the operators that compute them; what is *)
(* sent to the clients plays no part there.                                *)
(*                                                                         *)
(* That an index without a membership can still be answered (InviteInv) is *)
(* proved on top of it: a handler makes such a claim only together with an *)
(* invitation, and takes the last trace of an invitation only together     *)
(* with the claim.                                                         *)
(***************************************************************************)
EXTENDS Party, FiniteSetTheorems, TLAPS

Indices == 0 .. IndexLimit - 1

Lists == [Places -> Users \cup {NoUser}]

MapTypes ==
    /\ online \subseteq Users
    /\ strayed \subseteq Users
    /\ nextIndex \in Indices
    /\ DOMAIN party \subseteq Indices
    /\ party \in [DOMAIN party -> Lists]
    /\ index \in [Users -> Indices \cup {NoParty}]

Led(map) == \A p \in DOMAIN map : map[p][0] # NoUser

\* Who is listed is online, has that party's index and one place in it.
Agrees(idx, map, except) ==
    \A v \in Users \ except : \A p \in DOMAIN map :
        HeldBy(map[p], v) # {} =>
            /\ v \in online
            /\ idx[v] = p
            /\ \E i \in Places : HeldBy(map[p], v) = {i}

CopyAgrees(map, copy, except) ==
    /\ DOMAIN copy = DOMAIN map
    /\ \A p \in DOMAIN map : map[p][0] \notin except => copy[p] = map[p]

PartyInv ==
    /\ MapTypes
    /\ Led(party)
    /\ Agrees(index, party, strayed)
    /\ CopyAgrees(party, aiParty, strayed)

\* What a handler leaves, before the set of users online changes.
AfterStep ==
    /\ strayed \subseteq strayed' /\ strayed' \subseteq Users
    /\ DOMAIN party' \subseteq Indices
    /\ party' \in [DOMAIN party' -> Lists]
    /\ index' \in [Users -> Indices \cup {NoParty}]
    /\ Led(party')
    /\ Agrees(index', party', strayed')
    /\ CopyAgrees(party', aiParty', strayed')

-----------------------------------------------------------------------------
(***************************************************************************)
(* The lists.                                                              *)
(***************************************************************************)

\* The first place is a place.
LEMMA FirstPlace == 0 \in Places
  BY SizeAssumption DEF Places

\* Taking a user out of a list frees his places and no other (PartyRemove).
LEMMA RemovedList ==
  ASSUME NEW list \in Lists, NEW m \in Users
  PROVE  /\ Removed(list, m) \in Lists
         /\ HeldBy(Removed(list, m), m) = {}
         /\ \A v \in Users \ {m} : HeldBy(Removed(list, m), v) = HeldBy(list, v)
         /\ list[0] # m => Removed(list, m)[0] = list[0]
  <1>1. m # NoUser
    BY UserAssumption
  <1>2. Removed(list, m) \in Lists
    BY DEF Removed, Lists
  <1>3. HeldBy(Removed(list, m), m) = {}
    BY <1>1 DEF Removed, Lists, HeldBy
  <1>4. ASSUME NEW v \in Users \ {m}
        PROVE  HeldBy(Removed(list, m), v) = HeldBy(list, v)
    <2>1. v # NoUser
      BY UserAssumption
    <2>2. \A i \in Places : Removed(list, m)[i] = v <=> list[i] = v
      BY <2>1, <1>4 DEF Removed
    <2> QED BY <2>2 DEF HeldBy
  <1>5. list[0] # m => Removed(list, m)[0] = list[0]
    BY FirstPlace DEF Removed
  <1> QED BY <1>2, <1>3, <1>4, <1>5

\* A joiner gets one place that was free, and nobody else's (PartyInsert).
LEMMA JoinedList ==
  ASSUME NEW list \in Lists, NEW u \in Users
  PROVE  /\ Joined(list, u) \in Lists
         /\ \A v \in Users \ {u} : HeldBy(Joined(list, u), v) = HeldBy(list, v)
         /\ list[0] # NoUser => Joined(list, u)[0] = list[0]
         /\ HeldBy(list, u) = {} /\ FirstFree(list) # {}
              => \E i \in Places : HeldBy(Joined(list, u), u) = {i}
  <1>1. u # NoUser
    BY UserAssumption
  <1>2. Joined(list, u) \in Lists
    BY DEF Joined, Lists
  <1>3. \A i \in FirstFree(list) : i \in Places /\ list[i] = NoUser
    BY DEF FirstFree, HeldBy
  <1>4. ASSUME NEW v \in Users \ {u}
        PROVE  HeldBy(Joined(list, u), v) = HeldBy(list, v)
    <2>1. v # NoUser
      BY UserAssumption
    <2>2. \A i \in Places : Joined(list, u)[i] = v <=> list[i] = v
      BY <2>1, <1>3, <1>4 DEF Joined
    <2> QED BY <2>2 DEF HeldBy
  <1>5. list[0] # NoUser => Joined(list, u)[0] = list[0]
    BY <1>3, FirstPlace DEF Joined
  <1>6. ASSUME HeldBy(list, u) = {}, FirstFree(list) # {}
        PROVE  \E i \in Places : HeldBy(Joined(list, u), u) = {i}
    <2>1. PICK i : i \in FirstFree(list)
      BY <1>6
    <2>2. \A j \in FirstFree(list) : j = i
      BY <2>1 DEF FirstFree, HeldBy, Places
    <2>3. FirstFree(list) = {i}
      BY <2>1, <2>2
    <2>4. \A j \in Places : Joined(list, u)[j] = u <=> j = i
      BY <2>3, <1>6 DEF Joined, HeldBy
    <2>5. HeldBy(Joined(list, u), u) = {i}
      BY <2>1, <2>4, <1>3 DEF HeldBy
    <2> QED BY <2>1, <2>5, <1>3
  <1> QED BY <1>2, <1>4, <1>5, <1>6

\* A user in a list is listed.
LEMMA HeldIsListed ==
  ASSUME NEW v, NEW p \in DOMAIN party, HeldBy(party[p], v) # {}
  PROVE  Listed(v)
  BY DEF Listed

\* The leader of a party is a user, and listed.
LEMMA LeaderListed ==
  ASSUME PartyInv, NEW p \in DOMAIN party
  PROVE  /\ party[p][0] \in Users
         /\ HeldBy(party[p], party[p][0]) # {}
         /\ Listed(party[p][0])
  <1>1. party[p] \in Lists /\ party[p][0] # NoUser
    BY DEF PartyInv, MapTypes, Led
  <1>2. party[p][0] \in Users /\ 0 \in HeldBy(party[p], party[p][0])
    BY <1>1, FirstPlace DEF Lists, HeldBy
  <1> QED BY <1>2, HeldIsListed

-----------------------------------------------------------------------------
(***************************************************************************)
(* The parts the handlers share.                                           *)
(***************************************************************************)

\* A step that changes no list keeps everything, if the members keep their
\* indices.
LEMMA MapKept ==
  ASSUME PartyInv, party' = party, aiParty' = aiParty,
         strayed \subseteq strayed', strayed' \subseteq Users,
         index' \in [Users -> Indices \cup {NoParty}],
         \A v \in Users \ strayed' : Listed(v) => index'[v] = index[v]
  PROVE  AfterStep
  <1>1. Agrees(index', party', strayed')
    <2> SUFFICES ASSUME NEW v \in Users \ strayed', NEW p \in DOMAIN party,
                        HeldBy(party[p], v) # {}
                 PROVE  /\ v \in online
                        /\ index'[v] = p
                        /\ \E i \in Places : HeldBy(party[p], v) = {i}
      BY DEF Agrees
    <2>1. index'[v] = index[v]
      BY HeldIsListed
    <2> QED BY <2>1 DEF PartyInv, Agrees
  <1>2. CopyAgrees(party', aiParty', strayed')
    BY DEF PartyInv, CopyAgrees
  <1> QED BY <1>1, <1>2 DEF AfterStep, PartyInv, MapTypes

\* PartyDelete, whoever calls it: the members have the indices they had, and
\* the one it is called for is no member if his index names no party.
LEMMA DeleteStep ==
  ASSUME PartyInv, NEW u \in Users, NEW later,
         NEW idx \in [Users -> Indices \cup {NoParty}],
         PartyDelete(u, idx, later),
         strayed \subseteq strayed', strayed' \subseteq Users,
         \A v \in Users \ strayed' : Listed(v) => idx[v] = index[v]
  PROVE  AfterStep
  <1>1. CASE /\ idx[u] \notin DOMAIN party
             /\ index' = [idx EXCEPT ![u] = NoParty]
             /\ MapUnchanged
    <2>1. u \in Users \ strayed' => ~Listed(u)
      <3> SUFFICES ASSUME u \in Users \ strayed', Listed(u) PROVE FALSE
        OBVIOUS
      <3>1. PICK p \in DOMAIN party : HeldBy(party[p], u) # {}
        BY DEF Listed
      <3>2. index[u] = p
        BY <3>1 DEF PartyInv, Agrees
      <3> QED BY <3>1, <3>2, <1>1
    <2>2. index' \in [Users -> Indices \cup {NoParty}]
      BY <1>1
    <2>3. \A v \in Users \ strayed' : Listed(v) => index'[v] = index[v]
      BY <1>1, <2>1
    <2> QED BY <1>1, <2>2, <2>3, MapKept DEF MapUnchanged
  <1>2. CASE idx[u] \in DOMAIN party /\ Dissolve(idx[u], idx, later)
    <2> DEFINE p == idx[u]
    <2>1. /\ p \in DOMAIN party
          /\ index' = [v \in Users |-> IF HeldBy(party[p], v) # {} /\ v \in online
                                       THEN NoParty ELSE idx[v]]
          /\ party' = [q \in DOMAIN party \ {p} |-> party[q]]
          /\ aiParty' = [q \in DOMAIN aiParty \ {p} |-> aiParty[q]]
      BY <1>2 DEF Dissolve
    <2> HIDE DEF p
    <2>2. index' \in [Users -> Indices \cup {NoParty}]
      BY <2>1
    <2>3. /\ DOMAIN party' \subseteq Indices
          /\ party' \in [DOMAIN party' -> Lists]
          /\ Led(party')
      BY <2>1 DEF PartyInv, MapTypes, Led
    <2>4. Agrees(index', party', strayed')
      <3> SUFFICES ASSUME NEW v \in Users \ strayed', NEW q \in DOMAIN party',
                          HeldBy(party'[q], v) # {}
                   PROVE  /\ v \in online
                          /\ index'[v] = q
                          /\ \E i \in Places : HeldBy(party'[q], v) = {i}
        BY DEF Agrees
      <3>1. q \in DOMAIN party /\ q # p /\ party'[q] = party[q]
        BY <2>1
      <3>2. /\ v \in online /\ index[v] = q
            /\ \E i \in Places : HeldBy(party[q], v) = {i}
        BY <3>1 DEF PartyInv, Agrees
      <3>3. HeldBy(party[p], v) = {}
        BY <2>1, <3>1, <3>2 DEF PartyInv, Agrees
      <3>4. idx[v] = index[v]
        BY <3>1, HeldIsListed
      <3> QED BY <2>1, <3>1, <3>2, <3>3, <3>4
    <2>5. CopyAgrees(party', aiParty', strayed')
      BY <2>1 DEF PartyInv, CopyAgrees
    <2> QED BY <2>2, <2>3, <2>4, <2>5 DEF AfterStep
  <1> QED BY <1>1, <1>2 DEF PartyDelete

\* TakeOut of somebody who does not lead the party.
LEMMA TakeOutStep ==
  ASSUME PartyInv, NEW p \in DOMAIN party, NEW m \in Users, NEW later,
         TakeOut(p, m, later), party[p][0] # m, UNCHANGED strayed
  PROVE  AfterStep
  <1>1. /\ party' = [party EXCEPT ![p] = Removed(party[p], m)]
        /\ index' = [index EXCEPT ![m] = IF HeldBy(party[p], m) # {} THEN NoParty ELSE @]
        /\ aiParty' = [q \in DOMAIN aiParty |->
                         IF q = p THEN Removed(aiParty[p], m) ELSE aiParty[q]]
    BY DEF TakeOut
  <1>2. /\ party[p] \in Lists
        /\ party \in [DOMAIN party -> Lists]
        /\ index \in [Users -> Indices \cup {NoParty}]
    BY DEF PartyInv, MapTypes
  <1> DEFINE list == Removed(party[p], m)
  <1>3. /\ list \in Lists /\ HeldBy(list, m) = {}
        /\ \A v \in Users \ {m} : HeldBy(list, v) = HeldBy(party[p], v)
        /\ list[0] = party[p][0]
    BY <1>2, RemovedList
  <1>4. /\ DOMAIN party' = DOMAIN party
        /\ party'[p] = list
        /\ \A q \in DOMAIN party \ {p} : party'[q] = party[q]
    BY <1>1, <1>2
  <1> HIDE DEF list
  <1>5. index' \in [Users -> Indices \cup {NoParty}]
    BY <1>1, <1>2
  <1>6. party' \in [DOMAIN party' -> Lists]
    BY <1>1, <1>2, <1>3 DEF list
  <1>7. Led(party')
    BY <1>3, <1>4 DEF Led, PartyInv
  <1>8. Agrees(index', party', strayed')
    <2> SUFFICES ASSUME NEW v \in Users \ strayed, NEW q \in DOMAIN party,
                        HeldBy(party'[q], v) # {}
                 PROVE  /\ v \in online
                        /\ index'[v] = q
                        /\ \E i \in Places : HeldBy(party'[q], v) = {i}
      BY <1>4 DEF Agrees
    <2>1. HeldBy(party'[q], v) = HeldBy(party[q], v)
      BY <1>3, <1>4
    <2>2. /\ v \in online /\ index[v] = q
          /\ \E i \in Places : HeldBy(party[q], v) = {i}
      BY <2>1 DEF PartyInv, Agrees
    <2>3. index'[v] = index[v]
      <3>1. CASE v # m
        BY <1>1, <1>2, <3>1
      <3>2. CASE v = m
        <4>1. q # p
          BY <1>3, <1>4, <3>2
        <4>2. HeldBy(party[p], m) = {}
          BY <4>1, <2>2, <3>2 DEF PartyInv, Agrees
        <4> QED BY <1>1, <1>2, <4>2
      <3> QED BY <3>1, <3>2
    <2> QED BY <2>1, <2>2, <2>3
  <1>9. CopyAgrees(party', aiParty', strayed')
    <2>1. DOMAIN aiParty = DOMAIN party
      BY DEF PartyInv, CopyAgrees
    <2>2. DOMAIN aiParty' = DOMAIN party'
      BY <1>1, <1>4, <2>1
    <2> SUFFICES ASSUME NEW q \in DOMAIN party, party'[q][0] \notin strayed
                 PROVE  aiParty'[q] = party'[q]
      BY <1>4, <2>2 DEF CopyAgrees
    <2>3. party[q][0] \notin strayed
      BY <1>3, <1>4
    <2>4. aiParty[q] = party[q]
      BY <2>3 DEF PartyInv, CopyAgrees
    <2> QED BY <1>1, <1>4, <2>1, <2>4 DEF list
  <1> QED BY <1>4, <1>5, <1>6, <1>7, <1>8, <1>9 DEF AfterStep, PartyInv, MapTypes

\* PartyRemove, and that who leaves is listed no more.
LEMMA RemoveStep ==
  ASSUME PartyInv, NEW u \in online, NEW m \in Users, NEW later,
         PartyRemove(u, m, later)
  PROVE  /\ AfterStep
         /\ u = m /\ u \notin strayed' =>
              \A q \in DOMAIN party' : HeldBy(party'[q], u) = {}
  <1> DEFINE p == index[u]
             left == {i \in Places : party[p][i] \notin {NoUser, m}}
             Gone == u = m /\ u \notin strayed' =>
                       \A q \in DOMAIN party' : HeldBy(party'[q], u) = {}
  <1>1. /\ u \in Users /\ online \subseteq Users /\ strayed \subseteq Users
        /\ index \in [Users -> Indices \cup {NoParty}]
        /\ DOMAIN party \subseteq Indices
    BY DEF PartyInv, MapTypes
  <1>2. \A q \in DOMAIN party : HeldBy(party[q], u) # {} /\ u \notin strayed => q = p
    BY <1>1 DEF PartyInv, Agrees
  <1>3. NoParty \notin DOMAIN party
    BY <1>1, SizeAssumption DEF NoParty, Indices
  <1>4. CASE /\ p = NoParty \/ m \notin online
             /\ UNCHANGED <<index, strayed, party, aiParty>>
    <2>1. AfterStep
      BY <1>1, <1>4, MapKept
    <2>2. Gone
      BY <1>2, <1>3, <1>4
    <2> QED BY <2>1, <2>2
  <1>5. CASE /\ p \notin DOMAIN party
             /\ index' = [index EXCEPT ![u] = NoParty, ![m] = NoParty]
             /\ strayed' = IF m # u /\ Listed(m) THEN strayed \cup {m} ELSE strayed
             /\ UNCHANGED <<party, aiParty>>
    <2>1. u \notin strayed => ~Listed(u)
      BY <1>2, <1>5 DEF Listed
    <2>2. \A v \in Users \ strayed' : Listed(v) => v # u /\ v # m
      BY <2>1, <1>5
    <2>3. index' \in [Users -> Indices \cup {NoParty}]
      BY <1>1, <1>5
    <2>4. \A v \in Users \ strayed' : Listed(v) => index'[v] = index[v]
      BY <1>1, <1>5, <2>2
    <2>5. AfterStep
      BY <1>1, <1>5, <2>3, <2>4, MapKept
    <2>6. Gone
      BY <1>5, <2>1 DEF Listed
    <2> QED BY <2>5, <2>6
  <1>6. CASE /\ p \in DOMAIN party /\ m # u
             /\ UNCHANGED <<index, strayed, party, aiParty>>
    BY <1>1, <1>6, MapKept
  <1>7. CASE /\ p \in DOMAIN party /\ PartyDelete(u, index, later) /\ UNCHANGED strayed
    <2>1. AfterStep
      BY <1>1, <1>7, DeleteStep
    <2>2. DOMAIN party' = DOMAIN party \ {p}
          /\ \A q \in DOMAIN party' : party'[q] = party[q]
      BY <1>7 DEF PartyDelete, Dissolve
    <2>3. Gone
      BY <1>2, <1>7, <2>2
    <2> QED BY <2>1, <2>3
  <1>8. CASE /\ p \in DOMAIN party /\ (m = u) # (party[p][0] = u)
             /\ TakeOut(p, m, later) /\ UNCHANGED strayed
    <2>1. party[p][0] # m
      BY <1>8
    <2>2. AfterStep
      BY <1>8, <2>1, TakeOutStep
    <2>3. party' = [party EXCEPT ![p] = Removed(party[p], m)]
      BY <1>8 DEF TakeOut
    <2>4. HeldBy(Removed(party[p], m), m) = {}
      BY <1>8, RemovedList DEF PartyInv, MapTypes
    <2>5. party \in [DOMAIN party -> Lists]
      BY DEF PartyInv, MapTypes
    <2>6. /\ DOMAIN party' = DOMAIN party
          /\ party'[p] = Removed(party[p], m)
          /\ \A q \in DOMAIN party \ {p} : party'[q] = party[q]
      BY <1>8, <2>3, <2>5
    <2>7. Gone
      BY <1>2, <1>8, <2>4, <2>6
    <2> QED BY <2>2, <2>7
  <1>9. \/ p = NoParty \/ m \notin online
        \/ p \notin DOMAIN party
        \/ p \in DOMAIN party
    OBVIOUS
  <1>10. CASE p = NoParty \/ m \notin online
    BY <1>4, <1>10 DEF PartyRemove, MapUnchanged
  <1>11. CASE ~(p = NoParty \/ m \notin online) /\ p \notin DOMAIN party
    BY <1>5, <1>11 DEF PartyRemove, MapUnchanged
  <1>12. CASE ~(p = NoParty \/ m \notin online) /\ p \in DOMAIN party
    <2>1. /\ \/ /\ m # u /\ party[p][0] # u
                /\ UNCHANGED index /\ MapUnchanged
             \/ PartyDelete(u, index, later)
             \/ /\ (m = u) # (party[p][0] = u)
                /\ TakeOut(p, m, later)
          /\ UNCHANGED strayed
      BY <1>12 DEF PartyRemove
    <2> QED BY <1>6, <1>7, <1>8, <1>12, <2>1 DEF MapUnchanged
  <1> QED BY <1>10, <1>11, <1>12

-----------------------------------------------------------------------------
(***************************************************************************)
(* The handlers.                                                           *)
(***************************************************************************)

\* A handler after which the same users are online keeps the invariant.
LEMMA StepKeeps ==
  ASSUME PartyInv, AfterStep, online' = online, nextIndex' \in Indices
  PROVE  PartyInv'
  <1>1. MapTypes'
    BY DEF PartyInv, AfterStep, MapTypes
  <1>2. Led(party)'
    BY DEF AfterStep, Led
  <1>3. Agrees(index, party, strayed)'
    BY DEF AfterStep, Agrees, HeldBy
  <1>4. CopyAgrees(party, aiParty, strayed)'
    BY DEF AfterStep, CopyAgrees
  <1> QED BY <1>1, <1>2, <1>3, <1>4 DEF PartyInv

\* A refused request changes no party.
LEMMA RequestFailsStep ==
  ASSUME PartyInv, NEW u \in Users, RequestFails(u), nextIndex' \in Indices
  PROVE  PartyInv'
  <1>1. UNCHANGED <<online, index, strayed, party, aiParty>>
    BY DEF RequestFails, MapUnchanged
  <1>2. AfterStep
    BY <1>1, MapKept DEF PartyInv, MapTypes
  <1> QED BY <1>1, <1>2, StepKeeps

\* The index after a legal one is legal.
LEMMA NextIndexLegal ==
  ASSUME NEW i \in Indices PROVE IndexAfter(i) \in Indices
  BY SizeAssumption DEF Indices, IndexAfter

\* A new party has one member, and both of the users it concerns had none.
LEMMA CreateStep ==
  ASSUME PartyInv, NEW u \in Users, NEW v \in Users, PartyCreate(u, v)
  PROVE  PartyInv'
  <1>1. u \in online /\ nextIndex \in Indices
    BY DEF PartyCreate, Handles, PartyInv, MapTypes
  <1>2. CASE RequestFails(u) /\ nextIndex' \in Indices
    BY <1>2, RequestFailsStep
  <1> DEFINE list == [i \in Places |-> IF i = 0 THEN u ELSE NoUser]
             n == nextIndex
  <1>3. CASE /\ Invited(u, v) /\ index[u] = NoParty
             /\ n \notin DOMAIN party
             /\ party' = [p \in DOMAIN party \cup {n} |->
                            IF p = n THEN list ELSE party[p]]
             /\ aiParty' = [p \in DOMAIN aiParty \cup {n} |->
                              IF p \in DOMAIN aiParty THEN aiParty[p] ELSE list]
             /\ index' = [index EXCEPT ![u] = n, ![v] = n]
             /\ UNCHANGED <<online, strayed>>
             /\ nextIndex' \in Indices
    <2>1. /\ u # NoUser /\ 0 \in Places
          /\ index \in [Users -> Indices \cup {NoParty}]
          /\ DOMAIN party \subseteq Indices /\ strayed \subseteq Users
          /\ party \in [DOMAIN party -> Lists]
      BY UserAssumption, FirstPlace DEF PartyInv, MapTypes
    <2>2. list \in Lists /\ list[0] = u
      BY <2>1 DEF Lists
    <2>3. \A w \in Users : HeldBy(list, w) = IF w = u THEN {0} ELSE {}
      <3>1. \A w \in Users, i \in Places : list[i] = w <=> w = u /\ i = 0
        BY <2>1, UserAssumption
      <3> HIDE DEF list
      <3> QED BY <3>1, <2>1 DEF HeldBy
    <2>4. \A w \in {u, v} : w \in online /\ index[w] = NoParty
      BY <1>1, <1>3 DEF Invited
    <2>5. NoParty \notin DOMAIN party
      BY <2>1, SizeAssumption DEF NoParty, Indices
    <2>6. \A w \in {u, v} \ strayed, p \in DOMAIN party : HeldBy(party[p], w) = {}
      BY <2>4, <2>5 DEF PartyInv, Agrees
    <2> HIDE DEF list
    <2>7. /\ DOMAIN party' = DOMAIN party \cup {n}
          /\ party'[n] = list
          /\ \A p \in DOMAIN party : party'[p] = party[p]
      BY <1>3
    <2>8. /\ DOMAIN party' \subseteq Indices
          /\ party' \in [DOMAIN party' -> Lists]
          /\ index' \in [Users -> Indices \cup {NoParty}]
      BY <1>1, <1>3, <2>1, <2>2
    <2>9. Led(party')
      BY <2>1, <2>2, <2>7 DEF PartyInv, Led
    <2>10. Agrees(index', party', strayed')
      <3> SUFFICES ASSUME NEW w \in Users \ strayed, NEW p \in DOMAIN party',
                          HeldBy(party'[p], w) # {}
                   PROVE  /\ w \in online
                          /\ index'[w] = p
                          /\ \E i \in Places : HeldBy(party'[p], w) = {i}
        BY <1>3 DEF Agrees
      <3>1. CASE p = n
        <4>1. w = u /\ HeldBy(party'[p], w) = {0}
          BY <2>3, <2>7, <3>1
        <4> QED BY <1>1, <1>3, <2>1, <3>1, <4>1
      <3>2. CASE p # n
        <4>1. p \in DOMAIN party /\ party'[p] = party[p]
          BY <2>7, <3>2
        <4>2. w \notin {u, v}
          BY <2>6, <4>1
        <4>3. index'[w] = index[w]
          BY <1>3, <2>1, <4>2
        <4> QED BY <4>1, <4>3 DEF PartyInv, Agrees
      <3> QED BY <3>1, <3>2
    <2>11. CopyAgrees(party', aiParty', strayed')
      <3>1. DOMAIN aiParty = DOMAIN party
        BY DEF PartyInv, CopyAgrees
      <3>2. DOMAIN aiParty' = DOMAIN party'
        BY <1>3, <2>7, <3>1
      <3> SUFFICES ASSUME NEW p \in DOMAIN party', party'[p][0] \notin strayed
                   PROVE  aiParty'[p] = party'[p]
        BY <1>3, <3>2 DEF CopyAgrees
      <3>3. CASE p = n
        BY <1>3, <2>7, <3>1, <3>3
      <3>4. CASE p # n
        BY <1>3, <2>7, <3>1, <3>4 DEF PartyInv, CopyAgrees
      <3> QED BY <3>3, <3>4
    <2> QED BY <1>3, <2>1, <2>8, <2>9, <2>10, <2>11, StepKeeps DEF AfterStep
  <1>4. IndexAfter(nextIndex) \in Indices
    BY <1>1, NextIndexLegal
  <1> QED BY <1>1, <1>2, <1>3, <1>4 DEF PartyCreate

\* Who is invited to a party gets its index, and had none.
LEMMA RequestStep ==
  ASSUME PartyInv, NEW u \in Users, NEW v \in Users, PartyRequest(u, v)
  PROVE  PartyInv'
  <1>1. nextIndex' = nextIndex /\ nextIndex \in Indices
    BY DEF PartyRequest, PartyInv, MapTypes
  <1>2. CASE RequestFails(u)
    BY <1>1, <1>2, RequestFailsStep
  <1>3. CASE /\ Invited(u, v) /\ index[u] \in DOMAIN party
             /\ index' = [index EXCEPT ![v] = index[u]]
             /\ UNCHANGED <<online, strayed, party, aiParty>>
    <2>1. /\ index \in [Users -> Indices \cup {NoParty}]
          /\ DOMAIN party \subseteq Indices /\ strayed \subseteq Users
      BY DEF PartyInv, MapTypes
    <2>2. index[v] = NoParty /\ NoParty \notin DOMAIN party
      BY <1>3, <2>1, SizeAssumption DEF Invited, NoParty, Indices
    <2>3. \A w \in Users \ strayed : Listed(w) => w # v
      BY <2>2 DEF PartyInv, Agrees, Listed
    <2>4. index' \in [Users -> Indices \cup {NoParty}]
      BY <1>3, <2>1
    <2>5. \A w \in Users \ strayed' : Listed(w) => index'[w] = index[w]
      BY <1>3, <2>1, <2>3
    <2>6. AfterStep
      BY <1>3, <2>1, <2>4, <2>5, MapKept
    <2> QED BY <1>1, <1>3, <2>6, StepKeeps
  <1> QED BY <1>2, <1>3 DEF PartyRequest, MapUnchanged

\* A dissolved party leaves nobody behind.
LEMMA HandleDeleteStep ==
  ASSUME PartyInv, NEW u \in Users, HandleDelete(u)
  PROVE  PartyInv'
  <1>1. /\ PartyDelete(u, index, Nothing)
        /\ UNCHANGED <<online, nextIndex, strayed>>
    BY DEF HandleDelete
  <1>2. /\ index \in [Users -> Indices \cup {NoParty}] /\ nextIndex \in Indices
        /\ strayed \subseteq Users
    BY DEF PartyInv, MapTypes
  <1>3. AfterStep
    BY <1>1, <1>2, DeleteStep
  <1> QED BY <1>1, <1>2, <1>3, StepKeeps

\* A refusal takes the index of who was invited; a member's is a stray answer.
LEMMA CancelStep ==
  ASSUME PartyInv, NEW u \in Users, PartyCancel(u)
  PROVE  PartyInv'
  <1> DEFINE p == index[u]
             idx == [index EXCEPT ![u] = NoParty]
  <1>1. /\ index \in [Users -> Indices \cup {NoParty}] /\ nextIndex \in Indices
        /\ strayed \subseteq Users
    BY DEF PartyInv, MapTypes
  <1>2. /\ strayed' = IF Listed(u) THEN strayed \cup {u} ELSE strayed
        /\ UNCHANGED <<online, nextIndex>>
    BY DEF PartyCancel
  <1>3. idx \in [Users -> Indices \cup {NoParty}]
    BY <1>1
  <1>4. strayed \subseteq strayed' /\ strayed' \subseteq Users
    BY <1>1, <1>2
  <1>5. \A v \in Users \ strayed' : Listed(v) => idx[v] = index[v]
    BY <1>1, <1>2
  <1>6. CASE index' = idx /\ UNCHANGED <<party, aiParty>>
    <2>1. AfterStep
      BY <1>3, <1>4, <1>5, <1>6, MapKept
    <2> QED BY <1>1, <1>2, <2>1, StepKeeps
  <1>7. CASE /\ p \in DOMAIN party
             /\ PartyDelete(party[p][0], idx, ToUser(party[p][0], <<Refused>>))
    <2>1. party[p][0] \in Users
      BY <1>7, LeaderListed
    <2>2. AfterStep
      BY <1>3, <1>4, <1>5, <1>7, <2>1, DeleteStep
    <2> QED BY <1>1, <1>2, <2>2, StepKeeps
  <1>8. \/ index' = idx /\ UNCHANGED <<party, aiParty>>
        \/ /\ p \in DOMAIN party
           /\ PartyDelete(party[p][0], idx, ToUser(party[p][0], <<Refused>>))
    BY DEF PartyCancel, MapUnchanged
  <1> QED BY <1>6, <1>7, <1>8

\* A joiner gets one place of the party his index names; the AI server is not
\* told when the leader is offline, and such a leader was led astray.
LEMMA InsertStep ==
  ASSUME PartyInv, NEW u \in Users, PartyInsert(u)
  PROVE  PartyInv'
  <1> DEFINE p == index[u]
             list == Joined(party[p], u)
  <1>1. /\ index \in [Users -> Indices \cup {NoParty}] /\ nextIndex \in Indices
        /\ strayed \subseteq Users /\ online \subseteq Users
        /\ party \in [DOMAIN party -> Lists]
        /\ DOMAIN party \subseteq Indices
    BY DEF PartyInv, MapTypes
  <1>2. /\ u \in online
        /\ strayed' = IF \/ Listed(u)
                         \/ p \in DOMAIN party /\ FirstFree(party[p]) = {}
                      THEN strayed \cup {u} ELSE strayed
        /\ UNCHANGED <<online, nextIndex>>
    BY DEF PartyInsert, Handles
  <1>3. strayed \subseteq strayed' /\ strayed' \subseteq Users
    BY <1>1, <1>2
  <1>4. CASE /\ p \notin DOMAIN party
             /\ index' = [index EXCEPT ![u] = NoParty]
             /\ UNCHANGED <<party, aiParty>>
    <2>1. \A v \in Users \ strayed' : Listed(v) => v # u
      BY <1>2
    <2>2. index' \in [Users -> Indices \cup {NoParty}]
      BY <1>1, <1>4
    <2>3. \A v \in Users \ strayed' : Listed(v) => index'[v] = index[v]
      BY <1>1, <1>4, <2>1
    <2>4. AfterStep
      BY <1>3, <1>4, <2>2, <2>3, MapKept
    <2> QED BY <1>1, <1>2, <2>4, StepKeeps
  <1>5. CASE /\ p \in DOMAIN party
             /\ party' = [party EXCEPT ![p] = list]
             /\ aiParty' = IF list[0] \in online
                           THEN [q \in DOMAIN aiParty |->
                                   IF q = p
                                   THEN [i \in Places |-> IF i \in FirstFree(party[p])
                                                          THEN u ELSE aiParty[p][i]]
                                   ELSE aiParty[q]]
                           ELSE aiParty
             /\ UNCHANGED index
    <2>1. party[p] \in Lists /\ party[p][0] # NoUser
      BY <1>1, <1>5 DEF PartyInv, Led
    <2>2. /\ list \in Lists
          /\ \A v \in Users \ {u} : HeldBy(list, v) = HeldBy(party[p], v)
          /\ list[0] = party[p][0]
          /\ HeldBy(party[p], u) = {} /\ FirstFree(party[p]) # {}
               => \E i \in Places : HeldBy(list, u) = {i}
      BY <2>1, JoinedList
    <2>3. list = [i \in Places |-> IF i \in FirstFree(party[p]) THEN u ELSE party[p][i]]
      BY DEF Joined
    <2> HIDE DEF list
    <2>4. /\ DOMAIN party' = DOMAIN party
          /\ party'[p] = list
          /\ \A q \in DOMAIN party \ {p} : party'[q] = party[q]
      BY <1>1, <1>5
    <2>5. party' \in [DOMAIN party' -> Lists]
      BY <1>1, <1>5, <2>2
    <2>6. Led(party')
      BY <2>1, <2>2, <2>4 DEF PartyInv, Led
    <2>7. Agrees(index', party', strayed')
      <3> SUFFICES ASSUME NEW v \in Users \ strayed', NEW q \in DOMAIN party,
                          HeldBy(party'[q], v) # {}
                   PROVE  /\ v \in online
                          /\ index[v] = q
                          /\ \E i \in Places : HeldBy(party'[q], v) = {i}
        BY <1>5, <2>4 DEF Agrees
      <3>1. CASE v = u
        <4>1. ~Listed(u) /\ FirstFree(party[p]) # {}
          BY <1>2, <1>5, <3>1
        <4>2. HeldBy(party[p], u) = {} /\ HeldBy(party[q], u) = {}
          BY <1>5, <4>1 DEF Listed
        <4>3. q = p
          BY <2>4, <3>1, <4>2
        <4> QED BY <1>2, <2>2, <2>4, <3>1, <4>1, <4>2, <4>3
      <3>2. CASE v # u
        <4>1. HeldBy(party'[q], v) = HeldBy(party[q], v)
          BY <2>2, <2>4, <3>2
        <4> QED BY <1>3, <4>1 DEF PartyInv, Agrees
      <3> QED BY <3>1, <3>2
    <2>8. CopyAgrees(party', aiParty', strayed')
      <3>1. DOMAIN aiParty = DOMAIN party
        BY DEF PartyInv, CopyAgrees
      <3>2. DOMAIN aiParty' = DOMAIN party'
        BY <1>5, <2>4, <3>1
      <3> SUFFICES ASSUME NEW q \in DOMAIN party, party'[q][0] \notin strayed'
                   PROVE  aiParty'[q] = party'[q]
        BY <2>4, <3>2 DEF CopyAgrees
      <3>3. party[q][0] \notin strayed
        BY <1>3, <2>2, <2>4
      <3>4. aiParty[q] = party[q]
        BY <3>3 DEF PartyInv, CopyAgrees
      <3>5. CASE q = p
        <4>1. list[0] \in online
          BY <2>2, <3>3, <3>5, LeaderListed DEF PartyInv, Agrees
        <4> QED BY <1>5, <2>3, <2>4, <3>1, <3>4, <3>5, <4>1
      <3>6. CASE q # p
        BY <1>5, <2>4, <3>1, <3>4, <3>6
      <3> QED BY <3>5, <3>6
    <2>9. AfterStep
      BY <1>1, <1>3, <1>5, <2>4, <2>5, <2>6, <2>7, <2>8 DEF AfterStep
    <2> QED BY <1>1, <1>2, <2>9, StepKeeps
  <1>6. CASE p \notin DOMAIN party
    BY <1>4, <1>6 DEF PartyInsert, MapUnchanged
  <1>7. CASE p \in DOMAIN party
    <2>1. /\ party' = [party EXCEPT ![p] = list]
          /\ aiParty' = IF list[0] \in online
                        THEN [q \in DOMAIN aiParty |->
                                IF q = p
                                THEN [i \in Places |-> IF i \in FirstFree(party[p])
                                                       THEN u ELSE aiParty[p][i]]
                                ELSE aiParty[q]]
                        ELSE aiParty
          /\ UNCHANGED index
      BY <1>7 DEF PartyInsert
    <2> QED BY <1>5, <1>7, <2>1
  <1> QED BY <1>6, <1>7

\* A user who logs out is in no list, so the next user of his slot may come.
LEMMA LogOutStep ==
  ASSUME PartyInv, NEW u \in Users, LogOut(u)
  PROVE  PartyInv'
  <1>1. /\ u \in online /\ PartyRemove(u, u, Nothing)
        /\ online' = online \ {u} /\ nextIndex' = nextIndex
    BY DEF LogOut
  <1>2. /\ AfterStep
        /\ u \notin strayed' => \A q \in DOMAIN party' : HeldBy(party'[q], u) = {}
    BY <1>1, RemoveStep
  <1>3. MapTypes'
    BY <1>1, <1>2 DEF PartyInv, AfterStep, MapTypes
  <1>4. Led(party)'
    BY <1>2 DEF AfterStep, Led
  <1>5. Agrees(index, party, strayed)'
    BY <1>1, <1>2 DEF AfterStep, Agrees, HeldBy
  <1>6. CopyAgrees(party, aiParty, strayed)'
    BY <1>2 DEF AfterStep, CopyAgrees
  <1> QED BY <1>3, <1>4, <1>5, <1>6 DEF PartyInv

\* A new user of a slot starts without a party.
LEMMA LogInStep ==
  ASSUME PartyInv, NEW u \in Users, LogIn(u)
  PROVE  PartyInv'
  <1>1. /\ u \notin online /\ online' = online \cup {u}
        /\ index' = [index EXCEPT ![u] = NoParty]
        /\ UNCHANGED <<party, nextIndex, aiParty, strayed>>
    BY DEF LogIn
  <1>2. MapTypes'
    BY <1>1 DEF PartyInv, MapTypes
  <1>3. Led(party)'
    BY <1>1 DEF PartyInv, Led
  <1>4. Agrees(index, party, strayed)'
    <2> SUFFICES ASSUME NEW v \in Users \ strayed, NEW p \in DOMAIN party,
                        HeldBy(party[p], v) # {}
                 PROVE  /\ v \in online'
                        /\ index'[v] = p
                        /\ \E i \in Places : HeldBy(party[p], v) = {i}
      BY <1>1 DEF Agrees, HeldBy
    <2>1. v \in online /\ index[v] = p /\ \E i \in Places : HeldBy(party[p], v) = {i}
      BY DEF PartyInv, Agrees
    <2> QED BY <1>1, <2>1 DEF PartyInv, MapTypes
  <1>5. CopyAgrees(party, aiParty, strayed)'
    BY <1>1 DEF PartyInv, CopyAgrees
  <1> QED BY <1>2, <1>3, <1>4, <1>5 DEF PartyInv

\* Every step keeps the invariant.
LEMMA PartyStep ==
  ASSUME PartyInv, [Next]_vars PROVE PartyInv'
  <1>1. CASE UNCHANGED <<serverVars, strayed>>
    <2>1. UNCHANGED <<online, index, party, nextIndex, aiParty, strayed>>
      BY <1>1 DEF serverVars
    <2>2. AfterStep
      BY <2>1, MapKept DEF PartyInv, MapTypes
    <2> QED BY <2>1, <2>2, StepKeeps DEF PartyInv, MapTypes
  <1>2. CASE UNCHANGED vars
    BY <1>1, <1>2 DEF vars
  <1>3. ASSUME NEW u \in Users, Client(u) PROVE PartyInv'
    BY <1>1, <1>3 DEF Client, Invite, Leave, Answer, Receive
  <1>4. ASSUME NEW u \in Users, NEW m \in Users, HandleRemove(u, m) PROVE PartyInv'
    <2>1. /\ u \in online /\ PartyRemove(u, m, Nothing)
          /\ UNCHANGED <<online, nextIndex>>
      BY <1>4 DEF HandleRemove, Handles
    <2> QED BY <2>1, RemoveStep, StepKeeps DEF PartyInv, MapTypes
  <1>5. ASSUME NEW u \in Users, Handler(u) PROVE PartyInv'
    BY <1>4, <1>5, CreateStep, RequestStep, InsertStep, CancelStep, HandleDeleteStep
       DEF Handler
  <1>6. ASSUME NEW u \in Users, ZoneChange(u) PROVE PartyInv'
    <2>1. /\ u \in online /\ UNCHANGED <<online, nextIndex>>
          /\ \E later : PartyRemove(u, u, later)
      BY <1>6 DEF ZoneChange
    <2> QED BY <2>1, RemoveStep, StepKeeps DEF PartyInv, MapTypes
  <1> QED BY <1>2, <1>3, <1>5, <1>6, LogOutStep, LogInStep DEF Next

-----------------------------------------------------------------------------
(***************************************************************************)
(* The theorems.                                                           *)
(***************************************************************************)

\* The invariant holds of every behaviour.
LEMMA PartyInvariant == Spec => []PartyInv
  <1>1. Init => PartyInv
    <2> SUFFICES ASSUME Init PROVE PartyInv
      OBVIOUS
    <2>1. DOMAIN party = {} /\ DOMAIN aiParty = {}
      BY DEF Init
    <2>2. MapTypes
      BY <2>1, SizeAssumption DEF Init, MapTypes, Indices
    <2>3. Led(party) /\ Agrees(index, party, strayed)
          /\ CopyAgrees(party, aiParty, strayed)
      BY <2>1 DEF Led, Agrees, CopyAgrees
    <2> QED BY <2>2, <2>3 DEF PartyInv
  <1> QED BY <1>1, PartyStep, PTL DEF Spec

\* Whoever is listed is listed once, in the party his index names, through any
\* crossing of messages, until one of the three strays happens to him.
THEOREM MembersKeepTheirParty == Spec => []MembersAgree
  <1>1. PartyInv => MembersAgree
    <2> SUFFICES ASSUME PartyInv, NEW u \in online \ strayed, NEW p \in DOMAIN party,
                        HeldBy(party[p], u) # {}
                 PROVE  index[u] = p /\ Cardinality(HeldBy(party[p], u)) = 1
      BY DEF MembersAgree
    <2>1. u \in Users
      BY DEF PartyInv, MapTypes
    <2>2. index[u] = p /\ \E i \in Places : HeldBy(party[p], u) = {i}
      BY <2>1 DEF PartyInv, Agrees
    <2>3. Cardinality(HeldBy(party[p], u)) = 1
      BY <2>2, FS_Singleton
    <2> QED BY <2>2, <2>3
  <1> QED BY <1>1, PartyInvariant, PTL

\* The AI server's copy has the same parties, and the same users in the same
\* places wherever the leader was not led astray.
THEOREM CopyKept == Spec => []AiServerAgrees
  <1>1. PartyInv => AiServerAgrees
    BY DEF PartyInv, CopyAgrees, AiServerAgrees
  <1> QED BY <1>1, PartyInvariant, PTL

-----------------------------------------------------------------------------
(***************************************************************************)
(* The channels.                                                           *)
(***************************************************************************)

\* What a packet may name.
Args == Users \cup {NoUser} \cup BOOLEAN

\* Packets on their way, by user.
Channels == [Users -> Seq(Packets)]

\* The packets, and what the clients make of them, are well typed.
ChannelTypes ==
    /\ toServer \in Channels
    /\ toClient \in Channels
    /\ members \in [Users -> Seq(Args)]
    /\ asking \in [Users -> SUBSET Args]

\* What is on its way to the clients stays so, and packets join it.
Posted ==
    /\ toClient' \in Channels
    /\ \A w \in Users : \A i \in DOMAIN toClient[w] :
         i \in DOMAIN toClient'[w] /\ toClient'[w][i] = toClient[w][i]

\* What is put behind a queue leaves it in its place.
LEMMA BehindQueue ==
  ASSUME NEW S, NEW q \in Seq(S), NEW f \in Seq(S), NEW s \in Seq(S), NEW r, r = q \o f \o s
  PROVE  /\ r \in Seq(S)
         /\ \A i \in DOMAIN q : i \in DOMAIN r /\ r[i] = q[i]
  OBVIOUS

\* A post of packets keeps what is on its way.
LEMMA PostTyped ==
  ASSUME toClient \in Channels, NEW first \in Channels, NEW second \in Channels,
         Post(first, second)
  PROVE  Posted
  <1>2. toClient' = [w \in Users |-> toClient[w] \o first[w] \o second[w]]
    BY DEF Post
  <1>3. \A w \in Users : toClient[w] \in Seq(Packets) /\ first[w] \in Seq(Packets)
                         /\ second[w] \in Seq(Packets)
    BY DEF Channels
  <1>4. \A w \in Users : toClient'[w] = toClient[w] \o first[w] \o second[w]
    BY <1>2
  <1>5. ASSUME NEW w \in Users
        PROVE  /\ toClient'[w] \in Seq(Packets)
               /\ \A i \in DOMAIN toClient[w] :
                    i \in DOMAIN toClient'[w] /\ toClient'[w][i] = toClient[w][i]
    <2> DEFINE q == toClient[w]
               f == first[w]
               s == second[w]
               r == toClient'[w]
    <2>1. q \in Seq(Packets) /\ f \in Seq(Packets) /\ s \in Seq(Packets)
      BY <1>3
    <2>2. r = q \o f \o s
      BY <1>4
    <2> HIDE DEF q, f, s, r
    <2>3. r \in Seq(Packets) /\ \A i \in DOMAIN q : i \in DOMAIN r /\ r[i] = q[i]
      BY <2>1, <2>2, BehindQueue
    <2> QED BY <2>3 DEF q, r
  <1>6. toClient' \in Channels
    <2>1. \A w \in Users : toClient'[w] \in Seq(Packets)
      BY <1>5
    <2> QED BY <1>2, <2>1 DEF Channels
  <1> QED BY <1>5, <1>6 DEF Posted

\* The packets that are built are packets.
LEMMA PacketTypes ==
  /\ \A a \in Args : \A op \in {"CREATE", "INSERT", "PERMIT", "REMOVE", "DELETE", "ZONE"} :
       Msg(op, a) \in Packets
  /\ Refused \in Packets
  BY DEF Msg, Packets, Args, Refused

\* What the handlers send are packets.
LEMMA SentTypes ==
  /\ Nothing \in Channels
  /\ \A u, m : m \in Packets => ToUser(u, <<m>>) \in Channels
  /\ \A list, m : m \in Packets => ToParty(list, m) \in Channels
  <1>1. Nothing \in Channels
    BY DEF Nothing, Channels
  <1>2. ASSUME NEW u, NEW m, m \in Packets PROVE ToUser(u, <<m>>) \in Channels
    <2>1. <<m>> \in Seq(Packets) /\ <<>> \in Seq(Packets)
      BY <1>2
    <2> QED BY <2>1 DEF ToUser, Channels
  <1>3. ASSUME NEW list, NEW m, m \in Packets PROVE ToParty(list, m) \in Channels
    <2>1. ASSUME NEW v PROVE Cardinality(HeldBy(list, v)) \in Nat
      <3>1. IsFiniteSet(Places)
        BY SizeAssumption, FS_Interval DEF Places
      <3>2. HeldBy(list, v) \subseteq Places
        BY DEF HeldBy
      <3>3. IsFiniteSet(HeldBy(list, v))
        BY <3>1, <3>2, FS_Subset
      <3> QED BY <3>3, FS_CardinalityType
    <2>2. \A n \in Nat : [k \in 1 .. n |-> m] \in Seq(Packets)
      BY <1>3
    <2>3. <<>> \in Seq(Packets)
      OBVIOUS
    <2> QED BY <2>1, <2>2, <2>3 DEF ToParty, Channels
  <1> QED BY <1>1, <1>2, <1>3

\* The joiner is told of members.
LEMMA MetTypes ==
  ASSUME NEW list \in Lists, NEW u \in Users, online \subseteq Users, NEW met \in Others(list, u)
  PROVE  ToUser(u, [k \in DOMAIN met |-> Msg("INSERT", list[met[k]])]) \in Channels
  <1> DEFINE places == {i \in Places : list[i] \in online /\ list[i] # u}
  <1>1. Cardinality(places) \in Nat
    <2>1. IsFiniteSet(Places)
      BY SizeAssumption, FS_Interval DEF Places
    <2>2. places \subseteq Places
      OBVIOUS
    <2>3. IsFiniteSet(places)
      BY <2>1, <2>2, FS_Subset
    <2> QED BY <2>3, FS_CardinalityType
  <1>2. met \in [1 .. Cardinality(places) -> places]
    BY DEF Others
  <1> DEFINE packets == [k \in DOMAIN met |-> Msg("INSERT", list[met[k]])]
  <1>3. \A k \in DOMAIN met : Msg("INSERT", list[met[k]]) \in Packets
    BY <1>2, PacketTypes DEF Args
  <1>4. DOMAIN met = 1 .. Cardinality(places)
    BY <1>2
  <1> HIDE DEF places
  <1>5. packets \in Seq(Packets)
    BY <1>1, <1>3, <1>4
  <1>6. <<>> \in Seq(Packets)
    OBVIOUS
  <1> HIDE DEF packets
  <1>7. ToUser(u, packets) \in Channels
    BY <1>5, <1>6 DEF ToUser, Channels
  <1> QED BY <1>7 DEF packets

\* The parts that the handlers share.
LEMMA PostSteps ==
  ASSUME ChannelTypes, PartyInv, NEW later \in Channels, NEW u \in Users
  PROVE  /\ \A idx : PartyDelete(u, idx, later) => Posted
         /\ \A p, m \in Users : TakeOut(p, m, later) => Posted
         /\ \A m \in Users : PartyRemove(u, m, later) => Posted
         /\ RequestFails(u) => Posted
  <1>0. toClient \in Channels
    BY DEF ChannelTypes
  <1>1. Msg("DELETE", NoUser) \in Packets /\ Refused \in Packets /\ \A m \in Users : Msg("REMOVE", m) \in Packets
    BY PacketTypes DEF Args
  <1>2. ASSUME NEW idx, PartyDelete(u, idx, later) PROVE Posted
    <2>1. \E first \in Channels : Post(first, later)
      BY <1>1, <1>2, SentTypes DEF PartyDelete, Dissolve
    <2> QED BY <1>0, <2>1, PostTyped
  <1>3. ASSUME NEW p, NEW m \in Users, TakeOut(p, m, later) PROVE Posted
    <2>1. \E first \in Channels : Post(first, later)
      BY <1>1, <1>3, SentTypes DEF TakeOut
    <2> QED BY <1>0, <2>1, PostTyped
  <1>4. ASSUME NEW m \in Users, PartyRemove(u, m, later) PROVE Posted
    <2>1. \/ Post(Nothing, later) \/ PartyDelete(u, index, later) \/ TakeOut(index[u], m, later)
      BY <1>4 DEF PartyRemove
    <2> QED BY <1>0, <1>2, <1>3, <2>1, PostTyped, SentTypes
  <1>5. ASSUME RequestFails(u) PROVE Posted
    BY <1>0, <1>1, <1>5, SentTypes, PostTyped DEF RequestFails
  <1> QED BY <1>2, <1>3, <1>4, <1>5

\* Every handler posts, or is silent.
LEMMA HandlerPosts ==
  ASSUME ChannelTypes, PartyInv, NEW u \in Users, Handler(u)
  PROVE  Posted
  <1>0. toClient \in Channels /\ online \subseteq Users
    BY DEF ChannelTypes, PartyInv, MapTypes
  <1>1. UNCHANGED toClient => Posted
    BY <1>0 DEF Posted
  <1>2. ASSUME NEW v \in Users, PartyCreate(u, v) \/ PartyRequest(u, v) PROVE Posted
    <2>1. Msg("PERMIT", u) \in Packets
      BY PacketTypes DEF Args
    <2>2. ToUser(v, <<Msg("PERMIT", u)>>) \in Channels /\ Nothing \in Channels
      BY <2>1, SentTypes
    <2>3. RequestFails(u) \/ Post(ToUser(v, <<Msg("PERMIT", u)>>), Nothing)
      BY <1>2 DEF PartyCreate, PartyRequest
    <2> QED BY <1>0, <2>2, <2>3, PostTyped, PostSteps
  <1>3. ASSUME NEW m \in Users, HandleRemove(u, m) PROVE Posted
    BY <1>3, PostSteps, SentTypes DEF HandleRemove
  <1>4. CASE HandleDelete(u)
    BY <1>4, PostSteps, SentTypes DEF HandleDelete
  <1>5. CASE PartyCancel(u)
    <2> DEFINE p == index[u]
               told == ToUser(party[p][0], <<Refused>>)
    <2>1. told \in Channels /\ Nothing \in Channels
      BY PacketTypes, SentTypes
    <2>2. p \in DOMAIN party => party[p][0] \in Users
      BY LeaderListed
    <2>3. \/ UNCHANGED toClient \/ Post(told, Nothing)
          \/ p \in DOMAIN party /\ \E idx : PartyDelete(party[p][0], idx, told)
      BY <1>5 DEF PartyCancel
    <2> HIDE DEF told
    <2> QED BY <1>0, <1>1, <2>1, <2>2, <2>3, PostTyped, PostSteps
  <1>6. CASE PartyInsert(u)
    <2> DEFINE p == index[u]
               list == Joined(party[p], u)
               last == IF list[0] \in online THEN ToParty(list, Msg("INSERT", u)) ELSE Nothing
    <2>1. CASE p \notin DOMAIN party
      BY <1>1, <1>6, <2>1 DEF PartyInsert
    <2>2. CASE p \in DOMAIN party
      <3>1. PICK met \in Others(party[p], u) :
              Post(ToUser(u, [k \in DOMAIN met |-> Msg("INSERT", party[p][met[k]])]), last)
        BY <1>6, <2>2 DEF PartyInsert
      <3>2. party[p] \in Lists
        BY <2>2 DEF PartyInv, MapTypes
      <3>3. Msg("INSERT", u) \in Packets
        BY PacketTypes DEF Args
      <3>4. last \in Channels
        BY <3>3, SentTypes
      <3>5. ToUser(u, [k \in DOMAIN met |-> Msg("INSERT", party[p][met[k]])]) \in Channels
        BY <1>0, <3>2, MetTypes
      <3> HIDE DEF last
      <3> QED BY <1>0, <3>1, <3>4, <3>5, PostTyped
    <2> QED BY <2>1, <2>2
  <1> QED BY <1>2, <1>3, <1>4, <1>5, <1>6 DEF Handler

\* What the client keeps in its party window.
LEMMA WindowTypes ==
  ASSUME ChannelTypes, NEW u \in Users, NEW msg \in Packets
  PROVE  MembersAfter(u, msg) \in Seq(Args)
  <1>1. members[u] \in Seq(Args) /\ msg.arg \in Args
    BY DEF ChannelTypes, Packets, Args
  <1>2. ASSUME NEW list \in Seq(Args), NEW v PROVE Without(list, v) \in Seq(Args)
    <2>1. CASE \A k \in DOMAIN list : list[k] # v
      BY <2>1 DEF Without
    <2>2. CASE \E k \in DOMAIN list : list[k] = v
      <3> DEFINE n == Len(list) - 1
                 f == [j \in 1 .. n |-> IF \E k \in 1 .. j : list[k] = v THEN list[j + 1] ELSE list[j]]
      <3>1. n \in Nat
        BY <2>2
      <3>2. \A j \in 1 .. n : list[j] \in Args /\ list[j + 1] \in Args
        OBVIOUS
      <3> HIDE DEF n
      <3>3. f \in Seq(Args)
        BY <3>1, <3>2
      <3>4. Without(list, v) = f
        BY <2>2 DEF Without, n
      <3> QED BY <3>3, <3>4
    <2> QED BY <2>1, <2>2
  <1>3. <<>> \in Seq(Args) /\ Append(members[u], msg.arg) \in Seq(Args)
    BY <1>1
  <1> QED BY <1>1, <1>2, <1>3 DEF MembersAfter

\* What the server reads leaves the client's channel.
LEMMA HandlesOne ==
  ASSUME ChannelTypes, NEW u \in Users, NEW msg, Handles(u, msg)
  PROVE  /\ u \in online /\ toServer[u] # <<>> /\ Head(toServer[u]) = msg
         /\ toServer' \in Channels /\ toServer'[u] = Tail(toServer[u])
         /\ \A w \in Users \ {u} : toServer'[w] = toServer[w]
  <1>1. toServer[u] \in Seq(Packets) /\ toServer[u] # <<>> /\ u \in online /\ Head(toServer[u]) = msg
    BY DEF ChannelTypes, Channels, Handles
  <1>2. toServer \in Channels /\ toServer' = [toServer EXCEPT ![u] = Tail(@)]
    BY DEF ChannelTypes, Handles
  <1>3. Tail(toServer[u]) \in Seq(Packets)
    BY <1>1
  <1> QED BY <1>1, <1>2, <1>3 DEF Channels

\* The packet that a handler handles.
Heard(u) == Head(toServer[u])

\* A handler consumes one packet of its user.
LEMMA HandlerHears ==
  ASSUME NEW u \in Users, Handler(u)
  PROVE  /\ Handles(u, Heard(u)) /\ UNCHANGED <<members, asking, online>>
         /\ Heard(u).op = "PERMIT" => PartyInsert(u) \/ PartyCancel(u)
  <1>1. \E msg : Handles(u, msg)
    BY DEF Handler, PartyCreate, PartyRequest, HandleRemove, PartyInsert, PartyCancel, HandleDelete
  <1>2. Handles(u, Heard(u))
    BY <1>1 DEF Handles, Heard
  <1>3. UNCHANGED <<members, asking, online>>
    BY DEF Handler, PartyCreate, PartyRequest, HandleRemove, PartyInsert, PartyCancel, HandleDelete,
           ClientUnchanged, clientVars, RequestFails
  <1>4. ASSUME NEW v, PartyCreate(u, v) \/ PartyRequest(u, v) \/ HandleRemove(u, v)
        PROVE  Heard(u).op # "PERMIT"
    BY <1>4 DEF PartyCreate, PartyRequest, HandleRemove, Handles, Heard, Msg
  <1>5. HandleDelete(u) => Heard(u).op # "PERMIT"
    BY DEF HandleDelete, Handles, Heard, Msg
  <1> QED BY <1>2, <1>3, <1>4, <1>5 DEF Handler

\* What a client sends joins its channel.
LEMMA SendTyped ==
  ASSUME ChannelTypes, NEW u \in Users, NEW msg \in Packets, SendToServer(u, msg)
  PROVE  /\ toServer' \in Channels
         /\ toServer'[u] = Append(toServer[u], msg)
         /\ \A w \in Users \ {u} : toServer'[w] = toServer[w]
  <1>1. Append(toServer[u], msg) \in Seq(Packets)
    BY DEF ChannelTypes, Channels
  <1> QED BY <1>1 DEF SendToServer, ChannelTypes, Channels

\* A client sends packets; an answer is a PERMIT.
LEMMA ClientSends ==
  ASSUME ChannelTypes, NEW u \in Users
  PROVE  /\ \A v \in Users : Invite(u, v) => \E msg \in Packets : SendToServer(u, msg)
         /\ Leave(u) => \E msg \in Packets : SendToServer(u, msg)
         /\ Answer(u) => \E msg \in Packets : SendToServer(u, msg) /\ msg.op = "PERMIT"
  <1>1. ASSUME NEW v \in Users, Invite(u, v) PROVE \E msg \in Packets : SendToServer(u, msg)
    <2>1. Msg("INSERT", v) \in Packets /\ Msg("CREATE", v) \in Packets
      BY PacketTypes DEF Args
    <2> QED BY <1>1, <2>1 DEF Invite
  <1>2. ASSUME Leave(u) PROVE \E msg \in Packets : SendToServer(u, msg)
    <2>1. \A i \in 2 .. Len(members[u]) : Msg("REMOVE", members[u][i]) \in Packets
      <3>1. members[u] \in Seq(Args)
        BY DEF ChannelTypes
      <3>2. \A i \in 2 .. Len(members[u]) : members[u][i] \in Args
        BY <3>1
      <3> QED BY <3>2, PacketTypes
    <2>2. Msg("DELETE", NoUser) \in Packets /\ Msg("REMOVE", u) \in Packets
      BY PacketTypes DEF Args
    <2> QED BY <1>2, <2>1, <2>2 DEF Leave
  <1>3. ASSUME Answer(u) PROVE \E msg \in Packets : SendToServer(u, msg) /\ msg.op = "PERMIT"
    <2>1. \A yes \in BOOLEAN : Msg("PERMIT", yes) \in Packets /\ Msg("PERMIT", yes).op = "PERMIT"
      <3>1. \A yes \in BOOLEAN : yes \in Args
        BY DEF Args
      <3> QED BY <3>1, PacketTypes DEF Msg
    <2>2. PICK yes \in BOOLEAN : SendToServer(u, Msg("PERMIT", yes))
      BY <1>3 DEF Answer
    <2> QED BY <2>1, <2>2
  <1> QED BY <1>1, <1>2, <1>3

\* A client that receives a packet takes it from its channel.
LEMMA ReceiveOne ==
  ASSUME ChannelTypes, NEW u \in Users, Receive(u)
  PROVE  /\ u \in online /\ toClient[u] # <<>> /\ Head(toClient[u]) \in Packets
         /\ toClient' \in Channels /\ toClient'[u] = Tail(toClient[u])
         /\ \A w \in Users \ {u} : toClient'[w] = toClient[w]
         /\ members' \in [Users -> Seq(Args)] /\ asking' \in [Users -> SUBSET Args]
  <1>1. toClient[u] \in Seq(Packets) /\ toClient[u] # <<>> /\ u \in online
    BY DEF ChannelTypes, Channels, Receive
  <1>2. toClient \in Channels /\ toClient' = [toClient EXCEPT ![u] = Tail(@)]
    BY DEF ChannelTypes, Receive
  <1>3. Tail(toClient[u]) \in Seq(Packets) /\ Head(toClient[u]) \in Packets
    BY <1>1
  <1>4. MembersAfter(u, Head(toClient[u])) \in Seq(Args)
    BY <1>3, WindowTypes
  <1>5. members' \in [Users -> Seq(Args)]
    BY <1>4 DEF ChannelTypes, Receive
  <1>6. asking' \in [Users -> SUBSET Args]
    <2>1. Head(toClient[u]).arg \in Args
      BY <1>3 DEF Packets, Args
    <2> QED BY <2>1 DEF ChannelTypes, Receive
  <1> QED BY <1>1, <1>2, <1>3, <1>5, <1>6 DEF Channels

\* A zone change posts; a log-out empties what belongs to the connection.
LEMMA DeparturePosts ==
  ASSUME ChannelTypes, PartyInv, NEW u \in Users, ZoneChange(u) \/ LogOut(u)
  PROVE  Posted
  <1>1. Msg("ZONE", NoUser) \in Packets
    BY PacketTypes DEF Args
  <1>2. \E later \in Channels : PartyRemove(u, u, later)
    BY <1>1, SentTypes DEF ZoneChange, LogOut
  <1> QED BY <1>2, PostSteps

\* Every step keeps the channels typed.
LEMMA ChannelStep ==
  ASSUME ChannelTypes, PartyInv, [Next]_vars
  PROVE  ChannelTypes'
  <1>0. /\ toServer \in Channels /\ toClient \in Channels /\ members \in [Users -> Seq(Args)]
        /\ asking \in [Users -> SUBSET Args] /\ <<>> \in Seq(Packets) /\ <<>> \in Seq(Args)
    BY DEF ChannelTypes
  <1>1. CASE UNCHANGED vars
    BY <1>0, <1>1 DEF vars, clientVars, ChannelTypes
  <1>2. ASSUME NEW u \in Users, NEW v \in Users, Invite(u, v) PROVE ChannelTypes'
    <2>1. <<u>> \in Seq(Args)
      BY DEF Args
    <2>2. members' \in [Users -> Seq(Args)]
      BY <1>0, <1>2, <2>1 DEF Invite
    <2> QED BY <1>0, <1>2, <2>2, ClientSends, SendTyped DEF Invite, ChannelTypes
  <1>3. ASSUME NEW u \in Users, Leave(u) \/ Answer(u) PROVE ChannelTypes'
    <2>1. toServer' \in Channels
      BY <1>3, ClientSends, SendTyped
    <2>2. UNCHANGED <<toClient, members>>
      BY <1>3 DEF Leave, Answer, clientVars
    <2>3. asking' \in [Users -> SUBSET Args]
      BY <1>0, <1>3 DEF Leave, Answer, clientVars
    <2> QED BY <1>0, <2>1, <2>2, <2>3 DEF ChannelTypes
  <1>4. ASSUME NEW u \in Users, Receive(u) PROVE ChannelTypes'
    <2>1. toServer' = toServer
      BY <1>4 DEF Receive
    <2> QED BY <1>0, <1>4, <2>1, ReceiveOne DEF ChannelTypes
  <1>5. ASSUME NEW u \in Users, Handler(u) PROVE ChannelTypes'
    <2>1. toServer' \in Channels
      BY <1>5, HandlerHears, HandlesOne
    <2>2. toClient' \in Channels /\ members' = members /\ asking' = asking
      BY <1>5, HandlerHears, HandlerPosts DEF Posted
    <2> QED BY <1>0, <2>1, <2>2 DEF ChannelTypes
  <1>6. ASSUME NEW u \in Users, ZoneChange(u) PROVE ChannelTypes'
    <2>1. UNCHANGED <<toServer, members, asking>>
      BY <1>6 DEF ZoneChange, clientVars
    <2> QED BY <1>0, <1>6, <2>1, DeparturePosts DEF ChannelTypes, Posted
  <1>7. ASSUME NEW u \in Users, LogOut(u) PROVE ChannelTypes'
    <2>1. toServer' \in Channels /\ members' \in [Users -> Seq(Args)] /\ asking' \in [Users -> SUBSET Args]
      BY <1>0, <1>7 DEF LogOut, Channels
    <2> QED BY <1>7, <2>1, DeparturePosts DEF ChannelTypes, Posted
  <1>8. ASSUME NEW u \in Users, LogIn(u) PROVE ChannelTypes'
    <2>1. toClient' \in Channels
      BY <1>0, <1>8 DEF LogIn, Channels
    <2> QED BY <1>0, <1>8, <2>1 DEF LogIn, clientVars, ChannelTypes
  <1> QED BY <1>1, <1>2, <1>3, <1>4, <1>5, <1>6, <1>7, <1>8 DEF Next, Client

\* They are in every reachable state.
LEMMA ChannelsTyped == Spec => []ChannelTypes
  <1>1. Init => ChannelTypes
    <2>1. <<>> \in Seq(Packets) /\ <<>> \in Seq(Args)
      OBVIOUS
    <2> QED BY <2>1 DEF Init, ChannelTypes, Channels
  <1> QED BY <1>1, ChannelStep, PartyInvariant, PTL DEF Spec

\* Theorem: indices, lists and packets keep to their values, whatever is sent,
\* and a party always has a leader in its first place.
THEOREM TypeCorrect == Spec => []TypeOK
  <1>1. PartyInv /\ ChannelTypes => TypeOK
    <2> SUFFICES ASSUME PartyInv, ChannelTypes PROVE TypeOK
      OBVIOUS
    <2>1. ASSUME NEW q \in Seq(Packets) PROVE \A i \in DOMAIN q : q[i] \in Packets
      OBVIOUS
    <2>2. \A u \in Users : toServer[u] \in Seq(Packets) /\ toClient[u] \in Seq(Packets)
      BY DEF ChannelTypes, Channels
    <2>3. \A p \in DOMAIN party : party[p] \in [Places -> Users \cup {NoUser}] /\ party[p][0] # NoUser
      BY DEF PartyInv, MapTypes, Led, Lists
    <2> QED BY <2>1, <2>2, <2>3 DEF PartyInv, MapTypes, Indices, TypeOK
  <1> QED BY <1>1, PartyInvariant, ChannelsTyped, PTL

-----------------------------------------------------------------------------
(***************************************************************************)
(* Invitations.                                                            *)
(***************************************************************************)

\* An invitation or its answer is in the queue.
Permits(q) == \E i \in DOMAIN q : q[i].op = "PERMIT"

\* An invitation on its way to the user, before him, or answered.
Open(u) == asking[u] # {} \/ Permits(toServer[u]) \/ Permits(toClient[u])

\* An index without a membership.
Claims(u) == index[u] # NoParty /\ ~Listed(u)

\* Every such index belongs to an invitation.
InviteInv == \A u \in online \ strayed : Claims(u) => Open(u)

\* What a put and a take make of the invitations in a queue.
LEMMA PermitQueue ==
  ASSUME NEW q \in Seq(Packets)
  PROVE  /\ \A m : Permits(Append(q, m)) <=> Permits(q) \/ m.op = "PERMIT"
         /\ q # <<>> => (Permits(q) <=> Permits(Tail(q)) \/ Head(q).op = "PERMIT")
  <1>1. ASSUME NEW m PROVE Permits(Append(q, m)) <=> Permits(q) \/ m.op = "PERMIT"
    <2>1. /\ DOMAIN Append(q, m) = 1 .. Len(q) + 1 /\ DOMAIN q = 1 .. Len(q) /\ Len(q) \in Nat
          /\ \A i \in 1 .. Len(q) : Append(q, m)[i] = q[i]
          /\ Append(q, m)[Len(q) + 1] = m
      OBVIOUS
    <2>2. \A i \in 1 .. Len(q) + 1 : i \in 1 .. Len(q) \/ i = Len(q) + 1
      BY <2>1
    <2>3. \A i \in 1 .. Len(q) : i \in 1 .. Len(q) + 1
      BY <2>1
    <2>4. Len(q) + 1 \in 1 .. Len(q) + 1
      BY <2>1
    <2> QED BY <2>1, <2>2, <2>3, <2>4 DEF Permits
  <1>2. ASSUME q # <<>> PROVE Permits(q) <=> Permits(Tail(q)) \/ Head(q).op = "PERMIT"
    <2>1. /\ DOMAIN Tail(q) = 1 .. Len(q) - 1 /\ DOMAIN q = 1 .. Len(q) /\ Len(q) \in Nat \ {0}
          /\ \A i \in 1 .. Len(q) - 1 : Tail(q)[i] = q[i + 1]
          /\ Head(q) = q[1]
      BY <1>2
    <2>2. \A i \in 1 .. Len(q) : i = 1 \/ (i - 1 \in 1 .. Len(q) - 1 /\ Tail(q)[i - 1] = q[i])
      BY <2>1
    <2>3. \A i \in 1 .. Len(q) - 1 : i + 1 \in 1 .. Len(q)
      BY <2>1
    <2>4. 1 \in 1 .. Len(q)
      BY <2>1
    <2> QED BY <2>1, <2>2, <2>3, <2>4 DEF Permits
  <1> QED BY <1>1, <1>2

\* Who claims a place after a handler did so before, unless he was led astray.
NoNewClaims(except) == \A w \in Users \ except : Claims(w)' => Claims(w)

\* Who is listed depends on the lists only.
LEMMA ListedKept ==
  ASSUME party' = party, NEW w
  PROVE  Listed(w)' <=> Listed(w)
  BY DEF Listed, HeldBy

\* A dissolved party's members have no index left.
LEMMA DeleteClaims ==
  ASSUME PartyInv, NEW u \in Users, NEW later, NEW idx \in [Users -> Indices \cup {NoParty}],
         PartyDelete(u, idx, later), NEW w \in Users \ strayed, Claims(w)'
  PROVE  idx[w] # NoParty /\ ~Listed(w)
  <1>1. CASE idx[u] \notin DOMAIN party /\ index' = [idx EXCEPT ![u] = NoParty] /\ party' = party
    BY <1>1, ListedKept DEF Claims
  <1>2. CASE idx[u] \in DOMAIN party /\ Dissolve(idx[u], idx, later)
    <2> DEFINE p == idx[u]
    <2>1. /\ p \in DOMAIN party
          /\ index' = [v \in Users |-> IF HeldBy(party[p], v) # {} /\ v \in online
                                       THEN NoParty ELSE idx[v]]
          /\ party' = [q \in DOMAIN party \ {p} |-> party[q]]
      BY <1>2 DEF Dissolve
    <2> HIDE DEF p
    <2>2. idx[w] # NoParty /\ ~(HeldBy(party[p], w) # {} /\ w \in online)
      BY <2>1 DEF Claims
    <2>3. ASSUME NEW q \in DOMAIN party, HeldBy(party[q], w) # {} PROVE FALSE
      <3>1. w \in online
        BY <2>3 DEF PartyInv, Agrees
      <3>2. q # p
        BY <2>2, <2>3, <3>1
      <3>3. q \in DOMAIN party' /\ party'[q] = party[q]
        BY <2>1, <2>3, <3>2
      <3>4. Listed(w)'
        BY <2>3, <3>3 DEF Listed, HeldBy
      <3> QED BY <3>4 DEF Claims
    <2> QED BY <2>2, <2>3 DEF Listed
  <1> QED BY <1>1, <1>2 DEF PartyDelete, MapUnchanged

\* Who is taken out of a party has no index left.
LEMMA TakeOutClaims ==
  ASSUME PartyInv, NEW p \in DOMAIN party, NEW m \in Users, NEW later, TakeOut(p, m, later),
         NEW w \in Users \ strayed, Claims(w)'
  PROVE  Claims(w)
  <1>1. /\ party' = [party EXCEPT ![p] = Removed(party[p], m)]
        /\ index' = [index EXCEPT ![m] = IF HeldBy(party[p], m) # {} THEN NoParty ELSE @]
    BY DEF TakeOut
  <1>2. party[p] \in Lists /\ party \in [DOMAIN party -> Lists] /\ index \in [Users -> Indices \cup {NoParty}]
    BY DEF PartyInv, MapTypes
  <1>3. index[w] # NoParty
    BY <1>1, <1>2 DEF Claims
  <1>4. w = m => HeldBy(party[p], m) = {}
    BY <1>1, <1>2 DEF Claims
  <1>5. HeldBy(party'[p], w) = HeldBy(party[p], w)
    <2>1. party'[p] = Removed(party[p], m)
      BY <1>1, <1>2
    <2>2. CASE w = m
      BY <1>2, <1>4, <2>1, <2>2, RemovedList
    <2>3. CASE w # m
      <3>1. w \in Users \ {m}
        BY <2>3
      <3> QED BY <1>2, <2>1, <3>1, RemovedList
    <2> QED BY <2>2, <2>3
  <1>6. DOMAIN party' = DOMAIN party /\ \A q \in DOMAIN party \ {p} : party'[q] = party[q]
    BY <1>1, <1>2
  <1>7. Listed(w) => Listed(w)'
    BY <1>5, <1>6 DEF Listed, HeldBy
  <1> QED BY <1>3, <1>7 DEF Claims

\* PartyRemove makes no claim.
LEMMA RemoveClaims ==
  ASSUME PartyInv, NEW u \in online, NEW m \in Users, NEW later, PartyRemove(u, m, later)
  PROVE  /\ NoNewClaims(strayed') /\ strayed \subseteq strayed'
  <1>0. u \in Users /\ index \in [Users -> Indices \cup {NoParty}]
    BY DEF PartyInv, MapTypes
  <1>1. strayed \subseteq strayed'
    BY RemoveStep DEF AfterStep
  <1> SUFFICES ASSUME NEW w \in Users \ strayed', Claims(w)' PROVE Claims(w)
    BY <1>1 DEF NoNewClaims
  <1>2. w \in Users \ strayed
    BY <1>1
  <1>3. CASE UNCHANGED <<index, party>>
    BY <1>3, ListedKept DEF Claims
  <1>4. CASE index' = [index EXCEPT ![u] = NoParty, ![m] = NoParty] /\ party' = party
    BY <1>0, <1>4, ListedKept DEF Claims
  <1>5. CASE PartyDelete(u, index, later)
    BY <1>0, <1>2, <1>5, DeleteClaims DEF Claims
  <1>6. CASE index[u] \in DOMAIN party /\ TakeOut(index[u], m, later)
    BY <1>2, <1>6, TakeOutClaims
  <1> QED BY <1>3, <1>4, <1>5, <1>6 DEF PartyRemove, MapUnchanged

\* A refusal withdraws the claim.
LEMMA CancelClaims ==
  ASSUME PartyInv, NEW u \in Users, PartyCancel(u)
  PROVE  NoNewClaims(strayed') /\ (u \notin strayed' => ~Claims(u)')
  <1> DEFINE p == index[u]
             idx == [index EXCEPT ![u] = NoParty]
  <1>0. index \in [Users -> Indices \cup {NoParty}] /\ strayed \subseteq strayed'
    BY DEF PartyInv, MapTypes, PartyCancel
  <1>1. ASSUME NEW w \in Users \ strayed', Claims(w)' PROVE Claims(w) /\ w # u
    <2>1. CASE index' = idx /\ party' = party
      BY <1>0, <1>1, <2>1, ListedKept DEF Claims
    <2>2. CASE /\ p \in DOMAIN party
               /\ PartyDelete(party[p][0], idx, ToUser(party[p][0], <<Refused>>))
      <3>1. party[p][0] \in Users
        BY <2>2, LeaderListed
      <3>2. idx \in [Users -> Indices \cup {NoParty}]
        BY <1>0
      <3>3. idx[w] # NoParty /\ ~Listed(w)
        BY <1>0, <1>1, <2>2, <3>1, <3>2, DeleteClaims
      <3> QED BY <1>0, <3>3 DEF Claims
    <2> QED BY <2>1, <2>2 DEF PartyCancel, MapUnchanged
  <1> QED BY <1>1 DEF NoNewClaims

\* So does an acceptance, or it leads astray.
LEMMA InsertClaims ==
  ASSUME PartyInv, NEW u \in Users, PartyInsert(u)
  PROVE  NoNewClaims(strayed') /\ (u \notin strayed' => ~Claims(u)')
  <1> DEFINE p == index[u]
             list == Joined(party[p], u)
  <1>0. /\ index \in [Users -> Indices \cup {NoParty}] /\ party \in [DOMAIN party -> Lists]
        /\ strayed' = IF \/ Listed(u)
                         \/ p \in DOMAIN party /\ FirstFree(party[p]) = {}
                      THEN strayed \cup {u} ELSE strayed
    BY DEF PartyInv, MapTypes, PartyInsert
  <1>1. ASSUME NEW w \in Users \ strayed', Claims(w)' PROVE Claims(w) /\ w # u
    <2>1. CASE p \notin DOMAIN party
      <3>1. index' = [index EXCEPT ![u] = NoParty] /\ party' = party
        BY <2>1 DEF PartyInsert, MapUnchanged
      <3> QED BY <1>0, <1>1, <3>1, ListedKept DEF Claims
    <2>2. CASE p \in DOMAIN party
      <3>1. index' = index /\ party' = [party EXCEPT ![p] = list]
        BY <2>2 DEF PartyInsert
      <3>2. /\ DOMAIN party' = DOMAIN party /\ party'[p] = list
            /\ \A q \in DOMAIN party \ {p} : party'[q] = party[q]
        BY <1>0, <2>2, <3>1
      <3>3. party[p] \in Lists
        BY <1>0, <2>2
      <3>4. CASE w = u
        <4>1. ~Listed(u) /\ FirstFree(party[p]) # {}
          BY <1>0, <1>1, <2>2, <3>4
        <4>2. HeldBy(list, u) # {}
          BY <2>2, <3>3, <4>1, JoinedList DEF Listed
        <4> QED BY <1>1, <2>2, <3>2, <3>4, <4>2 DEF Claims, Listed, HeldBy
      <3>5. CASE w # u
        <4>1. HeldBy(list, w) = HeldBy(party[p], w)
          BY <3>3, <3>5, JoinedList
        <4>2. Listed(w) => Listed(w)'
          BY <3>2, <4>1 DEF Listed, HeldBy
        <4> QED BY <1>1, <3>1, <3>5, <4>2 DEF Claims
      <3> QED BY <3>4, <3>5
    <2> QED BY <2>1, <2>2
  <1> QED BY <1>1 DEF NoNewClaims

\* An invitation is sent with the claim.
LEMMA PermitPosted ==
  ASSUME ChannelTypes, NEW u \in Users, NEW v \in Users, v \in online,
         Post(ToUser(v, <<Msg("PERMIT", u)>>), Nothing)
  PROVE  Permits(toClient'[v])
  <1>1. toClient'[v] = toClient[v] \o <<Msg("PERMIT", u)>> \o <<>>
    BY DEF Post, ToUser, Nothing
  <1>2. ASSUME NEW q \in Seq(Packets), NEW m \in Packets
        PROVE  q \o <<m>> \o <<>> = Append(q, m)
    BY <1>2
  <1>3. toClient[v] \in Seq(Packets) /\ Msg("PERMIT", u) \in Packets
    BY PacketTypes DEF ChannelTypes, Channels, Args
  <1>4. toClient'[v] = Append(toClient[v], Msg("PERMIT", u))
    BY <1>1, <1>2, <1>3
  <1>5. Msg("PERMIT", u).op = "PERMIT"
    BY DEF Msg
  <1> QED BY <1>3, <1>4, <1>5, PermitQueue

\* Two handlers give an index to somebody who is not listed, and invite him.
LEMMA InvitedClaims ==
  ASSUME PartyInv, ChannelTypes, NEW u \in Users, NEW v \in Users,
         PartyCreate(u, v) \/ PartyRequest(u, v), NEW w \in Users, Claims(w)'
  PROVE  strayed' = strayed /\ (Claims(w) \/ Permits(toClient'[w]))
  <1>0. index \in [Users -> Indices \cup {NoParty}] /\ party \in [DOMAIN party -> Lists]
    BY DEF PartyInv, MapTypes
  <1>1. CASE RequestFails(u)
    BY <1>1, ListedKept DEF RequestFails, MapUnchanged, Claims
  <1>2. CASE /\ Invited(u, v) /\ index' = [index EXCEPT ![v] = index[u]]
             /\ UNCHANGED <<online, strayed, party>>
             /\ Post(ToUser(v, <<Msg("PERMIT", u)>>), Nothing)
    <2>1. w = v => Permits(toClient'[w])
      BY <1>2, PermitPosted DEF Invited
    <2>2. w # v => Claims(w)
      BY <1>0, <1>2, ListedKept DEF Claims
    <2> QED BY <1>2, <2>1, <2>2
  <1> DEFINE list == [i \in Places |-> IF i = 0 THEN u ELSE NoUser]
             n == nextIndex
  <1>3. CASE /\ Invited(u, v) /\ n \notin DOMAIN party
             /\ party' = [p \in DOMAIN party \cup {n} |-> IF p = n THEN list ELSE party[p]]
             /\ index' = [index EXCEPT ![u] = n, ![v] = n]
             /\ UNCHANGED <<online, strayed>>
             /\ Post(ToUser(v, <<Msg("PERMIT", u)>>), Nothing)
    <2>1. /\ n \in DOMAIN party' /\ party'[n] = list
          /\ \A q \in DOMAIN party : q \in DOMAIN party' /\ party'[q] = party[q]
      BY <1>3
    <2>2. Listed(w) => Listed(w)'
      BY <2>1 DEF Listed, HeldBy
    <2>3. Listed(u)'
      <3>1. 0 \in HeldBy(list, u)
        BY FirstPlace DEF HeldBy
      <3> QED BY <2>1, <3>1 DEF Listed, HeldBy
    <2>4. w = v => Permits(toClient'[w])
      BY <1>3, PermitPosted DEF Invited
    <2>5. w # v /\ w # u => Claims(w)
      BY <1>0, <1>3, <2>2 DEF Claims
    <2>6. w # u
      BY <2>3 DEF Claims
    <2> QED BY <1>3, <2>4, <2>5, <2>6
  <1> QED BY <1>1, <1>2, <1>3 DEF PartyCreate, PartyRequest, MapUnchanged

\* What is on its way stays so.
LEMMA PostedPermits ==
  ASSUME Posted, NEW w \in Users, Permits(toClient[w])
  PROVE  Permits(toClient'[w])
  BY DEF Posted, Permits

\* A handler leaves every other claim open, and closes that of the user whose
\* answer it handles.
LEMMA HandlerInvites ==
  ASSUME PartyInv, ChannelTypes, InviteInv, NEW u \in Users, Handler(u)
  PROVE  InviteInv'
  <1> SUFFICES ASSUME NEW w \in online' \ strayed', Claims(w)' PROVE Open(w)'
    BY DEF InviteInv
  <1>0. Handles(u, Heard(u)) /\ UNCHANGED <<asking, online>> /\ w \in Users /\ w \in online
    BY HandlerHears DEF PartyInv, MapTypes
  <1>1. Posted
    BY HandlerPosts
  <1>2. /\ toServer[u] \in Seq(Packets) /\ toServer[u] # <<>> /\ u \in online
        /\ Head(toServer[u]) = Heard(u) /\ toServer'[u] = Tail(toServer[u])
        /\ \A v \in Users \ {u} : toServer'[v] = toServer[v]
    BY <1>0, HandlesOne DEF ChannelTypes, Channels
  <1>3. strayed \subseteq strayed' /\ (Claims(w) \/ Permits(toClient'[w]))
    <2>1. ASSUME NEW v \in Users, PartyCreate(u, v) \/ PartyRequest(u, v)
          PROVE  strayed \subseteq strayed' /\ (Claims(w) \/ Permits(toClient'[w]))
      BY <1>0, <2>1, InvitedClaims
    <2>2. ASSUME NEW m \in Users, HandleRemove(u, m)
          PROVE  strayed \subseteq strayed' /\ Claims(w)
      BY <1>0, <1>2, <2>2, RemoveClaims DEF HandleRemove, NoNewClaims
    <2>3. CASE HandleDelete(u)
      <3>1. PartyDelete(u, index, Nothing) /\ strayed' = strayed
            /\ index \in [Users -> Indices \cup {NoParty}]
        BY <2>3 DEF HandleDelete, PartyInv, MapTypes
      <3> QED BY <1>0, <3>1, DeleteClaims DEF Claims
    <2>4. CASE PartyCancel(u)
      BY <1>0, <2>4, CancelClaims DEF NoNewClaims, PartyCancel
    <2>5. CASE PartyInsert(u)
      BY <1>0, <2>5, InsertClaims DEF NoNewClaims, PartyInsert
    <2> QED BY <2>1, <2>2, <2>3, <2>4, <2>5 DEF Handler
  <1>4. CASE Claims(w)
    <2>1. Open(w)
      BY <1>0, <1>3, <1>4 DEF InviteInv
    <2>2. Permits(toServer[w]) => Permits(toServer'[w])
      <3>1. CASE w # u
        BY <1>0, <1>2, <3>1
      <3>2. CASE w = u
        <4>1. Heard(u).op # "PERMIT"
          BY <3>2, HandlerHears, CancelClaims, InsertClaims
        <4> QED BY <1>2, <3>2, <4>1, PermitQueue
      <3> QED BY <3>1, <3>2
    <2> QED BY <1>0, <1>1, <2>1, <2>2, PostedPermits DEF Open
  <1> QED BY <1>3, <1>4 DEF Open

\* A client keeps an invitation until its user answers.
LEMMA ClientInvites ==
  ASSUME PartyInv, ChannelTypes, InviteInv, NEW u \in Users, Client(u)
  PROVE  InviteInv'
  <1> SUFFICES ASSUME NEW w \in online' \ strayed', Claims(w)' PROVE Open(w)'
    BY DEF InviteInv
  <1>0. UNCHANGED <<online, strayed, index, party>>
    BY DEF Client, Invite, Leave, Answer, Receive, serverVars
  <1>1. w \in Users /\ Claims(w) /\ Open(w)
    BY <1>0, ListedKept DEF InviteInv, Claims, PartyInv, MapTypes
  <1>2. /\ toServer[w] \in Seq(Packets) /\ toClient[w] \in Seq(Packets)
        /\ toServer[u] \in Seq(Packets)
    BY <1>1 DEF ChannelTypes, Channels
  <1>3. ASSUME NEW msg \in Packets, SendToServer(u, msg)
        PROVE  /\ Permits(toServer[w]) => Permits(toServer'[w])
               /\ msg.op = "PERMIT" => Permits(toServer'[u])
    <2>1. toServer'[u] = Append(toServer[u], msg) /\ \A v \in Users \ {u} : toServer'[v] = toServer[v]
      BY <1>3, SendTyped
    <2>2. Permits(toServer'[u]) <=> Permits(toServer[u]) \/ msg.op = "PERMIT"
      BY <1>2, <2>1, PermitQueue
    <2>3. w # u => toServer'[w] = toServer[w]
      BY <1>1, <2>1
    <2> QED BY <2>2, <2>3
  <1>4. ASSUME NEW v \in Users, Invite(u, v) PROVE Open(w)'
    <2>1. Permits(toServer[w]) => Permits(toServer'[w])
      BY <1>3, <1>4, ClientSends
    <2>2. UNCHANGED <<toClient, asking>>
      BY <1>4 DEF Invite
    <2> QED BY <1>1, <2>1, <2>2 DEF Open
  <1>5. CASE Leave(u)
    <2>1. Permits(toServer[w]) => Permits(toServer'[w])
      BY <1>3, <1>5, ClientSends
    <2>2. UNCHANGED <<toClient, asking>>
      BY <1>5 DEF Leave, clientVars
    <2> QED BY <1>1, <2>1, <2>2 DEF Open
  <1>6. CASE Answer(u)
    <2>1. (Permits(toServer[w]) => Permits(toServer'[w])) /\ Permits(toServer'[u])
      BY <1>3, <1>6, ClientSends
    <2>2. toClient' = toClient /\ (w # u => (asking[w] # {} => asking'[w] # {}))
      <3>1. PICK v \in asking[u] : asking' = [asking EXCEPT ![u] = @ \ {v}]
        BY <1>6 DEF Answer
      <3>2. w # u => asking'[w] = asking[w]
        BY <1>1, <3>1 DEF ChannelTypes
      <3> QED BY <1>6, <3>1, <3>2 DEF Answer
    <2> QED BY <1>1, <2>1, <2>2 DEF Open
  <1>7. CASE Receive(u)
    <2> DEFINE msg == Head(toClient[u])
    <2>1. /\ toServer' = toServer /\ toClient[u] \in Seq(Packets) /\ toClient[u] # <<>>
          /\ toClient'[u] = Tail(toClient[u])
          /\ \A v \in Users \ {u} : toClient'[v] = toClient[v]
      BY <1>7, ReceiveOne DEF Receive, ChannelTypes, Channels
    <2>2. CASE w # u
      <3>1. asking'[w] = asking[w]
        BY <1>1, <1>7, <2>2 DEF Receive, ChannelTypes
      <3> QED BY <1>1, <2>1, <2>2, <3>1 DEF Open
    <2>3. CASE w = u
      <3>1. /\ asking[u] # {} => asking'[u] # {}
            /\ msg.op = "PERMIT" => asking'[u] # {}
        BY <1>7 DEF Receive, ChannelTypes
      <3>2. Permits(toClient[u]) => Permits(toClient'[u]) \/ msg.op = "PERMIT"
        BY <2>1, PermitQueue
      <3> QED BY <1>1, <2>1, <2>3, <3>1, <3>2 DEF Open
    <2> QED BY <2>2, <2>3
  <1> QED BY <1>4, <1>5, <1>6, <1>7 DEF Client

\* A departure withdraws the claim of who leaves, if it makes any difference.
LEMMA DepartureInvites ==
  ASSUME PartyInv, ChannelTypes, InviteInv, NEW u \in Users, ZoneChange(u) \/ LogOut(u)
  PROVE  InviteInv'
  <1> SUFFICES ASSUME NEW w \in online' \ strayed', Claims(w)' PROVE Open(w)'
    BY DEF InviteInv
  <1>0. u \in online /\ \E later : PartyRemove(u, u, later)
    BY DEF ZoneChange, LogOut
  <1>1. w \in online /\ w \in Users
    BY DEF ZoneChange, LogOut, PartyInv, MapTypes
  <1>2. NoNewClaims(strayed') /\ strayed \subseteq strayed'
    BY <1>0, RemoveClaims DEF PartyInv, MapTypes
  <1>3. Open(w)
    BY <1>1, <1>2 DEF InviteInv, NoNewClaims
  <1>4. asking'[w] = asking[w] /\ toServer'[w] = toServer[w]
    <2>1. CASE ZoneChange(u)
      BY <2>1 DEF ZoneChange, clientVars
    <2>2. CASE LogOut(u)
      <3>1. w # u
        BY <2>2 DEF LogOut
      <3> QED BY <1>1, <2>2, <3>1 DEF LogOut, ChannelTypes, Channels
    <2> QED BY <2>1, <2>2
  <1> QED BY <1>1, <1>3, <1>4, DeparturePosts, PostedPermits DEF Open

\* A new user of a slot has no claim.
LEMMA LogInInvites ==
  ASSUME PartyInv, ChannelTypes, InviteInv, NEW u \in Users, LogIn(u)
  PROVE  InviteInv'
  <1> SUFFICES ASSUME NEW w \in online' \ strayed', Claims(w)' PROVE Open(w)'
    BY DEF InviteInv
  <1>1. index' = [index EXCEPT ![u] = NoParty] /\ index \in [Users -> Indices \cup {NoParty}]
    BY DEF LogIn, PartyInv, MapTypes
  <1>2. w # u
    BY <1>1 DEF Claims
  <1>3. w \in online /\ w \in Users /\ UNCHANGED <<party, strayed, asking, toServer>>
    BY <1>2 DEF LogIn, clientVars, PartyInv, MapTypes
  <1>4. Claims(w)
    BY <1>1, <1>2, <1>3, ListedKept DEF Claims
  <1>5. toClient'[w] = toClient[w]
    BY <1>2, <1>3 DEF LogIn, ChannelTypes, Channels
  <1> QED BY <1>3, <1>4, <1>5 DEF InviteInv, Open

\* Every step keeps every invitation open.
LEMMA InviteStep ==
  ASSUME PartyInv, ChannelTypes, InviteInv, [Next]_vars
  PROVE  InviteInv'
  <1>1. CASE UNCHANGED vars
    <2>1. UNCHANGED <<online, strayed, index, party, asking, toServer, toClient>>
      BY <1>1 DEF vars, serverVars, clientVars
    <2> QED BY <2>1, ListedKept DEF InviteInv, Claims, Open
  <1> QED BY <1>1, HandlerInvites, ClientInvites, DepartureInvites, LogInInvites DEF Next

\* Theorem: whoever has the index of a party without being listed in it can
\* still answer an invitation, so nobody is locked out of parties by a crossing
\* of invitations, refusals, removals and departures, until he is led astray
\* (PartyRequest, PartyInsert, PartyCancel, PartyRemove, PartyDelete).
THEOREM InvitationsStayOpen == Spec => []InvitationsCanBeAnswered
  <1>1. Init => InviteInv
    BY DEF Init, InviteInv, Claims
  <1>2. InviteInv => InvitationsCanBeAnswered
    BY DEF InviteInv, InvitationsCanBeAnswered, Claims, Open, Permits
  <1> QED BY <1>1, <1>2, InviteStep, PartyInvariant, ChannelsTyped, PTL DEF Spec
=============================================================================
