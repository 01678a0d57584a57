--------------------------------- MODULE Party ---------------------------------
(***************************************************************************)
(* Parties: Ebenezer's CUser party handlers, the copy the AI server keeps  *)
(* of every party, and the client's party window.                          *)
(*                                                                         *)
(* The server runs one packet handler at a time (ReceivedData under the    *)
(* socket manager's _mutex), so a handler is one step.  Each connection is *)
(* a pair of FIFO channels.  The AI server answers none of the messages    *)
(* about parties.  aiParty is what it holds once it has handled those that *)
(* have been sent, in the order they were sent: that they may cross on its *)
(* several connections, or be lost with one, is module AiLink.             *)
(***************************************************************************)
EXTENDS Integers, Sequences, FiniteSets

CONSTANTS
    Users,           \* the users' socket ids
    NoUser,          \* -1, a free place
    MaxPartySize,    \* MAX_PARTY_SIZE
    IndexLimit,      \* 32767, where the party index starts again at 0
    MaxInvitations,  \* bound: invitations sent by clients in a run
    MaxDepartures    \* bound: leaves, zone changes and log-outs in a run

ASSUME UserAssumption == IsFiniteSet(Users) /\ NoUser \notin Users
ASSUME SizeAssumption ==
    MaxPartySize \in Nat \ {0} /\ IndexLimit \in Nat \ {0}
ASSUME BoundAssumption == MaxInvitations \in Nat /\ MaxDepartures \in Nat

VARIABLES
    online,       \* users with an active socket
    index,        \* m_sPartyIndex of each user
    party,        \* m_PartyMap: userSocketIds of each party, by index
    nextIndex,    \* the server's m_sPartyIndex
    aiParty,      \* what the messages sent make of the AI server's _partyMap
    toServer,     \* packets sent by the client and not handled yet
    toClient,     \* packets sent by the server and not handled yet
    members,      \* client: m_Members of the party window
    asking,       \* client: inviters whose message box is open
    strayed,      \* users a stale or surplus message has led astray
    invitations, departures   \* counters for the two bounds

serverVars == <<online, index, party, nextIndex, aiParty>>
clientVars == <<members, asking>>
boundVars  == <<invitations, departures>>
vars == <<serverVars, toServer, toClient, clientVars, strayed, boundVars>>

NoParty == -1

Places == 0 .. MaxPartySize - 1

Init ==
    /\ online = Users
    /\ index = [u \in Users |-> NoParty]
    /\ party = <<>>
    /\ nextIndex = 0
    /\ aiParty = <<>>
    /\ toServer = [u \in Users |-> <<>>]
    /\ toClient = [u \in Users |-> <<>>]
    /\ members = [u \in Users |-> <<>>]
    /\ asking = [u \in Users |-> {}]
    /\ strayed = {}
    /\ invitations = 0
    /\ departures = 0

Msg(op, arg) == [op |-> op, arg |-> arg]

Refused == Msg("INSERT", NoUser)

-----------------------------------------------------------------------------
(***************************************************************************)
(* The client.                                                             *)
(***************************************************************************)
SendToServer(u, msg) == toServer' = [toServer EXCEPT ![u] = Append(@, msg)]

\* PartyOrForceConditionGet: two in the window make a party, the first leads.
IsMember(u) == Len(members[u]) >= 2
IsLeader(u) == IsMember(u) /\ Head(members[u]) = u

\* MsgSend_PartyOrForceCreate: who has no party yet puts himself in the window.
Invite(u, v) ==
    /\ u \in online /\ v # u
    /\ IsMember(u) => IsLeader(u)
    /\ invitations < MaxInvitations
    /\ invitations' = invitations + 1
    /\ SendToServer(u, Msg(IF IsMember(u) THEN "INSERT" ELSE "CREATE", v))
    /\ members' = [members EXCEPT ![u] = IF @ = <<>> THEN <<u>> ELSE @]
    /\ UNCHANGED <<serverVars, toClient, asking, strayed, departures>>

\* MsgSend_PartyOrForceLeave: a leader removes another member or dissolves the
\* party, anybody else leaves.
Leave(u) ==
    /\ u \in online /\ IsMember(u)
    /\ departures < MaxDepartures
    /\ departures' = departures + 1
    /\ \/ IsLeader(u) /\ SendToServer(u, Msg("DELETE", NoUser))
       \/ /\ IsLeader(u)
          /\ \E i \in 2 .. Len(members[u]) : SendToServer(u, Msg("REMOVE", members[u][i]))
       \/ ~IsLeader(u) /\ SendToServer(u, Msg("REMOVE", u))
    /\ UNCHANGED <<serverVars, toClient, clientVars, strayed, invitations>>

\* The invitation's message box: MsgSend_PartyOrForcePermit.
Answer(u) ==
    /\ u \in online
    /\ \E v \in asking[u] : asking' = [asking EXCEPT ![u] = @ \ {v}]
    /\ \E yes \in BOOLEAN : SendToServer(u, Msg("PERMIT", yes))
    /\ UNCHANGED <<serverVars, toClient, members, strayed, boundVars>>

\* m_Members without the first entry of this user.
Without(list, v) ==
    IF \A k \in DOMAIN list : list[k] # v THEN list
    ELSE [j \in 1 .. Len(list) - 1 |->
            IF \E k \in 1 .. j : list[k] = v THEN list[j + 1] ELSE list[j]]

\* The party window after a packet: MsgRecv_PartyOrForce, and InitZone.
MembersAfter(u, msg) ==
    CASE msg.op = "INSERT" /\ msg # Refused -> Append(members[u], msg.arg)
      [] msg = Refused -> IF Len(members[u]) = 1 THEN <<>> ELSE members[u]
      [] msg.op = "REMOVE" -> IF msg.arg = u THEN <<>> ELSE Without(members[u], msg.arg)
      [] msg.op \in {"DELETE", "ZONE"} -> <<>>
      [] OTHER -> members[u]

\* MsgRecv_PartyOrForce.  There is one message box for each inviter's name.
Receive(u) ==
    LET msg == Head(toClient[u]) IN
    /\ u \in online /\ toClient[u] # <<>>
    /\ toClient' = [toClient EXCEPT ![u] = Tail(@)]
    /\ members' = [members EXCEPT ![u] = MembersAfter(u, msg)]
    /\ asking' = IF msg.op = "PERMIT" THEN [asking EXCEPT ![u] = @ \cup {msg.arg}]
                 ELSE asking
    /\ UNCHANGED <<serverVars, toServer, strayed, boundVars>>

-----------------------------------------------------------------------------
(***************************************************************************)
(* What the server's handlers send, a sequence of packets for each user.   *)
(***************************************************************************)
Nothing == [v \in Users |-> <<>>]

ToUser(u, packets) == [v \in Users |-> IF v = u /\ u \in online THEN packets ELSE <<>>]

\* The places a list gives to a user.
HeldBy(list, u) == {i \in Places : list[i] = u}

\* Send_PartyMember: one packet for each place of a user who is online.
ToParty(list, msg) ==
    [v \in Users |-> IF v \in online
                     THEN [k \in 1 .. Cardinality(HeldBy(list, v)) |-> msg] ELSE <<>>]

Post(first, second) ==
    toClient' = [v \in Users |-> toClient[v] \o first[v] \o second[v]]

\* The next packet of u is this one and is consumed.
Handles(u, msg) ==
    /\ u \in online /\ toServer[u] # <<>> /\ Head(toServer[u]) = msg
    /\ toServer' = [toServer EXCEPT ![u] = Tail(@)]

Listed(u) == \E p \in DOMAIN party : HeldBy(party[p], u) # {}

-----------------------------------------------------------------------------
(***************************************************************************)
(* The handlers.                                                           *)
(***************************************************************************)
ClientUnchanged == UNCHANGED <<clientVars, boundVars>>
MapUnchanged == UNCHANGED <<party, aiParty>>

\* Faulty variant: the index runs into the sign bit.
IndexAfter_NoWrap(i) == i + 1

\* The party index after the one given to a new party.
IndexAfter(i) == IF i + 1 = IndexLimit THEN 0 ELSE i + 1

\* Faulty variant: a target who has a party already is not refused.
Invited_AnyTarget(u, v) == v \in online

\* The target is free; the nations and levels that do not match are a choice.
Invited(u, v) == v \in online /\ index[v] = NoParty

RequestFails(u) ==
    /\ Post(ToUser(u, <<Refused>>), Nothing)
    /\ UNCHANGED <<online, index, strayed>> /\ MapUnchanged

\* PartyRequest(memberid, true): a party of one, whose index the target is
\* given before it has answered.  An index still in use is skipped.
PartyCreate(u, v) ==
    /\ Handles(u, Msg("CREATE", v))
    /\ \/ /\ Invited(u, v) /\ index[u] = NoParty
          /\ nextIndex' = IndexAfter(nextIndex)
          /\ LET list == [i \in Places |-> IF i = 0 THEN u ELSE NoUser] IN
             IF nextIndex \in DOMAIN party
             THEN RequestFails(u)
             ELSE /\ party' = [p \in DOMAIN party \cup {nextIndex} |->
                                 IF p = nextIndex THEN list ELSE party[p]]
                  /\ aiParty' = [p \in DOMAIN aiParty \cup {nextIndex} |->
                                   IF p \in DOMAIN aiParty THEN aiParty[p] ELSE list]
                  /\ index' = [index EXCEPT ![u] = nextIndex, ![v] = nextIndex]
                  /\ Post(ToUser(v, <<Msg("PERMIT", u)>>), Nothing)
                  /\ UNCHANGED <<online, strayed>>
       \/ RequestFails(u) /\ UNCHANGED nextIndex
    /\ ClientUnchanged

\* PartyRequest(memberid, false): there must be a free place now.
PartyRequest(u, v) ==
    /\ Handles(u, Msg("INSERT", v))
    /\ \/ /\ Invited(u, v)
          /\ index[u] \in DOMAIN party
          /\ HeldBy(party[index[u]], NoUser) # {}
          /\ index' = [index EXCEPT ![v] = index[u]]
          /\ Post(ToUser(v, <<Msg("PERMIT", u)>>), Nothing)
          /\ UNCHANGED <<online, strayed>> /\ MapUnchanged
       \/ RequestFails(u)
    /\ UNCHANGED nextIndex /\ ClientUnchanged

\* The members who are online leave the party, are told so, and it is deleted.
Dissolve(p, idx, later) ==
    /\ index' = [v \in Users |-> IF HeldBy(party[p], v) # {} /\ v \in online
                                 THEN NoParty ELSE idx[v]]
    /\ Post(ToParty(party[p], Msg("DELETE", NoUser)), later)
    /\ party' = [q \in DOMAIN party \ {p} |-> party[q]]
    /\ aiParty' = [q \in DOMAIN aiParty \ {p} |-> aiParty[q]]

\* u.PartyDelete() with these party indices, whoever u is; later packets follow.
PartyDelete(u, idx, later) ==
    \/ /\ idx[u] \notin DOMAIN party
       /\ index' = [idx EXCEPT ![u] = NoParty]
       /\ Post(Nothing, later) /\ MapUnchanged
    \/ idx[u] \in DOMAIN party /\ Dissolve(idx[u], idx, later)

HandleDelete(u) ==
    /\ Handles(u, Msg("DELETE", NoUser))
    /\ PartyDelete(u, index, Nothing)
    /\ UNCHANGED <<online, nextIndex, strayed>> /\ ClientUnchanged

\* A refusal: the leader is told, and a leader left alone dissolves the party.
PartyCancel(u) ==
    LET p   == index[u]
        idx == [index EXCEPT ![u] = NoParty]
    IN
    /\ Handles(u, Msg("PERMIT", FALSE))
    /\ IF p \notin DOMAIN party \/ party[p][0] \notin online
       THEN index' = idx /\ UNCHANGED toClient /\ MapUnchanged
       ELSE LET told == ToUser(party[p][0], <<Refused>>) IN
            IF Cardinality(Places \ HeldBy(party[p], NoUser)) = 1
            THEN PartyDelete(party[p][0], idx, told)
            ELSE index' = idx /\ Post(told, Nothing) /\ MapUnchanged
    /\ strayed' = IF Listed(u) THEN strayed \cup {u} ELSE strayed
    /\ UNCHANGED <<online, nextIndex>> /\ ClientUnchanged

\* The place a joiner is given; none when the party has filled up meanwhile.
FirstFree(list) == {i \in HeldBy(list, NoUser) : \A j \in HeldBy(list, NoUser) : i <= j}

\* The places of the other members who are online, in their order.
Others(list, u) ==
    LET places == {i \in Places : list[i] \in online /\ list[i] # u}
    IN  {met \in [1 .. Cardinality(places) -> places] :
           \A j, k \in DOMAIN met : j < k => met[j] < met[k]}

Joined(list, u) == [i \in Places |-> IF i \in FirstFree(list) THEN u ELSE list[i]]

\* PartyInsert: the joiner learns of the members, takes the first free place,
\* and all are told.  Neither a joiner who is listed already nor a full party is
\* looked for; without a leader nobody, the AI server included, is told.
PartyInsert(u) ==
    LET p == index[u] IN
    /\ Handles(u, Msg("PERMIT", TRUE))
    /\ IF p \notin DOMAIN party
       THEN /\ index' = [index EXCEPT ![u] = NoParty]
            /\ UNCHANGED toClient /\ MapUnchanged
       ELSE LET list == Joined(party[p], u) IN
            /\ party' = [party EXCEPT ![p] = list]
            /\ \E met \in Others(party[p], u) :
                 LET told == ToUser(u, [k \in DOMAIN met |-> Msg("INSERT", party[p][met[k]])])
                 IN  Post(told, IF list[0] \in online
                                THEN ToParty(list, Msg("INSERT", u)) ELSE Nothing)
            /\ aiParty' = IF list[0] \in online
                          THEN [q \in DOMAIN aiParty |->
                                  IF q = p
                                  THEN [i \in Places |-> IF i \in FirstFree(party[p])
                                                         THEN u ELSE aiParty[p][i]]
                                  ELSE aiParty[q]]
                          ELSE aiParty
            /\ UNCHANGED index
    /\ strayed' = IF \/ Listed(u)
                     \/ p \in DOMAIN party /\ FirstFree(party[p]) = {}
                  THEN strayed \cup {u} ELSE strayed
    /\ UNCHANGED <<online, nextIndex>> /\ ClientUnchanged

Removed(list, m) == [i \in Places |-> IF list[i] = m THEN NoUser ELSE list[i]]

\* Faulty variant: the one removed keeps the index of the party.
TakeOut_KeepsIndex(p, m, later) ==
    /\ Post(ToParty(party[p], Msg("REMOVE", m)), later)
    /\ party' = [party EXCEPT ![p] = Removed(party[p], m)]
    /\ aiParty' = [q \in DOMAIN aiParty |->
                     IF q = p THEN Removed(aiParty[p], m) ELSE aiParty[q]]
    /\ UNCHANGED index

\* Faulty variant: the AI server is not told.
TakeOut_NotTold(p, m, later) ==
    /\ Post(ToParty(party[p], Msg("REMOVE", m)), later)
    /\ party' = [party EXCEPT ![p] = Removed(party[p], m)]
    /\ index' = [index EXCEPT ![m] = IF HeldBy(party[p], m) # {} THEN NoParty ELSE @]
    /\ UNCHANGED aiParty

\* All members are told, and every place of m becomes free.  An index that m
\* was only invited with stays.
TakeOut(p, m, later) ==
    /\ Post(ToParty(party[p], Msg("REMOVE", m)), later)
    /\ party' = [party EXCEPT ![p] = Removed(party[p], m)]
    /\ index' = [index EXCEPT ![m] = IF HeldBy(party[p], m) # {} THEN NoParty ELSE @]
    /\ aiParty' = [q \in DOMAIN aiParty |->
                     IF q = p THEN Removed(aiParty[p], m) ELSE aiParty[q]]

\* u.PartyRemove(m); later packets follow.  Only the leader removes others,
\* nobody stays alone, and who names a party that is gone resets m as well.
PartyRemove(u, m, later) ==
    LET p    == index[u]
        left == {i \in Places : party[p][i] \notin {NoUser, m}}
    IN
    IF p = NoParty \/ m \notin online
    THEN Post(Nothing, later) /\ UNCHANGED <<index, strayed>> /\ MapUnchanged
    ELSE IF p \notin DOMAIN party
    THEN /\ index' = [index EXCEPT ![u] = NoParty, ![m] = NoParty]
         /\ strayed' = IF m # u /\ Listed(m) THEN strayed \cup {m} ELSE strayed
         /\ Post(Nothing, later) /\ MapUnchanged
    ELSE /\ \/ /\ m # u /\ party[p][0] # u
               /\ Post(Nothing, later) /\ UNCHANGED index /\ MapUnchanged
            \/ /\ m = u /\ party[p][0] = u
               /\ PartyDelete(u, index, later)
            \/ /\ (m = u) # (party[p][0] = u)
               /\ IF Cardinality(left) = 1
                  THEN PartyDelete(u, index, later) ELSE TakeOut(p, m, later)
         /\ UNCHANGED strayed

HandleRemove(u, m) ==
    /\ Handles(u, Msg("REMOVE", m))
    /\ PartyRemove(u, m, Nothing)
    /\ UNCHANGED <<online, nextIndex>> /\ ClientUnchanged

-----------------------------------------------------------------------------
(***************************************************************************)
(* Zone changes and log-outs.                                              *)
(***************************************************************************)

\* ZoneChange leaves the party; the client that gets to another zone closes its
\* party window, but no message box.
ZoneChange(u) ==
    /\ u \in online
    /\ departures < MaxDepartures
    /\ departures' = departures + 1
    /\ \/ PartyRemove(u, u, ToUser(u, <<Msg("ZONE", NoUser)>>))
       \/ PartyRemove(u, u, Nothing)
    /\ UNCHANGED <<online, nextIndex, toServer, clientVars, invitations>>

\* CloseProcess: the party is left, the socket is released, and the client and
\* what was on its way are gone.
LogOut(u) ==
    /\ u \in online
    /\ departures < MaxDepartures
    /\ departures' = departures + 1
    /\ PartyRemove(u, u, Nothing)
    /\ online' = online \ {u}
    /\ toServer' = [toServer EXCEPT ![u] = <<>>]
    /\ members' = [members EXCEPT ![u] = <<>>]
    /\ asking' = [asking EXCEPT ![u] = {}]
    /\ UNCHANGED <<nextIndex, invitations>>

\* Another connection is given the slot: InitSocket calls CUser::Initialize.
LogIn(u) ==
    /\ u \notin online
    /\ online' = online \cup {u}
    /\ index' = [index EXCEPT ![u] = NoParty]
    /\ toClient' = [toClient EXCEPT ![u] = <<>>]
    /\ UNCHANGED <<party, nextIndex, aiParty, toServer, clientVars, strayed, boundVars>>

-----------------------------------------------------------------------------
Client(u) ==
    \/ \E v \in Users : Invite(u, v)
    \/ Leave(u) \/ Answer(u) \/ Receive(u)

Handler(u) ==
    \/ \E v \in Users : PartyCreate(u, v) \/ PartyRequest(u, v) \/ HandleRemove(u, v)
    \/ PartyInsert(u) \/ PartyCancel(u) \/ HandleDelete(u)

Next == \E u \in Users :
    \/ Client(u) \/ Handler(u)
    \/ ZoneChange(u) \/ LogOut(u) \/ LogIn(u)

Spec == Init /\ [][Next]_vars

-----------------------------------------------------------------------------
Packets == [op : {"CREATE", "INSERT", "PERMIT", "REMOVE", "DELETE", "ZONE"},
            arg : Users \cup {NoUser} \cup BOOLEAN]

\* Every index is one the counter can reach, and a party has a leader.
TypeOK ==
    /\ online \subseteq Users
    /\ nextIndex \in 0 .. IndexLimit - 1
    /\ DOMAIN party \subseteq 0 .. IndexLimit - 1
    /\ \A p \in DOMAIN party :
         party[p] \in [Places -> Users \cup {NoUser}] /\ party[p][0] # NoUser
    /\ index \in [Users -> 0 .. IndexLimit - 1 \cup {NoParty}]
    /\ strayed \subseteq Users
    /\ \A u \in Users :
         /\ \A i \in DOMAIN toServer[u] : toServer[u][i] \in Packets
         /\ \A i \in DOMAIN toClient[u] : toClient[u][i] \in Packets

\* The members' indices and the lists agree: who is listed is listed once, in
\* the party his index names, through any crossing of invitations, refusals,
\* removals, zone changes and log-outs, until one of the three steps that set
\* "strayed" happens to him (PartyInsert, PartyRemove, PartyDelete).
MembersAgree ==
    \A u \in online \ strayed : \A p \in DOMAIN party :
        HeldBy(party[p], u) # {} =>
            index[u] = p /\ Cardinality(HeldBy(party[p], u)) = 1

\* An index without a membership is an invitation the user can still answer:
\* otherwise nobody could invite him again (PartyRequest, PartyCancel).
InvitationsCanBeAnswered ==
    \A u \in online \ strayed :
        index[u] # NoParty /\ ~Listed(u) =>
            \/ asking[u] # {}
            \/ \E i \in DOMAIN toServer[u] : toServer[u][i].op = "PERMIT"
            \/ \E i \in DOMAIN toClient[u] : toClient[u][i].op = "PERMIT"

\* The messages to the AI server say what happened to the parties: handled in the
\* order they were sent, they make a copy with the same parties and the same
\* users in the same places, unless the leader was led astray (Party.cpp, and the
\* AG_USER_PARTY packets of all four handlers).
AiServerAgrees ==
    /\ DOMAIN aiParty = DOMAIN party
    /\ \A p \in DOMAIN party : party[p][0] \notin strayed => aiParty[p] = party[p]
=============================================================================
