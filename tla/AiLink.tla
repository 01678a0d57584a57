--------------------------------- MODULE AiLink ---------------------------------
(***************************************************************************)
(* The game server (Ebenezer) and the AI server: ten TCP connections, over *)
(* which every message may take any of them, and what happens to the users *)
(* the AI server knows and to the game server's NPCs when a connection     *)
(* breaks or either process ends and is started again.                     *)
(*                                                                         *)
(* Each side counts the connections made in one go.  When all of them are  *)
(* there the AI server sends its NPCs and the game server its users.       *)
(*                                                                         *)
(* One worker thread handles what the game server receives, another what   *)
(* the AI server receives; the game-time thread of the game server looks   *)
(* after the connections, and any thread may send.  One END stands for the *)
(* ENDs of all zones, one NPCS for their NPCs.                             *)
(***************************************************************************)
EXTENDS Naturals, Sequences, FiniteSets

CONSTANTS
    MaxAiSocket,   \* MAX_AI_SOCKET, 10
    BatchSize,     \* users in a full AG_USER_INFO_ALL: "tot" of SendAllUserInfo, 20
    MaxUsers,      \* bound: the slots whose connections may come into the game
    MaxBreaks,     \* bound: times connections break in a run
    MaxCrashes,    \* bound: processes that end in a run
    MaxEvents      \* bound: those, and changes of users, together

ASSUME SocketAssumption == MaxAiSocket \in Nat \ {0}
ASSUME BatchAssumption == BatchSize \in Nat \ {0, 1}
ASSUME BoundAssumption == {MaxUsers, MaxBreaks, MaxCrashes, MaxEvents} \subseteq Nat

Links == 1 .. MaxAiSocket
Users == 1 .. MaxUsers          \* a user is known by his slot
Lives == 1 .. MaxCrashes + 1    \* of the AI server's process
NoLife == 0
Idle == 0

VARIABLES
    users,         \* game server: who is in the game
    npcs,          \* the life of the AI server its m_NpcMap comes from
    firstServer,   \* m_bFirstServerFlag
    serverCheck,   \* m_bServerCheckFlag
    pointCheck,    \* m_bPointCheckFlag
    answers,       \* m_sSocketCount
    reAnswers,     \* m_sReSocketCount
    reAge,         \* minutes since m_fReConnectStart, up to 2
    tick,          \* GameTimeTick: the link it looks at
    found,         \* its count > 0
    race,          \* none, reconnected: it has, or lost: and NPCs have come since
    reading,       \* SendAllUserInfo: the user's slot it looks at
    batch,         \* the users in its buffer
    aiUp, aiLife,  \* AI server: whether it runs, and its life
    aiFirst,       \* _firstServerFlag
    connects,      \* _socketCount
    reconnects,    \* _reconnectSocketCount
    aiReAge,       \* minutes since _reconnectStartTime, up to 2
    aiUsers,       \* _users
    link,          \* up, broken and not noticed by the game server, or down
    toAi, toGame,  \* what is under way on each link
    astray,        \* users of whom the AI server may have been told wrongly
    troubled,      \* a count was given up for its age, or NPCs were lost
    changes,       \* users who entered, logged out or were taken wrongly
    breaks, crashes

gameVars == <<users, npcs, firstServer, serverCheck, pointCheck, answers, reAnswers, reAge>>
tickVars == <<tick, found, race>>
sendVars == <<reading, batch>>
aiVars   == <<aiUp, aiLife, aiFirst, connects, reconnects, aiReAge, aiUsers>>
netVars  == <<link, toAi, toGame>>
boundVars == <<changes, breaks, crashes>>
vars == <<gameVars, tickVars, sendVars, aiVars, netVars, astray, troubled, boundVars>>

Msg(op, who)  == [op |-> op, who |-> who]
Connect(flag) == Msg(IF flag THEN "RECONNECT" ELSE "CONNECT", {})
None == [i \in Links |-> <<>>]

\* OnStart has connected all sockets.
AllConnected == [i \in Links |-> <<Connect(FALSE)>>]

Init ==
    /\ users = {} /\ npcs = NoLife
    /\ firstServer = FALSE /\ serverCheck = FALSE /\ pointCheck = FALSE
    /\ answers = 0 /\ reAnswers = 0 /\ reAge = 0
    /\ tick = 1 /\ found = FALSE /\ race = "none"
    /\ reading = Idle /\ batch = {}
    /\ aiUp = TRUE /\ aiLife = 1 /\ aiFirst = FALSE
    /\ connects = 0 /\ reconnects = 0 /\ aiReAge = 0
    /\ aiUsers = {}
    /\ link = [i \in Links |-> "up"]
    /\ toAi = AllConnected
    /\ toGame = None
    /\ astray = {} /\ troubled = FALSE
    /\ changes = 0 /\ breaks = 0 /\ crashes = 0

-----------------------------------------------------------------------------
(***************************************************************************)
(* Send_AIServer: the link is the one m_sSendSocket has come to, which any *)
(* message of the server moves on.  Send to a link that is not up tells    *)
(* the caller nothing.                                                     *)
(***************************************************************************)

\* The users among "who" of whom another message is under way on another link.
Overtakes(who, i) ==
    {u \in who : \E j \in Links \ {i} : \E n \in DOMAIN toAi[j] : u \in toAi[j][n].who}

SendAiServer(msg, i) ==
    IF link[i] = "up" THEN toAi' = [toAi EXCEPT ![i] = Append(@, msg)]
                      ELSE UNCHANGED toAi

\* Those the message leads astray.
Astray(msg, i) == IF link[i] = "up" THEN Overtakes(msg.who, i) ELSE msg.who

\* A change of a user, within the bound on all that happens.
Room == changes + breaks + crashes < MaxEvents
Change == Room /\ changes' = changes + 1

\* A user enters the game; users are accepted since the first NPCs came.  What
\* had been told wrongly of him is made good by any message that arrives in order.
UserEnters(u) ==
    /\ firstServer /\ u \notin users
    /\ Change
    /\ users' = users \cup {u}
    /\ \E i \in Links :
          /\ SendAiServer(Msg("USER_INFO", {u}), i)
          /\ astray' = (astray \ {u}) \cup Astray(Msg("USER_INFO", {u}), i)
    /\ UNCHANGED <<npcs, firstServer, serverCheck, pointCheck, answers, reAnswers, reAge,
                   tickVars, sendVars, aiVars, link, toGame, troubled, breaks, crashes>>

\* CUser::LogOut of a connection that is closed, whether it was in the game or only
\* had a character loaded.  One who is in SendAllUserInfo's buffer is sent after it.
LogOutSent(u) ==
    \E i \in Links :
       /\ SendAiServer(Msg("USER_LOG_OUT", {u}), i)
       /\ astray' = (astray \ {u}) \cup Astray(Msg("USER_LOG_OUT", {u}), i) \cup (batch \cap {u})

\* It returns first: the user's block is empty already, or another connection
\* has his account.
LogOutReturns(u) == u \in users /\ astray' = astray \cup {u} /\ UNCHANGED toAi

\* From here on the user is out of the game, but his slot is released only after
\* Initialize, and SendAllUserInfo does not look at the state of a connection.
UserLeaves(u) ==
    /\ firstServer
    /\ Change
    /\ users' = users \ {u}
    /\ LogOutSent(u) \/ LogOutReturns(u)
    /\ UNCHANGED <<npcs, firstServer, serverCheck, pointCheck, answers, reAnswers, reAge,
                   tickVars, sendVars, aiVars, link, toGame, troubled, breaks, crashes>>

-----------------------------------------------------------------------------
(***************************************************************************)
(* The game-time thread: GameTimeTick looks at one link after the other.   *)
(***************************************************************************)
\* The link counts as connected until its end has been noticed.
TickFound == found \/ link[tick] # "down"

\* AISocketConnect: one that is down is connected again, if the AI server runs.
\* Between two ticks, tick is 1; a tick that begins while all links seem
\* connected is left out: it does what the next one does.
TickSocket ==
    /\ firstServer /\ tick \in Links
    /\ tick = 1 => \E i \in Links : link[i] = "down"
    /\ tick' = tick + 1
    /\ found' = TickFound
    /\ IF link[tick] = "down" /\ aiUp
       THEN /\ link' = [link EXCEPT ![tick] = "up"]
            /\ toAi' = [toAi EXCEPT ![tick] = <<Connect(TRUE)>>]
            /\ race' = "reconnected"
       ELSE UNCHANGED <<link, toAi, race>>
    /\ UNCHANGED <<gameVars, sendVars, aiVars, toGame, astray, troubled, boundVars>>

\* DeleteAllNpcList: the first call stops the use of NPCs, the next deletes them.
DeleteAllNpcList ==
    IF ~serverCheck THEN UNCHANGED <<npcs, serverCheck, pointCheck, troubled>>
    ELSE IF pointCheck
    THEN /\ pointCheck' = FALSE
         /\ troubled' = (troubled \/ race = "lost")
         /\ UNCHANGED <<npcs, serverCheck>>
    ELSE /\ npcs' = NoLife
         /\ serverCheck' = FALSE
         /\ troubled' = (troubled \/ race = "lost")
         /\ UNCHANGED pointCheck

\* The list goes when no link was connected, although some may be by now.
TickEnd ==
    /\ tick = MaxAiSocket + 1
    /\ tick' = 1 /\ found' = FALSE /\ race' = "none"
    /\ IF found THEN UNCHANGED <<npcs, serverCheck, pointCheck, troubled>>
                ELSE DeleteAllNpcList
    /\ UNCHANGED <<users, firstServer, answers, reAnswers, reAge, sendVars, aiVars, netVars,
                   astray, boundVars>>

TickStep == TickSocket \/ TickEnd

-----------------------------------------------------------------------------
(***************************************************************************)
(* The worker thread of the game server's AI sockets.                      *)
(***************************************************************************)
Receives(i, op) ==
    /\ reading = Idle
    /\ toGame[i] # <<>> /\ Head(toGame[i]).op = op
    /\ toGame' = [toGame EXCEPT ![i] = Tail(@)]

\* Faulty variant: the users are not sent.
StartSending_Not == UNCHANGED sendVars

\* SendAllUserInfo begins.
StartSending == reading' = 1 /\ batch' = {}

\* LoginProcess of an answer to a first connection.
LoginProcess(i) ==
    /\ Receives(i, "CONNECT")
    /\ IF answers + 1 = MaxAiSocket
       THEN answers' = 0 /\ serverCheck' = TRUE /\ StartSending
       ELSE answers' = answers + 1 /\ UNCHANGED <<serverCheck, sendVars>>
    /\ UNCHANGED <<users, npcs, firstServer, pointCheck, reAnswers, reAge, tickVars, aiVars,
                   link, toAi, astray, troubled, boundVars>>

\* What a counter of reconnections comes to, and whether all are there in time.
AgeOf(count, age)   == IF count = 0 THEN 0 ELSE age
Counted(count, age) == IF age = 2 \/ count + 1 = MaxAiSocket THEN 0 ELSE count + 1
InTime(count, age)  == age = 0 /\ count + 1 = MaxAiSocket
TooLate(count, age) == age = 2 \/ (age = 1 /\ count + 1 = MaxAiSocket)

\* LoginProcess of an answer to a reconnection.
ReLoginProcess(i) ==
    LET age == AgeOf(reAnswers, reAge)
    IN  /\ Receives(i, "RECONNECT")
        /\ reAnswers' = Counted(reAnswers, age)
        /\ reAge' = AgeOf(reAnswers', age)
        /\ troubled' = (troubled \/ TooLate(reAnswers, age))
        /\ IF InTime(reAnswers, age)
           THEN serverCheck' = TRUE /\ StartSending
           ELSE UNCHANGED <<serverCheck, sendVars>>
        /\ UNCHANGED <<users, npcs, firstServer, pointCheck, answers, tickVars, aiVars, link,
                       toAi, astray, boundVars>>

\* SendAllUserInfo takes whatever connection the user's slot has.  The AI server
\* will see him in it if the slot's block names a character: that of a user of the
\* game, unless it has been emptied, or of a connection that is not in the game yet
\* or not any more.  One of the game who is taken is made good; one is told of
\* wrongly who is not in the game and seen in it, or is in it and not seen.
\*
TakeUser ==
    /\ reading \in Users /\ Cardinality(batch) < BatchSize
    /\ reading' = reading + 1
    /\ \E who \in SUBSET {reading} :
          LET inGame == users \cap {reading}
          IN  /\ batch' = batch \cup who
              /\ astray' = (astray \ who) \cup (who \ inGame) \cup (inGame \ who)
              /\ IF who = inGame THEN UNCHANGED changes ELSE firstServer /\ Change
    /\ UNCHANGED <<gameVars, tickVars, aiVars, netVars, troubled, breaks, crashes>>

\* A full buffer is sent, and so is the rest.  Connections without a character, of
\* any number of slots, take places as well, so that it is full with fewer users.
SendBuffer ==
    /\ batch # {} /\ batch' = {}
    /\ reading' = IF reading \in Users THEN reading ELSE Idle
    /\ \E i \in Links :
          /\ SendAiServer(Msg("USER_INFO_ALL", batch), i)
          /\ astray' = astray \cup Astray(Msg("USER_INFO_ALL", batch), i)
    /\ UNCHANGED <<gameVars, tickVars, aiVars, link, toGame, troubled, boundVars>>

\* SendAllUserInfo ends.  A rest of one short of a full buffer is not sent.
EndSending ==
    /\ reading = MaxUsers + 1 /\ Cardinality(batch) < BatchSize
    /\ reading' = Idle /\ batch' = {}
    /\ astray' = astray \cup batch
    /\ UNCHANGED <<gameVars, tickVars, aiVars, netVars, troubled, boundVars>>

\* NPCs that come while a tick that has reconnected goes on may be lost to it.
RaceAfter == IF race = "reconnected" THEN "lost" ELSE race

\* NPCs whose numbers are in the map are refused.
RecvNpcInfoAll(i) ==
    /\ Receives(i, "NPCS")
    /\ npcs' = IF npcs = NoLife THEN Head(toGame[i]).life ELSE npcs
    /\ race' = RaceAfter
    /\ UNCHANGED <<users, firstServer, serverCheck, pointCheck, answers, reAnswers, reAge,
                   tick, found, sendVars, aiVars, link, toAi, astray, troubled, boundVars>>

\* Faulty variant: the use of NPCs is allowed when they come for the first time.
RecvServerInfo_FirstTime(i) ==
    /\ Receives(i, "END")
    /\ firstServer' = TRUE /\ pointCheck' = (pointCheck \/ ~firstServer)
    /\ race' = RaceAfter
    /\ UNCHANGED <<users, npcs, serverCheck, answers, reAnswers, reAge, tick, found, sendVars,
                   aiVars, link, toAi, astray, troubled, boundVars>>

\* All NPCs are there: users are accepted, and NPCs may be used.
RecvServerInfo(i) ==
    /\ Receives(i, "END")
    /\ firstServer' = TRUE /\ pointCheck' = TRUE
    /\ race' = RaceAfter
    /\ UNCHANGED <<users, npcs, serverCheck, answers, reAnswers, reAge, tick, found, sendVars,
                   aiVars, link, toAi, astray, troubled, boundVars>>

\* The end of a link is noticed; what it still held is not read any more.
CloseProcess(i) ==
    /\ reading = Idle /\ link[i] = "broken"
    /\ link' = [link EXCEPT ![i] = "down"]
    /\ toGame' = [toGame EXCEPT ![i] = <<>>]
    /\ troubled' = (troubled \/ \E n \in DOMAIN toGame[i] : toGame[i][n].op \in {"NPCS", "END"})
    /\ UNCHANGED <<gameVars, tickVars, sendVars, aiVars, toAi, astray, boundVars>>

WorkerStep ==
    \/ TakeUser \/ SendBuffer \/ EndSending
    \/ \E i \in Links : \/ LoginProcess(i) \/ ReLoginProcess(i) \/ RecvNpcInfoAll(i)
                        \/ RecvServerInfo(i) \/ CloseProcess(i)

-----------------------------------------------------------------------------
(***************************************************************************)
(* The AI server.                                                          *)
(***************************************************************************)
AiReceives(i, op) ==
    /\ toAi[i] # <<>> /\ Head(toAi[i]).op = op
    /\ toAi' = [toAi EXCEPT ![i] = Tail(@)]

\* The answer goes out on link i; AllNpcInfo's packets, which take any links in
\* turn, take one here.
Answer(i, op, all) ==
    LET answered == [toGame EXCEPT ![i] = Append(@, [op |-> op, life |-> aiLife])]
        npcInfo == [op |-> "NPCS", life |-> aiLife]
        end     == [op |-> "END", life |-> aiLife]
        up      == {j \in Links : link[j] = "up"}
    IN  IF all
        THEN \E j \in up : toGame' = [answered EXCEPT ![j] = @ \o <<npcInfo, end>>]
        ELSE toGame' = answered

RecvServerConnect(i) ==
    LET all == connects + 1 = MaxAiSocket
    IN  /\ AiReceives(i, "CONNECT")
        /\ connects' = IF all THEN 0 ELSE connects + 1
        /\ aiFirst' = (aiFirst \/ all)
        /\ Answer(i, "CONNECT", all)
        /\ UNCHANGED <<gameVars, tickVars, sendVars, aiUp, aiLife, reconnects, aiReAge, aiUsers,
                       link, astray, troubled, boundVars>>

RecvServerReconnect(i) ==
    LET age == AgeOf(reconnects, aiReAge)
        all == InTime(reconnects, age)
    IN  /\ AiReceives(i, "RECONNECT")
        /\ reconnects' = Counted(reconnects, age)
        /\ aiReAge' = AgeOf(reconnects', age)
        /\ troubled' = (troubled \/ TooLate(reconnects, age))
        /\ aiFirst' = (aiFirst \/ all)
        /\ Answer(i, "RECONNECT", all)
        /\ UNCHANGED <<gameVars, tickVars, sendVars, aiUp, aiLife, connects, aiUsers, link,
                       astray, boundVars>>

\* Faulty variant: a user who has logged out is not deleted.
RecvUsers_Keeps(i) ==
    /\ \/ /\ AiReceives(i, "USER_INFO") \/ AiReceives(i, "USER_INFO_ALL")
          /\ aiUsers' = aiUsers \cup Head(toAi[i]).who
       \/ AiReceives(i, "USER_LOG_OUT") /\ UNCHANGED aiUsers
    /\ UNCHANGED <<gameVars, tickVars, sendVars, aiUp, aiLife, aiFirst, connects, reconnects,
                   aiReAge, link, toGame, astray, troubled, boundVars>>

\* RecvUserInfo, RecvUserInfoAllData and RecvUserLogOut.
RecvUsers(i) ==
    /\ \/ /\ AiReceives(i, "USER_INFO") \/ AiReceives(i, "USER_INFO_ALL")
          /\ aiUsers' = aiUsers \cup Head(toAi[i]).who
       \/ /\ AiReceives(i, "USER_LOG_OUT")
          /\ aiUsers' = aiUsers \ Head(toAi[i]).who
    /\ UNCHANGED <<gameVars, tickVars, sendVars, aiUp, aiLife, aiFirst, connects, reconnects,
                   aiReAge, link, toGame, astray, troubled, boundVars>>

AiStep == \E i \in Links : RecvServerConnect(i) \/ RecvServerReconnect(i) \/ RecvUsers(i)

\* CheckAliveTest: nothing can be sent on any link, so the users are forgotten.
CheckAliveTest ==
    /\ aiUp /\ aiFirst
    /\ \A i \in Links : link[i] # "up"
    /\ aiUsers' = {}
    /\ aiFirst' = FALSE
    /\ UNCHANGED <<gameVars, tickVars, sendVars, aiUp, aiLife, connects, reconnects, aiReAge,
                   netVars, astray, troubled, boundVars>>

-----------------------------------------------------------------------------
(***************************************************************************)
(* Time and faults.                                                        *)
(***************************************************************************)
Older(count, age) == IF count > 0 /\ age < 2 THEN age + 1 ELSE age

\* A minute is ten ticks: what is under way has arrived long before it has passed.
Minute ==
    /\ toAi = None /\ toGame = None /\ tick = 1 /\ reading = Idle
    /\ \/ reAnswers > 0 /\ reAge < 2
       \/ reconnects > 0 /\ aiReAge < 2
    /\ reAge' = Older(reAnswers, reAge)
    /\ aiReAge' = Older(reconnects, aiReAge)
    /\ UNCHANGED <<users, npcs, firstServer, serverCheck, pointCheck, answers, reAnswers,
                   tickVars, sendVars, aiUp, aiLife, aiFirst, connects, reconnects, aiUsers,
                   netVars, astray, troubled, boundVars>>

Crash == Room /\ crashes < MaxCrashes /\ crashes' = crashes + 1 /\ UNCHANGED <<changes, breaks>>

\* Connections break at once, with what is under way to the AI server on them.
LinksBreak(broken) ==
    /\ Room /\ breaks < MaxBreaks /\ breaks' = breaks + 1
    /\ \A i \in broken : link[i] = "up"
    /\ link' = [i \in Links |-> IF i \in broken THEN "broken" ELSE link[i]]
    /\ toAi' = [i \in Links |-> IF i \in broken THEN <<>> ELSE toAi[i]]
    /\ astray' = astray \cup
                   UNION {UNION {toAi[i][n].who : n \in DOMAIN toAi[i]} : i \in broken}
    /\ UNCHANGED <<gameVars, tickVars, sendVars, aiVars, toGame, troubled, changes, crashes>>

\* The AI server's process ends, and with it all it knew.
AiCrash ==
    /\ Crash
    /\ aiUp
    /\ aiUp' = FALSE
    /\ aiFirst' = FALSE /\ connects' = 0 /\ reconnects' = 0 /\ aiReAge' = 0
    /\ aiUsers' = {}
    /\ link' = [i \in Links |-> IF link[i] = "up" THEN "broken" ELSE link[i]]
    /\ toAi' = None
    /\ astray' = batch \ users
    /\ UNCHANGED <<gameVars, tickVars, sendVars, aiLife, toGame, troubled>>

AiRestart ==
    /\ ~aiUp
    /\ aiUp' = TRUE /\ aiLife' = aiLife + 1
    /\ UNCHANGED <<gameVars, tickVars, sendVars, aiFirst, connects, reconnects, aiReAge, aiUsers,
                   netVars, astray, troubled, boundVars>>

\* The game server's process ends and is started again; OnStart fails unless the
\* AI server runs.  Whom the AI server still knows has left the game.
GameRestart ==
    /\ Crash
    /\ aiUp
    /\ users' = {} /\ npcs' = NoLife
    /\ firstServer' = FALSE /\ serverCheck' = FALSE /\ pointCheck' = FALSE
    /\ answers' = 0 /\ reAnswers' = 0 /\ reAge' = 0
    /\ tick' = 1 /\ found' = FALSE /\ race' = "none"
    /\ reading' = Idle /\ batch' = {}
    /\ link' = [i \in Links |-> "up"]
    /\ toAi' = AllConnected
    /\ toGame' = None
    /\ astray' = aiUsers
    /\ UNCHANGED <<aiVars, troubled>>

-----------------------------------------------------------------------------
Next ==
    \/ \E u \in Users : UserEnters(u) \/ UserLeaves(u)
    \/ TickStep \/ WorkerStep \/ AiStep \/ CheckAliveTest
    \/ Minute \/ AiCrash \/ AiRestart \/ GameRestart
    \/ \E broken \in SUBSET Links \ {{}} : LinksBreak(broken)

Spec == Init /\ [][Next]_vars

\* The three threads run.  Nothing is assumed of users, faults and time, nor
\* that an AI server that has ended is started again.
FairSpec == Spec /\ WF_vars(TickStep) /\ WF_vars(WorkerStep) /\ WF_vars(AiStep)
-----------------------------------------------------------------------------
GameMessages == [op : {"CONNECT", "RECONNECT", "NPCS", "END"}, life : Lives]
AiMessages   == [op : {"CONNECT", "RECONNECT", "USER_INFO", "USER_INFO_ALL", "USER_LOG_OUT"},
                 who : SUBSET Users]

TypeOK ==
    /\ {users, batch, aiUsers, astray} \subseteq SUBSET Users
    /\ npcs \in Lives \cup {NoLife} /\ aiLife \in Lives
    /\ {firstServer, serverCheck, pointCheck, found, aiUp, aiFirst, troubled}
          \subseteq BOOLEAN
    /\ {answers, reAnswers, connects, reconnects} \subseteq 0 .. MaxAiSocket - 1
    /\ {reAge, aiReAge} \subseteq 0 .. 2
    /\ tick \in 1 .. MaxAiSocket + 1 /\ race \in {"none", "reconnected", "lost"}
    /\ reading \in 0 .. MaxUsers + 1
    /\ link \in [Links -> {"up", "broken", "down"}]
    /\ toAi \in [Links -> Seq(AiMessages)] /\ toGame \in [Links -> Seq(GameMessages)]
    /\ changes \in 0 .. MaxEvents /\ breaks \in 0 .. MaxBreaks /\ crashes \in 0 .. MaxCrashes

\* The AI server keeps nobody who is not in the game, unless his log-out is still
\* under way, or the last that was sent of him was lost or overtaken, or was not
\* sent, or SendAllUserInfo took his connection while it was not in the game;
\* whatever breaks, ends or is sent anew (Send_AIServer, RecvUserLogOut).
NoGhosts ==
    \A u \in aiUsers \ (users \cup astray) :
        \E i \in Links : \E n \in DOMAIN toAi[i] :
            toAi[i][n].op = "USER_LOG_OUT" /\ u \in toAi[i][n].who

\* Both servers run, and no count of connections is stuck between none and all of
\* them, was given up for its age, or lost the NPCs it asked for.
Settled == aiUp /\ firstServer /\ ~troubled /\ reAnswers = 0 /\ reconnects = 0

\* After broken connections and ended processes the AI server comes to know
\* exactly the users in the game, but for those of whom the last message was lost,
\* overtaken or not sent, or who were taken wrongly by SendAllUserInfo (LoginProcess,
\* SendAllUserInfo).
UsersConverge ==
    \A u \in Users :
        []<>(Settled => u \in astray \/ (u \in users <=> u \in aiUsers))

\* And the game server comes to have NPCs that it may use (RecvServerConnect,
\* AllNpcInfo, DeleteAllNpcList).
NpcsConverge == []<>(Settled => npcs # NoLife /\ pointCheck)
=============================================================================
