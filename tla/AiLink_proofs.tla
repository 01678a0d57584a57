----------------------------- MODULE AiLink_proofs -----------------------------
(***************************************************************************)
(* The AI link, for any number of connections and users, any size of the   *)
(* batches, and whatever breaks or ends: types, and that the AI server     *)
(* keeps nobody who is not in the game unless his log-out is still to come,*)
(* or the last that was sent of him was wrong, lost or overtaken.          *)
(*                                                                         *)
(* The invariant speaks of each user apart who is neither astray nor in    *)
(* the buffer of SendAllUserInfo (Told): what is under way of him is on    *)
(* one link, so that it arrives in order; the last of it says whether he   *)
(* is in the game; and the AI server has only such users of whom nothing   *)
(* is under way as are in the game.  A user in the buffer may have left    *)
(* only if he is astray.  About the links it adds that one that is not up  *)
(* holds nothing for the AI server.                                        *)
(***************************************************************************)
EXTENDS AiLink, TLAPS

\* TypeOK, part by part: the game server's variables.
GameTypes ==
    /\ users \in SUBSET Users /\ npcs \in Lives \cup {NoLife}
    /\ firstServer \in BOOLEAN /\ serverCheck \in BOOLEAN /\ pointCheck \in BOOLEAN
    /\ answers \in 0 .. MaxAiSocket - 1 /\ reAnswers \in 0 .. MaxAiSocket - 1
    /\ reAge \in 0 .. 2

\* The game-time thread.
TickTypes ==
    /\ tick \in 1 .. MaxAiSocket + 1
    /\ found \in BOOLEAN /\ race \in {"none", "reconnected", "lost"}

\* SendAllUserInfo.
SendTypes == reading \in 0 .. MaxUsers + 1 /\ batch \in SUBSET Users

\* The AI server.
AiTypes ==
    /\ aiUp \in BOOLEAN /\ aiLife \in Lives /\ aiFirst \in BOOLEAN
    /\ connects \in 0 .. MaxAiSocket - 1 /\ reconnects \in 0 .. MaxAiSocket - 1
    /\ aiReAge \in 0 .. 2
    /\ aiUsers \in SUBSET Users

\* The links and what is under way on them.
NetTypes ==
    /\ link \in [Links -> {"up", "broken", "down"}]
    /\ toAi \in [Links -> Seq(AiMessages)] /\ toGame \in [Links -> Seq(GameMessages)]

\* What went wrong, and the bounds.
FaultTypes ==
    /\ astray \in SUBSET Users /\ troubled \in BOOLEAN
    /\ changes \in 0 .. MaxEvents /\ breaks \in 0 .. MaxBreaks /\ crashes \in 0 .. MaxCrashes

\* The AI server's process has been started at most once more often than it or
\* the other ended.
LifeBound == aiLife <= crashes + 1 /\ (~aiUp => aiLife <= crashes)

\* The parts together, with the bound on the lives that TypeOK needs.
Types == GameTypes /\ TickTypes /\ SendTypes /\ AiTypes /\ NetTypes /\ FaultTypes /\ LifeBound

\* What the assumptions say of each constant.
LEMMA Bounds ==
    /\ MaxAiSocket \in Nat /\ MaxAiSocket >= 1 /\ 1 \in Links
    /\ MaxUsers \in Nat /\ MaxEvents \in Nat /\ MaxBreaks \in Nat /\ MaxCrashes \in Nat
<1>1. MaxUsers \in Nat /\ MaxEvents \in Nat /\ MaxBreaks \in Nat /\ MaxCrashes \in Nat
  BY BoundAssumption
<1>2. MaxAiSocket \in Nat /\ MaxAiSocket >= 1
  BY SocketAssumption
<1> QED BY <1>1, <1>2 DEF Links

\* Where the counters start.
LEMMA Starts ==
    /\ 0 \in 0 .. MaxAiSocket - 1 /\ 0 \in 0 .. 2 /\ 1 \in 1 .. MaxAiSocket + 1
    /\ 0 \in 0 .. MaxUsers + 1 /\ 1 \in 0 .. MaxUsers + 1 /\ 1 \in Lives
    /\ 0 \in 0 .. MaxEvents /\ 0 \in 0 .. MaxBreaks /\ 0 \in 0 .. MaxCrashes
BY Bounds DEF Lives

\* The parts make up TypeOK.
LEMMA TypesAreTypeOK == Types => TypeOK
<1> SUFFICES ASSUME Types PROVE TypeOK
  OBVIOUS
<1> USE DEF Types
<1>1. {users, batch, aiUsers, astray} \subseteq SUBSET Users
  BY DEF GameTypes, SendTypes, AiTypes, FaultTypes
<1>2. {firstServer, serverCheck, pointCheck, found, aiUp, aiFirst, troubled} \subseteq BOOLEAN
  BY DEF GameTypes, TickTypes, AiTypes, FaultTypes
<1>3. {answers, reAnswers, connects, reconnects} \subseteq 0 .. MaxAiSocket - 1
  BY DEF GameTypes, AiTypes
<1>4. {reAge, aiReAge} \subseteq 0 .. 2
  BY DEF GameTypes, AiTypes
<1> QED BY <1>1, <1>2, <1>3, <1>4
        DEF TypeOK, GameTypes, TickTypes, SendTypes, AiTypes, NetTypes, FaultTypes

\* A message sent is typed.
LEMMA SentTyped ==
    ASSUME NetTypes, NEW i \in Links, NEW msg \in AiMessages, SendAiServer(msg, i)
    PROVE  toAi' \in [Links -> Seq(AiMessages)]
<1>1. Append(toAi[i], msg) \in Seq(AiMessages)
  BY DEF NetTypes
<1> QED BY <1>1 DEF NetTypes, SendAiServer

\* Only users are led astray.
LEMMA AstrayUsers ==
    ASSUME NEW i \in Links, NEW msg \in AiMessages
    PROVE  Astray(msg, i) \in SUBSET Users
BY DEF Astray, Overtakes, AiMessages

\* What is sent to the AI server is typed.
LEMMA BatchMessage ==
    ASSUME NEW who \in SUBSET Users
    PROVE  /\ Msg("USER_INFO", who) \in AiMessages
           /\ Msg("USER_INFO_ALL", who) \in AiMessages
           /\ Msg("USER_LOG_OUT", who) \in AiMessages
           /\ Msg("CONNECT", {}) \in AiMessages
           /\ Msg("RECONNECT", {}) \in AiMessages
BY DEF Msg, AiMessages

\* Types hold at the start.
LEMMA InitTyped == ASSUME Init PROVE Types
<1>1. GameTypes /\ TickTypes /\ SendTypes
  BY Starts, Zenon DEF Init, GameTypes, TickTypes, SendTypes, Idle
<1>2. AiTypes /\ FaultTypes
  BY Starts, Zenon DEF Init, AiTypes, FaultTypes
<1>4. LifeBound
  <2>1. aiLife = 1 /\ crashes = 0 /\ aiUp
    BY DEF Init
  <2> QED BY <2>1 DEF LifeBound
<1>3. NetTypes
  BY BatchMessage DEF Init, NetTypes, AllConnected, None, Connect
<1> QED BY <1>1, <1>2, <1>3, <1>4 DEF Types

\* The changes of users stay within the bound on all that happens.
LEMMA ChangeTyped == ASSUME FaultTypes, Change PROVE changes' \in 0 .. MaxEvents
<1>1. changes \in Nat /\ breaks \in Nat /\ crashes \in Nat
  BY DEF FaultTypes
<1> QED BY <1>1, Bounds DEF Change, Room

\* Users who enter and leave keep the types.
LEMMA UserTyped ==
    ASSUME Types, NEW u \in Users, UserEnters(u) \/ UserLeaves(u)
    PROVE  Types'
<1> USE DEF Types, UserEnters, UserLeaves
<1>1. GameTypes'
  BY DEF GameTypes
<1>2. TickTypes' /\ SendTypes' /\ AiTypes' /\ LifeBound'
  BY DEF TickTypes, SendTypes, AiTypes, LifeBound, tickVars, sendVars, aiVars
<1>3. toAi' \in [Links -> Seq(AiMessages)] /\ astray' \in SUBSET Users
  <2>1. CASE \E i \in Links, op \in {"USER_INFO", "USER_LOG_OUT"} :
                /\ SendAiServer(Msg(op, {u}), i)
                /\ astray' \subseteq astray \cup Astray(Msg(op, {u}), i) \cup batch
    <3>1. PICK i \in Links, op \in {"USER_INFO", "USER_LOG_OUT"} :
                /\ SendAiServer(Msg(op, {u}), i)
                /\ astray' \subseteq astray \cup Astray(Msg(op, {u}), i) \cup batch
      BY <2>1
    <3>2. Msg(op, {u}) \in AiMessages
      BY BatchMessage
    <3>3. Astray(Msg(op, {u}), i) \in SUBSET Users
      BY <3>2, AstrayUsers
    <3>4. toAi' \in [Links -> Seq(AiMessages)]
      BY <3>1, <3>2, SentTyped
    <3> QED BY <3>1, <3>3, <3>4 DEF FaultTypes, SendTypes
  <2>2. CASE LogOutReturns(u)
    BY <2>2 DEF LogOutReturns, NetTypes, FaultTypes
  <2>3. CASE UserEnters(u)
    <3>1. PICK i \in Links :
             /\ SendAiServer(Msg("USER_INFO", {u}), i)
             /\ astray' = (astray \ {u}) \cup Astray(Msg("USER_INFO", {u}), i)
      BY <2>3
    <3> QED BY <3>1, <2>1
  <2>4. CASE LogOutSent(u)
    <3>1. PICK i \in Links :
             /\ SendAiServer(Msg("USER_LOG_OUT", {u}), i)
             /\ astray' = (astray \ {u}) \cup Astray(Msg("USER_LOG_OUT", {u}), i)
                             \cup (batch \cap {u})
      BY <2>4 DEF LogOutSent
    <3> QED BY <3>1, <2>1
  <2> QED BY <2>2, <2>3, <2>4
<1>4. NetTypes'
  BY <1>3 DEF NetTypes
<1>5. FaultTypes'
  <2>1. changes' \in 0 .. MaxEvents
    BY ChangeTyped DEF FaultTypes
  <2> QED BY <1>3, <2>1 DEF FaultTypes
<1> QED BY <1>1, <1>2, <1>4, <1>5

\* The game-time thread keeps the types.
LEMMA TickTyped == ASSUME Types, TickStep PROVE Types'
<1> USE DEF Types
<1>1. CASE TickSocket
  <2> USE <1>1 DEF TickSocket
  <2>1. TickTypes'
    <3>1. tick' \in 1 .. MaxAiSocket + 1
      BY Bounds DEF Links
    <3>2. TickFound \in BOOLEAN
      BY DEF TickTypes, TickFound
    <3>3. race' \in {"none", "reconnected", "lost"}
      BY DEF TickTypes
    <3> QED BY <3>1, <3>2, <3>3, Zenon DEF TickTypes
  <2>2. NetTypes'
    <3>1. <<Connect(TRUE)>> \in Seq(AiMessages)
      BY BatchMessage DEF Connect
    <3> QED BY <3>1 DEF NetTypes
  <2> QED BY <2>1, <2>2
          DEF GameTypes, SendTypes, AiTypes, FaultTypes, LifeBound, gameVars, sendVars,
              aiVars, boundVars
<1>2. CASE TickEnd
  <2> USE <1>2 DEF TickEnd
  <2>1. TickTypes'
    BY Starts, Zenon DEF TickTypes
  <2>2. GameTypes' /\ troubled' \in BOOLEAN
    BY DEF GameTypes, FaultTypes, DeleteAllNpcList
  <2> QED BY <2>1, <2>2
          DEF SendTypes, AiTypes, NetTypes, FaultTypes, LifeBound, sendVars, aiVars,
              netVars, boundVars
<1> QED BY <1>1, <1>2 DEF TickStep

\* A counter of reconnections stays below the number of links, and its age
\* within two minutes.
LEMMA CountTyped ==
    ASSUME NEW count \in 0 .. MaxAiSocket - 1, NEW age \in 0 .. 2
    PROVE  /\ AgeOf(count, age) \in 0 .. 2
           /\ Counted(count, age) \in 0 .. MaxAiSocket - 1
           /\ InTime(count, age) \in BOOLEAN /\ TooLate(count, age) \in BOOLEAN
           /\ Older(count, age) \in 0 .. 2
BY Bounds DEF AgeOf, Counted, InTime, TooLate, Older

\* A message taken from a link leaves the rest typed.
LEMMA ReceivedTyped ==
    ASSUME NetTypes, NEW i \in Links, NEW op, Receives(i, op)
    PROVE  toGame' \in [Links -> Seq(GameMessages)]
BY DEF NetTypes, Receives

\* The answers to connections keep the types.
LEMMA LoginTyped ==
    ASSUME Types, NEW i \in Links, LoginProcess(i) \/ ReLoginProcess(i)
    PROVE  Types'
<1> USE DEF Types
<1>1. CASE LoginProcess(i)
  <2> USE <1>1 DEF LoginProcess
  <2>1. GameTypes'
    <3>1. answers' \in 0 .. MaxAiSocket - 1
      BY Bounds DEF GameTypes
    <3>2. serverCheck' \in BOOLEAN
      BY DEF GameTypes
    <3> QED BY <3>1, <3>2 DEF GameTypes
  <2>2. SendTypes'
    BY Bounds DEF SendTypes, StartSending, sendVars
  <2>3. NetTypes'
    BY ReceivedTyped DEF NetTypes
  <2> QED BY <2>1, <2>2, <2>3
          DEF TickTypes, AiTypes, FaultTypes, LifeBound, tickVars, aiVars, boundVars
<1>2. CASE ReLoginProcess(i)
  <2> USE <1>2 DEF ReLoginProcess
  <2>1. AgeOf(reAnswers, reAge) \in 0 .. 2
    BY CountTyped DEF GameTypes
  <2>2. reAnswers' \in 0 .. MaxAiSocket - 1
    BY <2>1, CountTyped DEF GameTypes
  <2>3. reAge' \in 0 .. 2
    BY <2>1, <2>2, CountTyped
  <2>4. serverCheck' \in BOOLEAN
    BY DEF GameTypes
  <2>5. GameTypes'
    BY <2>2, <2>3, <2>4 DEF GameTypes
  <2>6. SendTypes'
    BY Bounds DEF SendTypes, StartSending, sendVars
  <2>7. NetTypes'
    BY ReceivedTyped DEF NetTypes
  <2>8. troubled' \in BOOLEAN
    BY DEF FaultTypes
  <2> QED BY <2>5, <2>6, <2>7, <2>8
          DEF TickTypes, AiTypes, FaultTypes, LifeBound, tickVars, aiVars, boundVars
<1> QED BY <1>1, <1>2

\* SendAllUserInfo keeps the types.
LEMMA BatchTyped == ASSUME Types, TakeUser \/ SendBuffer \/ EndSending PROVE Types'
<1> USE DEF Types
<1>1. CASE TakeUser
  <2>1. PICK who \in SUBSET {reading} :
           /\ batch' = batch \cup who
           /\ astray' \subseteq astray \cup who \cup users
           /\ UNCHANGED changes \/ Change
    BY <1>1 DEF TakeUser
  <2>2. SendTypes'
    <3>1. reading' \in 0 .. MaxUsers + 1
      BY <1>1, Bounds DEF TakeUser, Users
    <3> QED BY <1>1, <2>1, <3>1 DEF TakeUser, SendTypes
  <2>3. FaultTypes'
    <3>1. changes' \in 0 .. MaxEvents
      BY <2>1, ChangeTyped DEF FaultTypes
    <3>2. astray' \in SUBSET Users
      BY <1>1, <2>1 DEF TakeUser, FaultTypes, GameTypes
    <3> QED BY <1>1, <3>1, <3>2 DEF TakeUser, FaultTypes
  <2> QED BY <1>1, <2>2, <2>3
          DEF TakeUser, GameTypes, TickTypes, AiTypes, NetTypes, LifeBound, gameVars,
              tickVars, aiVars, netVars
<1>2. CASE SendBuffer
  <2>1. PICK i \in Links :
           /\ SendAiServer(Msg("USER_INFO_ALL", batch), i)
           /\ astray' = astray \cup Astray(Msg("USER_INFO_ALL", batch), i)
    BY <1>2 DEF SendBuffer
  <2>2. Msg("USER_INFO_ALL", batch) \in AiMessages
    BY BatchMessage DEF SendTypes
  <2>3. toAi' \in [Links -> Seq(AiMessages)] /\ astray' \in SUBSET Users
    BY <2>1, <2>2, SentTyped, AstrayUsers DEF FaultTypes
  <2>4. NetTypes' /\ FaultTypes'
    BY <1>2, <2>3 DEF SendBuffer, NetTypes, FaultTypes, boundVars
  <2>5. SendTypes'
    BY <1>2, Starts DEF SendBuffer, SendTypes, Idle
  <2> QED BY <1>2, <2>4, <2>5
          DEF SendBuffer, GameTypes, TickTypes, AiTypes, LifeBound, gameVars, tickVars,
              aiVars, boundVars
<1>3. CASE EndSending
  <2>1. SendTypes' /\ FaultTypes'
    BY <1>3, Starts DEF EndSending, SendTypes, FaultTypes, Idle, boundVars
  <2> QED BY <1>3, <2>1
          DEF EndSending, GameTypes, TickTypes, AiTypes, NetTypes, LifeBound, gameVars,
              tickVars, aiVars, netVars, boundVars
<1> QED BY <1>1, <1>2, <1>3

\* The AI server's NPCs keep the types.
LEMMA NpcTyped ==
    ASSUME Types, NEW i \in Links, RecvNpcInfoAll(i) \/ RecvServerInfo(i)
    PROVE  Types'
<1> USE DEF Types, RecvNpcInfoAll, RecvServerInfo
<1>1. toGame' \in [Links -> Seq(GameMessages)]
  BY ReceivedTyped
<1>2. Head(toGame[i]).life \in Lives
  <2>1. toGame[i] \in Seq(GameMessages) /\ toGame[i] # <<>>
    BY DEF NetTypes, Receives
  <2>2. Head(toGame[i]) \in GameMessages
    BY <2>1
  <2> QED BY <2>2 DEF GameMessages
<1>3. GameTypes'
  BY <1>2 DEF GameTypes
<1>4. TickTypes'
  BY DEF TickTypes, RaceAfter
<1> QED BY <1>1, <1>3, <1>4
        DEF SendTypes, AiTypes, NetTypes, FaultTypes, LifeBound, sendVars, aiVars,
            boundVars

\* Noticing the end of a link keeps the types.
LEMMA CloseTyped == ASSUME Types, NEW i \in Links, CloseProcess(i) PROVE Types'
<1> USE DEF Types, CloseProcess
<1>1. NetTypes'
  BY DEF NetTypes
<1>2. FaultTypes'
  BY DEF FaultTypes, boundVars
<1> QED BY <1>1, <1>2
        DEF GameTypes, TickTypes, SendTypes, AiTypes, LifeBound, gameVars, tickVars,
            sendVars, aiVars, boundVars

\* What the AI server answers is typed, on whichever link its NPCs go.
LEMMA AnswerTyped ==
    ASSUME AiTypes, NetTypes, NEW i \in Links, NEW op \in {"CONNECT", "RECONNECT"},
           NEW all \in BOOLEAN, Answer(i, op, all)
    PROVE  toGame' \in [Links -> Seq(GameMessages)]
<1>1. [op |-> op, life |-> aiLife] \in GameMessages
  BY DEF GameMessages, AiTypes
<1>2. <<[op |-> "NPCS", life |-> aiLife], [op |-> "END", life |-> aiLife]>> \in Seq(GameMessages)
  BY DEF GameMessages, AiTypes
<1>3. [toGame EXCEPT ![i] = Append(@, [op |-> op, life |-> aiLife])]
         \in [Links -> Seq(GameMessages)]
  BY <1>1 DEF NetTypes
<1>4. ASSUME NEW f \in [Links -> Seq(GameMessages)], NEW j \in Links,
             NEW more \in Seq(GameMessages)
      PROVE  [f EXCEPT ![j] = @ \o more] \in [Links -> Seq(GameMessages)]
  OBVIOUS
<1>5. CASE all
  <2>1. PICK j \in Links :
           toGame' = [[toGame EXCEPT ![i] = Append(@, [op |-> op, life |-> aiLife])]
                         EXCEPT ![j] = @ \o <<[op |-> "NPCS", life |-> aiLife],
                                              [op |-> "END", life |-> aiLife]>>]
    BY <1>5, Zenon DEF Answer
  <2> QED BY <2>1, <1>2, <1>3, <1>4, Zenon
<1>6. CASE ~all
  BY <1>3, <1>6, Zenon DEF Answer
<1> QED BY <1>5, <1>6

\* What the AI server receives is typed, and so is the rest.
LEMMA TakenTyped ==
    ASSUME NetTypes, NEW i \in Links, NEW op, AiReceives(i, op)
    PROVE  /\ toAi' \in [Links -> Seq(AiMessages)]
           /\ Head(toAi[i]) \in AiMessages
BY DEF NetTypes, AiReceives

\* The AI server keeps the types.
LEMMA AiTyped == ASSUME Types, AiStep \/ CheckAliveTest PROVE Types'
<1> USE DEF Types
<1>1. ASSUME NEW i \in Links, RecvServerConnect(i) PROVE Types'
  <2> USE <1>1 DEF RecvServerConnect
  <2>1. NetTypes'
    BY TakenTyped, AnswerTyped DEF NetTypes
  <2>2. AiTypes'
    BY Bounds DEF AiTypes
  <2> QED BY <2>1, <2>2
          DEF GameTypes, TickTypes, SendTypes, FaultTypes, LifeBound, gameVars,
              tickVars, sendVars, boundVars
<1>2. ASSUME NEW i \in Links, RecvServerReconnect(i) PROVE Types'
  <2> USE <1>2 DEF RecvServerReconnect
  <2>1. AgeOf(reconnects, aiReAge) \in 0 .. 2
    BY CountTyped DEF AiTypes
  <2>2. /\ reconnects' \in 0 .. MaxAiSocket - 1
        /\ InTime(reconnects, AgeOf(reconnects, aiReAge)) \in BOOLEAN
    BY <2>1, CountTyped DEF AiTypes
  <2>3. aiReAge' \in 0 .. 2
    BY <2>1, <2>2, CountTyped
  <2>4. NetTypes'
    BY <2>2, TakenTyped, AnswerTyped DEF NetTypes
  <2>5. AiTypes'
    BY <2>2, <2>3 DEF AiTypes
  <2>6. FaultTypes'
    BY DEF FaultTypes, boundVars
  <2> QED BY <2>4, <2>5, <2>6
          DEF GameTypes, TickTypes, SendTypes, LifeBound, gameVars, tickVars, sendVars,
              boundVars
<1>3. ASSUME NEW i \in Links, RecvUsers(i) PROVE Types'
  <2> USE <1>3 DEF RecvUsers
  <2>1. NetTypes' /\ Head(toAi[i]).who \in SUBSET Users
    BY TakenTyped DEF NetTypes, AiMessages
  <2>2. AiTypes'
    BY <2>1 DEF AiTypes
  <2> QED BY <2>1, <2>2
          DEF GameTypes, TickTypes, SendTypes, FaultTypes, LifeBound, gameVars,
              tickVars, sendVars, boundVars
<1>4. CASE CheckAliveTest
  BY <1>4
     DEF CheckAliveTest, GameTypes, TickTypes, SendTypes, AiTypes, NetTypes,
         FaultTypes, LifeBound, gameVars, tickVars, sendVars, netVars, boundVars
<1> QED BY <1>1, <1>2, <1>3, <1>4 DEF AiStep

\* Time and faults keep the types; a process that is started again lives one of
\* the lives that the number of ended ones allows.
LEMMA FaultTyped ==
    ASSUME Types,
           Minute \/ AiCrash \/ AiRestart \/ GameRestart
              \/ \E broken \in SUBSET Links \ {{}} : LinksBreak(broken)
    PROVE  Types'
<1> USE DEF Types
<1>1. CASE Minute
  <2> USE <1>1 DEF Minute
  <2>1. reAge' \in 0 .. 2 /\ aiReAge' \in 0 .. 2
    BY CountTyped DEF GameTypes, AiTypes
  <2> QED BY <2>1
          DEF GameTypes, TickTypes, SendTypes, AiTypes, NetTypes, FaultTypes,
              LifeBound, tickVars, sendVars, netVars, boundVars
<1>2. CASE AiCrash
  <2> USE <1>2 DEF AiCrash, Crash
  <2>1. NetTypes'
    BY DEF NetTypes, None
  <2>2. AiTypes' /\ FaultTypes' /\ LifeBound'
    <3>1. crashes' \in 0 .. MaxCrashes /\ aiLife <= crashes'
      BY Bounds DEF FaultTypes, LifeBound, AiTypes, Lives
    <3>2. AiTypes'
      BY Starts, Zenon DEF AiTypes
    <3>3. FaultTypes'
      BY <3>1 DEF FaultTypes, SendTypes
    <3>4. LifeBound'
      BY <3>1, Bounds DEF LifeBound, AiTypes, Lives, FaultTypes
    <3> QED BY <3>2, <3>3, <3>4
  <2> QED BY <2>1, <2>2 DEF GameTypes, TickTypes, SendTypes, gameVars, tickVars, sendVars
<1>3. CASE AiRestart
  <2> USE <1>3 DEF AiRestart
  <2>1. AiTypes' /\ LifeBound'
    BY Bounds DEF AiTypes, LifeBound, Lives, FaultTypes, boundVars
  <2> QED BY <2>1
          DEF GameTypes, TickTypes, SendTypes, NetTypes, FaultTypes, gameVars,
              tickVars, sendVars, netVars, boundVars
<1>4. CASE GameRestart
  <2> USE <1>4 DEF GameRestart, Crash
  <2>1. NetTypes'
    <3>1. <<Connect(FALSE)>> \in Seq(AiMessages)
      BY BatchMessage DEF Connect
    <3>2. /\ link' \in [Links -> {"up", "broken", "down"}]
          /\ toGame' \in [Links -> Seq(GameMessages)]
      BY DEF None
    <3>3. toAi' \in [Links -> Seq(AiMessages)]
      BY <3>1, Zenon DEF AllConnected
    <3> QED BY <3>2, <3>3 DEF NetTypes
  <2>2. GameTypes' /\ TickTypes' /\ SendTypes'
    BY Starts, Zenon DEF GameTypes, TickTypes, SendTypes, Idle
  <2>3. AiTypes' /\ FaultTypes' /\ LifeBound'
    BY Bounds DEF AiTypes, FaultTypes, LifeBound, aiVars, Lives
  <2> QED BY <2>1, <2>2, <2>3
<1>5. ASSUME NEW broken \in SUBSET Links, LinksBreak(broken) PROVE Types'
  <2> USE <1>5 DEF LinksBreak
  <2>1. NetTypes'
    BY DEF NetTypes
  <2>2. UNION {UNION {toAi[i][n].who : n \in DOMAIN toAi[i]} : i \in broken} \subseteq Users
    <3>1. ASSUME NEW i \in broken, NEW n \in DOMAIN toAi[i]
          PROVE  toAi[i][n].who \in SUBSET Users
      <4>1. toAi[i] \in Seq(AiMessages)
        BY DEF NetTypes
      <4>2. toAi[i][n] \in AiMessages
        BY <4>1
      <4> QED BY <4>2 DEF AiMessages
    <3>2. ASSUME NEW i \in broken
          PROVE  UNION {toAi[i][n].who : n \in DOMAIN toAi[i]} \in SUBSET Users
      BY <3>1
    <3> QED BY <3>2
  <2>3. FaultTypes'
    BY <2>2, Bounds DEF FaultTypes
  <2> QED BY <2>1, <2>3
          DEF GameTypes, TickTypes, SendTypes, AiTypes, LifeBound, gameVars, tickVars,
              sendVars, aiVars
<1> QED BY <1>1, <1>2, <1>3, <1>4, <1>5

\* A step that changes nothing keeps the types.
LEMMA StutterTyped == ASSUME Types, UNCHANGED vars PROVE Types'
BY DEF Types, GameTypes, TickTypes, SendTypes, AiTypes, NetTypes, FaultTypes,
       LifeBound, vars, gameVars, tickVars, sendVars, aiVars, netVars, boundVars

\* The types hold always.
LEMMA TypesHold == Spec => []Types
<1>1. Types /\ [Next]_vars => Types'
  BY UserTyped, TickTyped, LoginTyped, BatchTyped, NpcTyped, CloseTyped, AiTyped, FaultTyped, StutterTyped
     DEF Next, WorkerStep
<1> QED BY <1>1, InitTyped, PTL DEF Spec

\* The state is typed: no counter of connections reaches the number of links
\* (LoginProcess, RecvServerConnect), no process has more lives than ends.
THEOREM TypeCorrect == Spec => []TypeOK
BY TypesHold, TypesAreTypeOK, PTL

-----------------------------------------------------------------------------
\* The messages of q that concern the user.
Concerns(u, q) == {n \in DOMAIN q : u \in q[n].who}

\* The last of them, if any, is his log-out exactly when he is not among who.
LastWord(u, q, who) ==
    \A n \in Concerns(u, q) : \E m \in Concerns(u, q) :
        m >= n /\ (q[m].op = "USER_LOG_OUT" <=> u \notin who)

\* What is under way of the user is on one link.
OneLink(u) ==
    \A i, j \in Links :
        Concerns(u, toAi[i]) # {} /\ Concerns(u, toAi[j]) # {} => i = j

\* Nothing is under way of him.
Silent(u) == \A i \in Links : Concerns(u, toAi[i]) = {}

\* The AI server has been told, or is being told, whether he is in the game; it
\* need not know him, when the process or the links have ended since.
Told(u) ==
    /\ OneLink(u)
    /\ \A i \in Links : LastWord(u, toAi[i], users)
    /\ Silent(u) /\ u \in aiUsers => u \in users

\* The requests to connect name no user.
ConcernsNobody(q) ==
    \A n \in DOMAIN q : q[n].op \in {"CONNECT", "RECONNECT"} => q[n].who = {}

\* A link that is not up holds nothing for the AI server.
LinksSound ==
    \A i \in Links :
        /\ link[i] # "up" => toAi[i] = <<>>
        /\ ConcernsNobody(toAi[i])

\* Everyone is told of but for those astray and in the buffer, and those in the
\* buffer are in the game unless they are astray.
ToldInv ==
    /\ reading = Idle => batch = {}
    /\ \A u \in Users \ (astray \cup batch) : Told(u)
    /\ batch \ astray \subseteq users

\* What concerns a user after a message is appended.
LEMMA AppendConcerns ==
    ASSUME NEW q \in Seq(AiMessages), NEW msg \in AiMessages, NEW u
    PROVE  Concerns(u, Append(q, msg)) =
             Concerns(u, q) \cup (IF u \in msg.who THEN {Len(q) + 1} ELSE {})
BY DEF Concerns

\* A message about the user has the last word; another leaves it as it was.
LEMMA AppendLastWord ==
    ASSUME NEW q \in Seq(AiMessages), NEW msg \in AiMessages, NEW u, NEW who, NEW old,
           IF u \in msg.who THEN msg.op = "USER_LOG_OUT" <=> u \notin who
                            ELSE LastWord(u, q, old) /\ (u \in old <=> u \in who)
    PROVE  LastWord(u, Append(q, msg), who)
<1> DEFINE r == Append(q, msg)
<1>1. Concerns(u, r) = Concerns(u, q) \cup (IF u \in msg.who THEN {Len(q) + 1} ELSE {})
  BY AppendConcerns
<1>2. Concerns(u, q) \subseteq 1 .. Len(q) /\ Len(q) \in Nat
  BY DEF Concerns
<1>3. r[Len(q) + 1] = msg /\ \A n \in 1 .. Len(q) : r[n] = q[n]
  OBVIOUS
<1> HIDE DEF r
<1>4. ASSUME u \in msg.who PROVE LastWord(u, r, who)
  <2>1. Concerns(u, r) = Concerns(u, q) \cup {Len(q) + 1}
    BY <1>1, <1>4
  <2>2. \A n \in Concerns(u, r) : Len(q) + 1 >= n
    BY <2>1, <1>2
  <2>3. msg.op = "USER_LOG_OUT" <=> u \notin who
    BY <1>4
  <2>4. Len(q) + 1 \in Concerns(u, r) /\ r[Len(q) + 1].op = msg.op
    BY <2>1, <1>3
  <2> QED BY <2>2, <2>3, <2>4 DEF LastWord
<1>5. ASSUME u \notin msg.who PROVE LastWord(u, r, who)
  <2>1. Concerns(u, r) = Concerns(u, q)
    BY <1>1, <1>5
  <2>2. LastWord(u, q, old) /\ (u \in old <=> u \in who)
    BY <1>5
  <2>3. \A n \in Concerns(u, q) : r[n] = q[n]
    BY <1>2, <1>3
  <2> QED BY <2>1, <2>2, <2>3 DEF LastWord
<1> QED BY <1>4, <1>5 DEF r

\* What concerns a user after the first message is taken.
LEMMA TailConcerns ==
    ASSUME NEW q \in Seq(AiMessages), q # <<>>, NEW u
    PROVE  \A n \in Nat : n \in Concerns(u, Tail(q)) <=> n # 0 /\ n + 1 \in Concerns(u, q)
BY DEF Concerns

\* Taking the first message leaves the last word, or was the last word.
LEMMA TailLastWord ==
    ASSUME NEW q \in Seq(AiMessages), q # <<>>, NEW u, NEW who, LastWord(u, q, who)
    PROVE  /\ LastWord(u, Tail(q), who)
           /\ Concerns(u, Tail(q)) # {} => Concerns(u, q) # {}
           /\ Concerns(u, Tail(q)) = {} =>
                IF u \in Head(q).who THEN Head(q).op = "USER_LOG_OUT" <=> u \notin who
                                     ELSE Concerns(u, q) = {}
<1> DEFINE r == Tail(q)
<1>1. \A n \in Nat : n \in Concerns(u, r) <=> n # 0 /\ n + 1 \in Concerns(u, q)
  BY TailConcerns
<1>2. Concerns(u, q) \subseteq Nat \ {0} /\ Concerns(u, r) \subseteq Nat \ {0}
  BY DEF Concerns
<1>3. \A n \in Concerns(u, r) : r[n] = q[n + 1]
  BY DEF Concerns
<1>4. Head(q) = q[1] /\ 1 \in DOMAIN q
  OBVIOUS
<1> HIDE DEF r
<1>5. LastWord(u, r, who)
  <2> SUFFICES ASSUME NEW n \in Concerns(u, r)
               PROVE  \E m \in Concerns(u, r) :
                         m >= n /\ (r[m].op = "USER_LOG_OUT" <=> u \notin who)
    BY DEF LastWord
  <2>1. n \in Nat /\ n + 1 \in Concerns(u, q)
    BY <1>1, <1>2
  <2>2. PICK m \in Concerns(u, q) :
           m >= n + 1 /\ (q[m].op = "USER_LOG_OUT" <=> u \notin who)
    BY <2>1 DEF LastWord
  <2>3. m \in Nat /\ m - 1 \in Nat /\ m - 1 # 0 /\ (m - 1) + 1 = m /\ m - 1 >= n
    BY <2>1, <2>2, <1>2
  <2>4. m - 1 \in Concerns(u, r)
    BY <2>3, <1>1
  <2>5. r[m - 1] = q[m]
    BY <2>3, <2>4, <1>3
  <2> QED BY <2>2, <2>3, <2>4, <2>5
<1>6. Concerns(u, r) # {} => Concerns(u, q) # {}
  BY <1>1, <1>2
<1>7. ASSUME Concerns(u, r) = {} PROVE Concerns(u, q) \subseteq {1}
  <2> SUFFICES ASSUME NEW m \in Concerns(u, q), m # 1 PROVE FALSE
    OBVIOUS
  <2>1. m - 1 \in Nat /\ m - 1 # 0 /\ (m - 1) + 1 = m
    BY <1>2
  <2>2. m - 1 \in Concerns(u, r)
    BY <2>1, <1>1
  <2> QED BY <2>2, <1>7
<1>8. 1 \in Concerns(u, q) <=> u \in Head(q).who
  BY <1>4 DEF Concerns
<1>9. ASSUME Concerns(u, r) = {}, u \in Head(q).who
      PROVE  Head(q).op = "USER_LOG_OUT" <=> u \notin who
  <2>1. PICK m \in Concerns(u, q) : q[m].op = "USER_LOG_OUT" <=> u \notin who
    BY <1>8, <1>9 DEF LastWord
  <2> QED BY <2>1, <1>7, <1>9, <1>4
<1>10. ASSUME Concerns(u, r) = {}, u \notin Head(q).who PROVE Concerns(u, q) = {}
  BY <1>7, <1>8, <1>10
<1> QED BY <1>5, <1>6, <1>9, <1>10 DEF r

-----------------------------------------------------------------------------
\* A step after which nothing is under way of the user.
LEMMA SilentStep ==
    ASSUME NEW u, Silent(u)', u \in aiUsers' => u \in users'
    PROVE  Told(u)'
BY DEF Silent, Told, OneLink, LastWord

\* A step that leaves what is under way of the user, and whether he is in the
\* game, and does not make him known.
LEMMA QuietStep ==
    ASSUME NEW u, Told(u),
           \A i \in Links : \/ toAi'[i] = toAi[i]
                            \/ Concerns(u, toAi[i]) = {} /\ Concerns(u, toAi'[i]) = {},
           u \in aiUsers' => u \in aiUsers,
           u \in users' <=> u \in users
    PROVE  Told(u)'
<1>1. \A i \in Links : Concerns(u, toAi'[i]) = Concerns(u, toAi[i])
  OBVIOUS
<1>2. OneLink(u)'
  BY <1>1 DEF Told, OneLink
<1>3. ASSUME NEW i \in Links PROVE LastWord(u, toAi'[i], users')
  <2>1. LastWord(u, toAi[i], users)
    BY DEF Told
  <2>2. CASE toAi'[i] = toAi[i]
    BY <2>1, <2>2 DEF LastWord
  <2>3. CASE Concerns(u, toAi'[i]) = {}
    BY <2>3 DEF LastWord
  <2> QED BY <2>2, <2>3
<1>4. Silent(u)' => Silent(u)
  BY <1>1 DEF Silent
<1> QED BY <1>2, <1>3, <1>4 DEF Told

\* A message that leads nobody of those it names astray, and says of them whether
\* they are in the game, tells of everyone (Send_AIServer).
LEMMA SendStep ==
    ASSUME NetTypes, NEW u, NEW i \in Links, NEW msg \in AiMessages,
           SendAiServer(msg, i), aiUsers' = aiUsers,
           IF u \in msg.who
           THEN u \notin Astray(msg, i) /\ (msg.op = "USER_LOG_OUT" <=> u \notin users')
           ELSE Told(u) /\ (u \in users <=> u \in users')
    PROVE  Told(u)'
<1>1. ASSUME u \notin msg.who PROVE Told(u)'
  <2>1. Told(u) /\ (u \in users <=> u \in users')
    BY <1>1
  <2>2. CASE link[i] # "up"
    BY <2>1, <2>2, QuietStep DEF SendAiServer
  <2>3. CASE link[i] = "up"
    <3>1. toAi' = [toAi EXCEPT ![i] = Append(toAi[i], msg)] /\ toAi[i] \in Seq(AiMessages)
      BY <2>3 DEF SendAiServer, NetTypes
    <3>2. \A j \in Links : toAi'[j] = IF j = i THEN Append(toAi[i], msg) ELSE toAi[j]
      BY <3>1 DEF NetTypes
    <3>3. \A j \in Links : Concerns(u, toAi'[j]) = Concerns(u, toAi[j])
      <4>1. Concerns(u, Append(toAi[i], msg)) = Concerns(u, toAi[i])
        <5>1. toAi[i] \in Seq(AiMessages)
          BY <3>1
        <5>2. Concerns(u, Append(toAi[i], msg)) =
                Concerns(u, toAi[i]) \cup (IF u \in msg.who THEN {Len(toAi[i]) + 1} ELSE {})
          BY <5>1, AppendConcerns, Zenon
        <5> QED BY <5>2, <1>1
      <4> QED BY <3>2, <4>1
    <3>4. LastWord(u, toAi'[i], users')
      <4>1. LastWord(u, toAi[i], users)
        BY <2>1 DEF Told
      <4> QED BY <4>1, <2>1, <1>1, <3>1, <3>2, AppendLastWord
    <3>5. ASSUME NEW j \in Links, j # i PROVE LastWord(u, toAi'[j], users')
      BY <2>1, <3>2, <3>5 DEF Told, LastWord
    <3>6. OneLink(u)' /\ (Silent(u)' => Silent(u))
      BY <2>1, <3>3 DEF Told, OneLink, Silent
    <3> QED BY <2>1, <3>4, <3>5, <3>6 DEF Told
  <2> QED BY <2>2, <2>3
<1>2. ASSUME u \in msg.who PROVE Told(u)'
  <2>1. u \notin Astray(msg, i) /\ (msg.op = "USER_LOG_OUT" <=> u \notin users')
    BY <1>2
  <2>2. link[i] = "up" /\ u \notin Overtakes(msg.who, i)
    BY <2>1, <1>2 DEF Astray
  <2>3. toAi' = [toAi EXCEPT ![i] = Append(toAi[i], msg)] /\ toAi[i] \in Seq(AiMessages)
    BY <2>2 DEF SendAiServer, NetTypes
  <2>4. \A j \in Links : toAi'[j] = IF j = i THEN Append(toAi[i], msg) ELSE toAi[j]
    BY <2>3 DEF NetTypes
  <2>5. \A j \in Links \ {i} : Concerns(u, toAi'[j]) = {}
    BY <2>2, <2>4, <1>2 DEF Overtakes, Concerns
  <2>6. LastWord(u, toAi'[i], users')
    BY <2>1, <1>2, <2>3, <2>4, AppendLastWord
  <2>7. Len(toAi[i]) + 1 \in Concerns(u, toAi'[i])
    BY <1>2, <2>3, <2>4, AppendConcerns
  <2>8. OneLink(u)' /\ ~Silent(u)'
    BY <2>5, <2>7 DEF OneLink, Silent
  <2>9. ASSUME NEW j \in Links PROVE LastWord(u, toAi'[j], users')
    BY <2>5, <2>6 DEF LastWord
  <2> QED BY <2>8, <2>9 DEF Told
<1> QED BY <1>1, <1>2

\* The AI server does what the message it takes says (RecvUserInfo,
\* RecvUserLogOut).
LEMMA ReceiveStep ==
    ASSUME NetTypes, NEW u, Told(u), NEW i \in Links, toAi[i] # <<>>,
           toAi' = [toAi EXCEPT ![i] = Tail(@)], users' = users,
           u \in aiUsers' <=> IF u \in Head(toAi[i]).who
                              THEN Head(toAi[i]).op # "USER_LOG_OUT"
                              ELSE u \in aiUsers
    PROVE  Told(u)'
<1>1. toAi[i] \in Seq(AiMessages) /\ LastWord(u, toAi[i], users)
  BY DEF NetTypes, Told
<1>2. \A j \in Links : toAi'[j] = IF j = i THEN Tail(toAi[i]) ELSE toAi[j]
  BY DEF NetTypes
<1>3. /\ LastWord(u, toAi'[i], users)
      /\ Concerns(u, toAi'[i]) # {} => Concerns(u, toAi[i]) # {}
      /\ Concerns(u, toAi'[i]) = {} =>
           IF u \in Head(toAi[i]).who
           THEN Head(toAi[i]).op = "USER_LOG_OUT" <=> u \notin users
           ELSE Concerns(u, toAi[i]) = {}
  BY <1>1, <1>2, TailLastWord
<1>4. ASSUME NEW j \in Links PROVE LastWord(u, toAi'[j], users')
  BY <1>2, <1>3 DEF Told
<1>5. OneLink(u)'
  BY <1>2, <1>3 DEF Told, OneLink
<1>6. ASSUME Silent(u)', u \in aiUsers' PROVE u \in users'
  <2>1. Concerns(u, toAi'[i]) = {}
    BY <1>6 DEF Silent
  <2>2. CASE u \in Head(toAi[i]).who
    BY <1>3, <1>6, <2>1, <2>2
  <2>3. CASE u \notin Head(toAi[i]).who
    <3>1. Silent(u)
      BY <1>2, <1>3, <1>6, <2>1, <2>3 DEF Silent
    <3> QED BY <1>6, <2>3, <3>1 DEF Told
  <2> QED BY <2>2, <2>3
<1> QED BY <1>4, <1>5, <1>6 DEF Told

-----------------------------------------------------------------------------
\* A message sent about users keeps the links sound.
LEMMA SentSound ==
    ASSUME NetTypes, LinksSound, NEW i \in Links, NEW msg \in AiMessages,
           msg.op \notin {"CONNECT", "RECONNECT"}, SendAiServer(msg, i), link' = link
    PROVE  LinksSound'
<1>1. CASE link[i] # "up"
  BY <1>1 DEF LinksSound, SendAiServer
<1>2. CASE link[i] = "up"
  <2>1. toAi' = [toAi EXCEPT ![i] = Append(toAi[i], msg)] /\ toAi[i] \in Seq(AiMessages)
    BY <1>2 DEF SendAiServer, NetTypes
  <2>2. \A j \in Links : toAi'[j] = IF j = i THEN Append(toAi[i], msg) ELSE toAi[j]
    BY <2>1 DEF NetTypes
  <2>3. ConcernsNobody(Append(toAi[i], msg))
    <3>1. ConcernsNobody(toAi[i])
      BY DEF LinksSound
    <3> QED BY <2>1, <3>1 DEF ConcernsNobody
  <2> QED BY <1>2, <2>2, <2>3 DEF LinksSound
<1> QED BY <1>1, <1>2

\* A message taken keeps the links sound.
LEMMA TakenSound ==
    ASSUME NetTypes, LinksSound, NEW i \in Links, toAi[i] # <<>>,
           toAi' = [toAi EXCEPT ![i] = Tail(@)], link' = link
    PROVE  LinksSound'
<1>1. \A j \in Links : toAi'[j] = IF j = i THEN Tail(toAi[i]) ELSE toAi[j]
  BY DEF NetTypes
<1>2. ConcernsNobody(Tail(toAi[i]))
  <2>1. ConcernsNobody(toAi[i]) /\ toAi[i] \in Seq(AiMessages)
    BY DEF LinksSound, NetTypes
  <2> QED BY <2>1 DEF ConcernsNobody
<1> QED BY <1>1, <1>2 DEF LinksSound

\* No message, and a request to connect, concern nobody.
LEMMA ConcernsNobodyFacts ==
    /\ ConcernsNobody(<<>>)
    /\ \A flag : ConcernsNobody(<<Connect(flag)>>)
    /\ \A u : Concerns(u, <<>>) = {}
    /\ \A u, flag : Concerns(u, <<Connect(flag)>>) = {}
<1>1. \A flag : Connect(flag).who = {}
  BY DEF Connect, Msg
<1> QED BY <1>1 DEF ConcernsNobody, Concerns

\* The inductive invariant.
Faithful == LinksSound /\ ToldInv

\* It holds at the start.
LEMMA InitFaithful == ASSUME Init PROVE Faithful
<1>1. LinksSound
  BY ConcernsNobodyFacts DEF Init, LinksSound, AllConnected
<1>2. ToldInv
  BY ConcernsNobodyFacts DEF Init, ToldInv, AllConnected, Told, OneLink, LastWord
<1> QED BY <1>1, <1>2 DEF Faithful

\* Users who enter and leave keep it: one in the buffer who leaves is astray, and
\* so is one whose log-out is not sent.
LEMMA UserFaithful ==
    ASSUME Types, Faithful, NEW v \in Users, UserEnters(v) \/ UserLeaves(v)
    PROVE  Faithful'
<1> USE DEF Types, Faithful
<1>1. /\ UNCHANGED <<link, batch, reading, aiUsers>>
      /\ \A u \in Users \ {v} : u \in users <=> u \in users'
  BY DEF UserEnters, UserLeaves, sendVars, aiVars
<1>2. CASE \E i \in Links, op \in {"USER_INFO", "USER_LOG_OUT"} :
              /\ SendAiServer(Msg(op, {v}), i)
              /\ Astray(Msg(op, {v}), i) \subseteq astray'
              /\ \A u \in Users \ {v} : u \in astray => u \in astray'
              /\ op = "USER_LOG_OUT" <=> v \notin users'
              /\ v \in batch /\ v \notin users' => v \in astray'
  <2>1. PICK i \in Links, op \in {"USER_INFO", "USER_LOG_OUT"} :
              /\ SendAiServer(Msg(op, {v}), i)
              /\ Astray(Msg(op, {v}), i) \subseteq astray'
              /\ \A u \in Users \ {v} : u \in astray => u \in astray'
              /\ op = "USER_LOG_OUT" <=> v \notin users'
              /\ v \in batch /\ v \notin users' => v \in astray'
    BY <1>2
  <2> DEFINE msg == Msg(op, {v})
  <2>2. msg \in AiMessages /\ msg.op = op /\ msg.who = {v}
    BY BatchMessage DEF Msg
  <2>3. LinksSound'
    BY <1>1, <2>1, <2>2, SentSound
  <2>4. ASSUME NEW u \in Users, u \notin astray', u \notin batch' PROVE Told(u)'
    <3>1. CASE u = v
      BY <1>1, <2>1, <2>2, <2>4, <3>1, SendStep
    <3>2. CASE u # v
      <4>1. Told(u)
        BY <1>1, <2>1, <2>4, <3>2 DEF ToldInv
      <4> QED BY <1>1, <2>1, <2>2, <3>2, <4>1, SendStep
    <3> QED BY <3>1, <3>2
  <2>5. batch' \ astray' \subseteq users'
    BY <1>1, <2>1 DEF ToldInv, SendTypes
  <2> QED BY <1>1, <2>3, <2>4, <2>5 DEF ToldInv
<1>3. CASE LogOutReturns(v)
  <2>1. toAi' = toAi /\ astray' = astray \cup {v}
    BY <1>3 DEF LogOutReturns
  <2>2. LinksSound'
    BY <1>1, <2>1 DEF LinksSound
  <2>3. ASSUME NEW u \in Users, u \notin astray', u \notin batch' PROVE Told(u)'
    <3>1. Told(u) /\ u # v
      BY <1>1, <2>1, <2>3 DEF ToldInv
    <3> QED BY <1>1, <2>1, <3>1, QuietStep
  <2>4. batch' \ astray' \subseteq users'
    BY <1>1, <2>1 DEF ToldInv, SendTypes
  <2> QED BY <1>1, <2>2, <2>3, <2>4 DEF ToldInv
<1>4. CASE UserEnters(v)
  <2>1. PICK i \in Links :
           /\ SendAiServer(Msg("USER_INFO", {v}), i)
           /\ astray' = (astray \ {v}) \cup Astray(Msg("USER_INFO", {v}), i)
    BY <1>4 DEF UserEnters
  <2>2. v \in users'
    BY <1>4 DEF UserEnters
  <2> QED BY <2>1, <2>2, <1>2
<1>5. CASE UserLeaves(v) /\ LogOutSent(v)
  <2>1. PICK i \in Links :
           /\ SendAiServer(Msg("USER_LOG_OUT", {v}), i)
           /\ astray' = (astray \ {v}) \cup Astray(Msg("USER_LOG_OUT", {v}), i)
                           \cup (batch \cap {v})
    BY <1>5 DEF LogOutSent
  <2>2. v \notin users'
    BY <1>5 DEF UserLeaves
  <2> QED BY <2>1, <2>2, <1>2
<1> QED BY <1>3, <1>4, <1>5 DEF UserLeaves

\* The game-time thread keeps it: a link it connects held nothing.
LEMMA TickFaithful == ASSUME Types, Faithful, TickStep PROVE Faithful'
<1> USE DEF Types, Faithful
<1>1. UNCHANGED <<users, batch, reading, aiUsers, astray>>
  BY DEF TickStep, TickSocket, TickEnd, gameVars, sendVars, aiVars
<1>2. \A i \in Links :
         \/ toAi'[i] = toAi[i] /\ link'[i] = link[i]
         \/ toAi[i] = <<>> /\ link'[i] = "up" /\ \E flag : toAi'[i] = <<Connect(flag)>>
  <2>1. CASE TickSocket /\ link[tick] = "down" /\ aiUp
    <3>1. tick \in Links /\ toAi[tick] = <<>>
      BY <2>1 DEF TickSocket, LinksSound
    <3>2. /\ link' = [link EXCEPT ![tick] = "up"]
          /\ toAi' = [toAi EXCEPT ![tick] = <<Connect(TRUE)>>]
      BY <2>1 DEF TickSocket
    <3> QED BY <3>1, <3>2 DEF NetTypes
  <2>2. CASE TickSocket /\ ~(link[tick] = "down" /\ aiUp)
    BY <2>2 DEF TickSocket
  <2>3. CASE TickEnd
    BY <2>3 DEF TickEnd, netVars
  <2> QED BY <2>1, <2>2, <2>3 DEF TickStep
<1>3. LinksSound'
  BY <1>2, ConcernsNobodyFacts DEF LinksSound
<1>4. ASSUME NEW u \in Users, Told(u) PROVE Told(u)'
  BY <1>1, <1>2, <1>4, ConcernsNobodyFacts, QuietStep
<1> QED BY <1>1, <1>3, <1>4 DEF ToldInv

\* What the game server receives keeps it: the buffer is empty whenever
\* SendAllUserInfo begins.
LEMMA LoginFaithful ==
    ASSUME Faithful, NEW i \in Links,
           \/ LoginProcess(i) \/ ReLoginProcess(i)
           \/ RecvNpcInfoAll(i) \/ RecvServerInfo(i)
    PROVE  Faithful'
<1>1. UNCHANGED <<users, aiUsers, astray, toAi, link>> /\ reading = Idle
  BY DEF LoginProcess, ReLoginProcess, RecvNpcInfoAll, RecvServerInfo, Receives, aiVars
<1>2. batch = {}
  BY <1>1 DEF Faithful, ToldInv
<1>3. batch' = {}
  BY <1>2
     DEF LoginProcess, ReLoginProcess, RecvNpcInfoAll, RecvServerInfo, StartSending,
         sendVars
<1>4. LinksSound'
  BY <1>1 DEF Faithful, LinksSound
<1>5. ASSUME NEW u, Told(u) PROVE Told(u)'
  BY <1>1, <1>5, QuietStep
<1> QED BY <1>1, <1>2, <1>3, <1>4, <1>5 DEF Faithful, ToldInv

\* The end of a link that is noticed, a restart and a minute keep it.
LEMMA CloseFaithful ==
    ASSUME Types, Faithful, (\E i \in Links : CloseProcess(i)) \/ AiRestart \/ Minute
    PROVE  Faithful'
<1>1. UNCHANGED <<users, batch, reading, aiUsers, astray, toAi>>
  BY DEF CloseProcess, AiRestart, Minute, gameVars, sendVars, aiVars, netVars
<1>2. \A i \in Links : link'[i] = "up" => link[i] = "up"
  BY DEF CloseProcess, AiRestart, Minute, netVars, Types, NetTypes
<1>3. LinksSound'
  <2>1. \A i \in Links : link[i] = "broken" => link[i] # "up"
    OBVIOUS
  <2>2. \A i \in Links : link'[i] # "up" => link[i] # "up"
    BY DEF CloseProcess, AiRestart, Minute, netVars, Types, NetTypes
  <2> QED BY <1>1, <2>2 DEF Faithful, LinksSound
<1>4. ASSUME NEW u, Told(u) PROVE Told(u)'
  BY <1>1, <1>4, QuietStep
<1> QED BY <1>1, <1>3, <1>4 DEF Faithful, ToldInv

\* SendAllUserInfo keeps it: those it takes are in the game or astray, and those of
\* a buffer that is not sent are astray.
LEMMA BatchFaithful ==
    ASSUME Types, Faithful, TakeUser \/ SendBuffer \/ EndSending
    PROVE  Faithful'
<1> USE DEF Types, Faithful
<1>1. UNCHANGED <<users, aiUsers, link>>
  BY DEF TakeUser, SendBuffer, EndSending, gameVars, aiVars, netVars
<1>2. CASE TakeUser
  <2>1. PICK who \in SUBSET {reading} :
           /\ batch' = batch \cup who
           /\ astray' = (astray \ who) \cup (who \ (users \cap {reading}))
                           \cup ((users \cap {reading}) \ who)
    BY <1>2 DEF TakeUser
  <2>2. toAi' = toAi /\ reading' # Idle
    BY <1>2 DEF TakeUser, netVars, Users, Idle
  <2>3. LinksSound'
    BY <1>1, <2>2 DEF LinksSound
  <2>4. ASSUME NEW u \in Users, u \notin astray', u \notin batch' PROVE Told(u)'
    <3>1. u \notin astray /\ u \notin batch
      BY <2>1, <2>4
    <3>2. Told(u)
      BY <2>4, <3>1 DEF ToldInv
    <3> QED BY <1>1, <2>2, <3>2, QuietStep
  <2>5. batch' \ astray' \subseteq users'
    BY <1>1, <2>1 DEF ToldInv
  <2> QED BY <2>2, <2>3, <2>4, <2>5 DEF ToldInv
<1>3. CASE SendBuffer
  <2> DEFINE msg == Msg("USER_INFO_ALL", batch)
  <2>1. PICK i \in Links : SendAiServer(msg, i) /\ astray' = astray \cup Astray(msg, i)
    BY <1>3 DEF SendBuffer
  <2>2. msg \in AiMessages /\ msg.op = "USER_INFO_ALL" /\ msg.who = batch
    BY BatchMessage DEF Msg, SendTypes
  <2>3. batch' = {}
    BY <1>3 DEF SendBuffer
  <2>4. LinksSound'
    BY <1>1, <2>1, <2>2, SentSound
  <2>5. ASSUME NEW u \in Users, u \notin astray' PROVE Told(u)'
    <3>1. CASE u \in batch
      <4>1. u \in users' /\ u \notin Astray(msg, i)
        BY <1>1, <2>1, <2>5, <3>1 DEF ToldInv
      <4> QED BY <1>1, <2>1, <2>2, <3>1, <4>1, SendStep
    <3>2. CASE u \notin batch
      <4>1. Told(u)
        BY <2>1, <2>5, <3>2 DEF ToldInv
      <4> QED BY <1>1, <2>1, <2>2, <3>2, <4>1, SendStep
    <3> QED BY <3>1, <3>2
  <2> QED BY <2>3, <2>4, <2>5 DEF ToldInv
<1>4. CASE EndSending
  <2>1. toAi' = toAi /\ batch' = {} /\ astray' = astray \cup batch
    BY <1>4 DEF EndSending, netVars
  <2>2. LinksSound'
    BY <1>1, <2>1 DEF LinksSound
  <2>3. ASSUME NEW u \in Users, u \notin astray' PROVE Told(u)'
    <3>1. Told(u)
      BY <2>1, <2>3 DEF ToldInv
    <3> QED BY <1>1, <2>1, <3>1, QuietStep
  <2> QED BY <2>1, <2>2, <2>3 DEF ToldInv
<1> QED BY <1>2, <1>3, <1>4

\* What the AI server receives keeps it.
LEMMA AiFaithful == ASSUME Types, Faithful, AiStep PROVE Faithful'
<1> USE DEF Types, Faithful
<1>1. PICK i \in Links : RecvServerConnect(i) \/ RecvServerReconnect(i) \/ RecvUsers(i)
  BY DEF AiStep
<1>2. UNCHANGED <<users, batch, reading, astray, link>>
  BY <1>1 DEF RecvServerConnect, RecvServerReconnect, RecvUsers, gameVars, sendVars
<1>3. toAi[i] # <<>> /\ toAi' = [toAi EXCEPT ![i] = Tail(@)]
  BY <1>1 DEF RecvServerConnect, RecvServerReconnect, RecvUsers, AiReceives
<1>4. LinksSound'
  BY <1>2, <1>3, TakenSound
<1>5. ASSUME NEW u
      PROVE  u \in aiUsers' <=> IF u \in Head(toAi[i]).who
                                THEN Head(toAi[i]).op # "USER_LOG_OUT"
                                ELSE u \in aiUsers
  <2>1. CASE RecvServerConnect(i) \/ RecvServerReconnect(i)
    <3>1. Head(toAi[i]).op \in {"CONNECT", "RECONNECT"} /\ aiUsers' = aiUsers
      BY <2>1 DEF RecvServerConnect, RecvServerReconnect, AiReceives
    <3>2. ConcernsNobody(toAi[i]) /\ toAi[i] \in Seq(AiMessages)
      BY DEF LinksSound, NetTypes
    <3>3. Head(toAi[i]).who = {}
      BY <1>3, <3>1, <3>2 DEF ConcernsNobody
    <3> QED BY <3>1, <3>3
  <2>2. CASE RecvUsers(i)
    BY <2>2 DEF RecvUsers, AiReceives
  <2> QED BY <1>1, <2>1, <2>2
<1>6. ASSUME NEW u, Told(u) PROVE Told(u)'
  BY <1>2, <1>3, <1>5, <1>6, ReceiveStep
<1> QED BY <1>2, <1>4, <1>6 DEF ToldInv

\* When the AI server forgets its users or ends, or the game server starts again,
\* it holds because nothing is under way of anyone.
LEMMA SilenceFaithful ==
    ASSUME Types, Faithful, CheckAliveTest \/ AiCrash \/ GameRestart
    PROVE  Faithful'
<1> USE DEF Types, Faithful
<1>1. CASE CheckAliveTest
  <2>1. UNCHANGED <<users, batch, reading, astray, link, toAi>> /\ aiUsers' = {}
    BY <1>1 DEF CheckAliveTest, gameVars, sendVars, netVars
  <2>2. \A i \in Links : toAi'[i] = <<>>
    BY <1>1, <2>1 DEF CheckAliveTest, LinksSound
  <2>3. LinksSound'
    BY <2>1 DEF LinksSound
  <2>4. ASSUME NEW u PROVE Told(u)'
    BY <2>1, <2>2, ConcernsNobodyFacts, SilentStep DEF Silent
  <2> QED BY <2>1, <2>3, <2>4 DEF ToldInv
<1>2. CASE AiCrash
  <2>1. /\ UNCHANGED <<users, batch, reading>> /\ aiUsers' = {} /\ astray' = batch \ users
        /\ \A i \in Links : toAi'[i] = <<>>
    BY <1>2 DEF AiCrash, None, gameVars, sendVars
  <2>2. LinksSound'
    BY <2>1, ConcernsNobodyFacts DEF LinksSound
  <2>3. ASSUME NEW u PROVE Told(u)'
    BY <2>1, ConcernsNobodyFacts, SilentStep DEF Silent
  <2> QED BY <2>1, <2>2, <2>3 DEF ToldInv
<1>3. CASE GameRestart
  <2>1. /\ batch' = {} /\ aiUsers' = aiUsers /\ astray' = aiUsers
        /\ \A i \in Links : link'[i] = "up" /\ toAi'[i] = <<Connect(FALSE)>>
    BY <1>3 DEF GameRestart, AllConnected, aiVars
  <2>2. LinksSound'
    BY <2>1, ConcernsNobodyFacts DEF LinksSound
  <2>3. ASSUME NEW u \in Users \ astray' PROVE Told(u)'
    BY <2>1, ConcernsNobodyFacts, SilentStep DEF Silent
  <2> QED BY <2>1, <2>2, <2>3 DEF ToldInv
<1> QED BY <1>1, <1>2, <1>3

\* Links that break lose messages only of users who are astray from then on.
LEMMA BreakFaithful ==
    ASSUME Types, Faithful, NEW broken \in SUBSET Links, LinksBreak(broken)
    PROVE  Faithful'
<1> USE DEF Types, Faithful
<1>1. /\ UNCHANGED <<users, batch, reading, aiUsers>> /\ astray \subseteq astray'
      /\ \A i \in Links : /\ link'[i] = IF i \in broken THEN "broken" ELSE link[i]
                          /\ toAi'[i] = IF i \in broken THEN <<>> ELSE toAi[i]
  BY DEF LinksBreak, gameVars, sendVars, aiVars
<1>2. LinksSound'
  BY <1>1, ConcernsNobodyFacts DEF LinksSound
<1>3. ASSUME NEW u, u \notin astray', NEW i \in broken PROVE Concerns(u, toAi[i]) = {}
  BY <1>3 DEF LinksBreak, Concerns
<1>4. ASSUME NEW u, u \notin astray', Told(u) PROVE Told(u)'
  BY <1>1, <1>3, <1>4, ConcernsNobodyFacts, QuietStep
<1> QED BY <1>1, <1>2, <1>4 DEF ToldInv

\* A step that changes nothing keeps it.
LEMMA StutterFaithful == ASSUME Faithful, UNCHANGED vars PROVE Faithful'
<1>1. UNCHANGED <<users, aiUsers, astray, toAi, link, reading, batch>>
  BY DEF vars, gameVars, sendVars, aiVars, netVars
<1>2. ASSUME NEW u, Told(u) PROVE Told(u)'
  BY <1>1, <1>2, QuietStep
<1> QED BY <1>1, <1>2 DEF Faithful, ToldInv, LinksSound

\* It holds always.
LEMMA FaithfulHolds == Spec => []Faithful
<1>1. Types /\ Faithful /\ [Next]_vars => Faithful'
  BY UserFaithful, TickFaithful, LoginFaithful, CloseFaithful, BatchFaithful, AiFaithful,
     SilenceFaithful, BreakFaithful, StutterFaithful DEF Next, WorkerStep
<1> QED BY <1>1, InitFaithful, TypesHold, PTL DEF Spec

\* The AI server keeps nobody who is not in the game, unless his log-out is under
\* way, or the last that was sent of him was lost or overtaken, or not sent, or
\* SendAllUserInfo took his connection while it was not in the game (Send_AIServer,
\* CUser::LogOut, RecvUserLogOut).
THEOREM GhostsGo == Spec => []NoGhosts
<1>1. Types /\ Faithful => NoGhosts
  <2> SUFFICES ASSUME Types, Faithful, NEW u \in aiUsers \ (users \cup astray)
               PROVE  \E i \in Links : \E n \in DOMAIN toAi[i] :
                         toAi[i][n].op = "USER_LOG_OUT" /\ u \in toAi[i][n].who
    BY DEF NoGhosts
  <2>1. u \in Users /\ u \notin batch
    BY DEF Types, AiTypes, Faithful, ToldInv
  <2>2. Told(u)
    BY <2>1 DEF Faithful, ToldInv
  <2>3. PICK i \in Links : Concerns(u, toAi[i]) # {}
    BY <2>2 DEF Told, Silent
  <2>4. PICK n \in Concerns(u, toAi[i]) : toAi[i][n].op = "USER_LOG_OUT" <=> u \notin users
    BY <2>2, <2>3 DEF Told, LastWord
  <2> QED BY <2>4 DEF Concerns
<1> QED BY <1>1, TypesHold, FaithfulHolds, PTL
=============================================================================
