---------------------------- MODULE AccountSession ----------------------------
(***************************************************************************)
(* Accounts and characters between the game server (Ebenezer) and the      *)
(* database agent (Aujard).  The agent loads a character into the block of *)
(* shared memory of the session's slot, the game server plays in it, and   *)
(* the agent saves it and empties it.  Requests and answers travel over    *)
(* two bounded shared-memory queues and name the slot only.                *)
(*                                                                         *)
(* Packet handlers of the game server hold one mutex and are one step      *)
(* each; the thread that reads answers does not hold it.  Close() only     *)
(* asks for what Disconnect does, which a client may cause at any time.    *)
(* An account has one character here, so one name stands for both.         *)
(***************************************************************************)
EXTENDS Naturals, Sequences, SequencesExt

CONSTANTS Slots,          \* session slots: socket ids, shared-memory blocks
          Accounts,       \* accounts, each with its character
          None,           \* the empty string: no account, no character
          QueueCap,       \* MAX_NUM_MSG of a SharedMemoryQueue
          MaxEvents,      \* bound: what clients and faults begin in a run: connections, saves
                          \* and kick-outs asked for, crashes and failures
          MaxProgress     \* bound: what can be earned with a character

ASSUME NoneAssumption == None \notin Accounts \cup Slots
ASSUME BoundAssumption == {QueueCap, MaxEvents, MaxProgress} \subseteq Nat

VARIABLES
    up,          \* the game server runs
    stage,       \* of a slot's client: free, open, login, select, game
    account,     \* m_strAccountID of a slot
    replying,    \* the selection that is half answered: slot, account, or Nobody
    toAgent,     \* m_LoggerSendQueue: requests
    toGame,      \* m_LoggerRecvQueue: answers
    data,        \* shared memory of a slot: whose character and account, how far
    hand,        \* request the agent's read thread serves, or NoMessage
    job,         \* HandleUserLogout of the read thread and of the heartbeat's
    scan,        \* slots AllSaveRoutine has still to visit
    heard,       \* _heartbeatReceivedTime is not 0
    saved,       \* database: USERDATA of a character
    current,     \* database: accounts with a row in CURRENTUSER
    events,      \* how much of that so far
    early,       \* slots whose session gets answers meant for another
    harmed       \* accounts a fault or an early leave has touched

gameVars  == <<up, stage, account, replying>>
queues    == <<toAgent, toGame>>
agentVars == <<hand, job, scan, heard>>
database  == <<saved, current>>
history   == <<early, harmed>>
vars == <<gameVars, queues, data, agentVars, database, events, history>>

Names == Accounts \cup {None}
Nobody == [slot |-> None]
NoData == [id |-> None, account |-> None, value |-> 0]
Requests == [kind : {"LOGIN", "SEL_CHAR", "LOGOUT", "DATASAVE", "KICKOUT"},
             slot : Slots, id : Accounts]
            \cup [kind : {"LOGIN_INFO"}, slot : Slots, id : Names]
Answers == [kind : {"LOGIN", "SEL_CHAR", "LOGOUT", "LOGIN_INFO"},
            slot : Slots, ok : BOOLEAN]
NoMessage == [kind |-> "none"]
Workers == {"reader", "keeper"}
Idle == [step |-> "none"]
Jobs == [step : {"test", "save", "saveOnly", "reset"}, slot : Slots]

Request(k, s, a) == [kind |-> k, slot |-> s, id |-> a]
Answer(k, s, o)  == [kind |-> k, slot |-> s, ok |-> o]

Init ==
    /\ up = TRUE
    /\ stage = [s \in Slots |-> "free"]
    /\ account = [s \in Slots |-> None]
    /\ replying = Nobody
    /\ toAgent = <<>> /\ toGame = <<>>
    /\ data = [s \in Slots |-> NoData]
    /\ hand = NoMessage
    /\ job = [w \in Workers |-> Idle]
    /\ scan = {} /\ heard = TRUE
    /\ saved = [a \in Accounts |-> 0] /\ current = {}
    /\ events = 0
    /\ early = {} /\ harmed = {}

\* Faulty variant: one message too many.
Full_OffByOne(queue) == Len(queue) > QueueCap

Full(queue) == Len(queue) >= QueueCap

\* PutData, whose caller goes on when the queue is full.
Put(queue, m) == IF Full(queue) THEN queue ELSE Append(queue, m)

Active(s) == stage[s] # "free"
Loaded(s) == data[s].id # None

\* GetUserPtr by account: another session is logged in with it.
HeldElsewhere(a, s) == \E t \in Slots \ {s} : Active(t) /\ account[t] = a

\* GetUserPtr by character: another session has it loaded.
PlayedElsewhere(a, s) == \E t \in Slots \ {s} : Active(t) /\ data[t].id = a

\* The slot has a request of this kind out that is not answered yet.
Unanswered(s, kind) ==
    \/ kind = "SEL_CHAR" /\ replying.slot = s
    \/ hand # NoMessage /\ hand.kind = kind /\ hand.slot = s
    \/ \E i \in DOMAIN toAgent : toAgent[i].kind = kind /\ toAgent[i].slot = s
    \/ \E i \in DOMAIN toGame : toGame[i].kind = kind /\ toGame[i].slot = s

\* A session that gets the slot now gets another's answers.
Stale(s) == Unanswered(s, "LOGIN") \/ Unanswered(s, "SEL_CHAR")

\* Accounts that selections of the slot name, or whose character it holds.
Involved(s) ==
    {a \in Accounts :
        \/ account[s] = a \/ data[s].id = a
        \/ hand # NoMessage /\ hand.kind = "SEL_CHAR" /\ hand.slot = s /\ hand.id = a
        \/ \E i \in DOMAIN toAgent : /\ toAgent[i].kind = "SEL_CHAR"
                                     /\ toAgent[i].slot = s /\ toAgent[i].id = a}

\* A request of this kind that the agent has still to serve names the account.
Named(kind, a) ==
    \/ hand # NoMessage /\ hand.kind = kind /\ hand.id = a
    \/ \E i \in DOMAIN toAgent : toAgent[i].kind = kind /\ toAgent[i].id = a

\* The bound on connections, saves and kick-outs asked for, and faults.
AnEvent == events < MaxEvents /\ events' = events + 1

-----------------------------------------------------------------------------
(***************************************************************************)
(* The game server's packet handlers.                                      *)
(***************************************************************************)
Connect(s) ==
    /\ up /\ stage[s] = "free"
    /\ AnEvent
    /\ stage' = [stage EXCEPT ![s] = "open"]
    /\ early' = IF Stale(s) THEN early \cup {s} ELSE early \ {s}
    /\ harmed' = IF Stale(s) THEN harmed \cup Involved(s) ELSE harmed
    /\ UNCHANGED <<up, account, replying, queues, data, agentVars, database>>

\* UserDataSaveToAgent of a session that has a character and its account.
SaveRequest(queue, s) ==
    IF Loaded(s) /\ data[s].account # None THEN Put(queue, Request("DATASAVE", s, data[s].id))
                                            ELSE queue

\* LoginProcess: whoever holds the account is saved and closed, and the
\* newcomer is refused; so is one that finds the queue full.
LoginRefused(s, a) ==
    /\ stage[s] = "open" /\ account[s] = None
    /\ \E t \in Slots \ {s} : /\ Active(t) /\ account[t] = a
                              /\ toAgent' = SaveRequest(toAgent, t)
    /\ UNCHANGED <<gameVars, toGame, data, agentVars, database, events, history>>

\* Faulty variant: the account is noted whoever holds it.
Login_NoTest(s, a) ==
    /\ stage[s] = "open" /\ account[s] = None
    /\ ~Full(toAgent)
    /\ toAgent' = Append(toAgent, Request("LOGIN", s, a))
    /\ account' = [account EXCEPT ![s] = a]
    /\ stage' = [stage EXCEPT ![s] = "login"]
    /\ UNCHANGED <<up, replying, toGame, data, agentVars, database, events, history>>

Login(s, a) ==
    /\ stage[s] = "open" /\ account[s] = None
    /\ ~HeldElsewhere(a, s) /\ ~Full(toAgent)
    /\ toAgent' = Append(toAgent, Request("LOGIN", s, a))
    /\ account' = [account EXCEPT ![s] = a]
    /\ stage' = [stage EXCEPT ![s] = "login"]
    /\ harmed' = IF s \in early THEN harmed \cup {a} ELSE harmed
    /\ UNCHANGED <<up, replying, toGame, data, agentVars, database, events, early>>

\* Faulty variant: asks whoever plays the character.
SelChar_NoTest(s, a) ==
    /\ stage[s] = "open" /\ account[s] \in {a, None} /\ ~Full(toAgent)
    /\ account' = [account EXCEPT ![s] = a]
    /\ toAgent' = Append(toAgent, Request("SEL_CHAR", s, a))
    /\ stage' = [stage EXCEPT ![s] = "select"]
    /\ harmed' = IF s \in early THEN harmed \cup {a} ELSE harmed
    /\ UNCHANGED <<up, replying, toGame, data, agentVars, database, events, early>>

\* SelCharToAgent, of a client that has logged in, or that comes from another
\* server (or has lost its login to a stale answer) and has not.
SelChar(s, a) ==
    /\ stage[s] = "open" /\ account[s] \in {a, None}
    /\ account[s] = a \/ ~HeldElsewhere(a, s)
    /\ account' = [account EXCEPT ![s] = a]
    /\ IF PlayedElsewhere(a, s) \/ Full(toAgent)
       THEN UNCHANGED <<toAgent, stage>>
       ELSE /\ toAgent' = Append(toAgent, Request("SEL_CHAR", s, a))
            /\ stage' = [stage EXCEPT ![s] = "select"]
    /\ harmed' = IF s \in early THEN harmed \cup {a} ELSE harmed
    /\ UNCHANGED <<up, replying, toGame, data, agentVars, database, events, early>>

Play(s) ==
    /\ stage[s] = "game" /\ Loaded(s) /\ data[s].value < MaxProgress
    /\ data' = [data EXCEPT ![s].value = @ + 1]
    /\ UNCHANGED <<gameVars, queues, agentVars, database, events, history>>

SaveData(s) ==
    /\ stage[s] = "game" /\ Loaded(s)
    /\ AnEvent
    /\ toAgent' = SaveRequest(toAgent, s)
    /\ UNCHANGED <<gameVars, toGame, data, agentVars, database, history>>

\* KickOut, of a client that the version manager has told that his account is
\* in the game.
KickOut(s, a) ==
    /\ stage[s] = "open" /\ a \in current
    /\ AnEvent
    /\ IF \E t \in Slots : Active(t) /\ account[t] = a
       THEN \E t \in Slots : /\ Active(t) /\ account[t] = a
                             /\ toAgent' = SaveRequest(toAgent, t)
       ELSE toAgent' = Put(toAgent, Request("KICKOUT", s, a))
    /\ UNCHANGED <<gameVars, toGame, data, agentVars, database, history>>

\* LogOut asks the agent to save and empty the slot, unless another session
\* has logged in with the account of the slot's character; an empty account
\* is that of any session which has not logged in.
LogsOut(s) == Loaded(s) /\ ~HeldElsewhere(data[s].account, s)

\* Faulty variant: the session goes without a word to the agent.
Disconnect_NoLogOut(s) ==
    /\ Active(s)
    /\ stage' = [stage EXCEPT ![s] = "free"]
    /\ account' = [account EXCEPT ![s] = None]
    /\ UNCHANGED <<up, replying, queues, data, agentVars, database, events, history>>

\* CloseProcess: LogOut and Initialize.  A full queue loses the request.
Disconnect(s) ==
    /\ Active(s)
    /\ stage' = [stage EXCEPT ![s] = "free"]
    /\ account' = [account EXCEPT ![s] = None]
    /\ toAgent' = IF LogsOut(s) THEN Put(toAgent, Request("LOGOUT", s, data[s].id))
                                ELSE toAgent
    /\ harmed' = harmed \cup (IF LogsOut(s) /\ Full(toAgent) THEN {data[s].id} ELSE {})
                         \cup (IF replying.slot = s THEN Involved(s) ELSE {})
    /\ UNCHANGED <<up, replying, toGame, data, agentVars, database, events, early>>

-----------------------------------------------------------------------------
(***************************************************************************)
(* The thread that reads the agent's answers (EbenezerReadQueueThread).    *)
(* An answer for a slot without a session is dropped; one for a slot that  *)
(* has a new session is taken for the new session's.                       *)
(***************************************************************************)
AnswerFor(s, kind) ==
    /\ up /\ replying = Nobody /\ toGame # <<>>
    /\ Head(toGame).slot = s /\ Head(toGame).kind = kind
    /\ toGame' = Tail(toGame)

AnswerDropped(s) ==
    /\ ~Active(s)
    /\ \E kind \in {"LOGIN", "SEL_CHAR", "LOGOUT", "LOGIN_INFO"} : AnswerFor(s, kind)
    /\ UNCHANGED <<gameVars, toAgent, data, agentVars, database, events, history>>

\* A refused login clears the account.
LoginAnswered(s) ==
    /\ Active(s)
    /\ AnswerFor(s, "LOGIN")
    /\ account' = IF Head(toGame).ok THEN account ELSE [account EXCEPT ![s] = None]
    /\ stage' = [stage EXCEPT ![s] = IF @ = "login" THEN "open" ELSE @]
    /\ UNCHANGED <<up, replying, toAgent, data, agentVars, database, events, history>>

\* SelectCharacter: an empty slot (m_bZone is 0) fails whatever the answer.
SelectionFails(s) ==
    /\ Active(s)
    /\ AnswerFor(s, "SEL_CHAR")
    /\ ~(Head(toGame).ok /\ Loaded(s))
    /\ stage' = [stage EXCEPT ![s] = IF @ = "select" THEN "open" ELSE @]
    /\ UNCHANGED <<up, account, replying, toAgent, data, agentVars, database, events,
                   history>>

SelectionSucceeds(s) ==
    /\ Active(s)
    /\ AnswerFor(s, "SEL_CHAR")
    /\ Head(toGame).ok /\ Loaded(s)
    /\ replying' = [slot |-> s, id |-> account[s]]
    /\ UNCHANGED <<up, stage, account, toAgent, data, agentVars, database, events,
                   history>>

\* ... SetLogInInfoToDB, which has read the account before or after whatever
\* the session's own thread did meanwhile, and the answer to the client, which
\* starts the game.
SendLoginInfo(id) ==
    /\ replying # Nobody
    /\ id \in {replying.id, account[replying.slot]}
    /\ toAgent' = Put(toAgent, Request("LOGIN_INFO", replying.slot, id))
    /\ stage' = [stage EXCEPT ![replying.slot] = IF @ = "select" THEN "game" ELSE @]
    /\ replying' = Nobody
    /\ UNCHANGED <<up, account, toGame, data, agentVars, database, events, history>>

\* WIZ_LOGOUT and a failed DB_LOGIN_INFO call Close().
ClosingAnswer(s) ==
    /\ Active(s)
    /\ AnswerFor(s, "LOGOUT") \/ AnswerFor(s, "LOGIN_INFO")
    /\ UNCHANGED <<gameVars, toAgent, data, agentVars, database, events, history>>

-----------------------------------------------------------------------------
(***************************************************************************)
(* The agent's read thread: one request at a time.  A failure of the       *)
(* database is a fault.                                                    *)
(***************************************************************************)
AgentRead ==
    /\ hand = NoMessage /\ toAgent # <<>>
    /\ hand' = Head(toAgent)
    /\ toAgent' = Tail(toAgent)
    /\ UNCHANGED <<gameVars, toGame, data, job, scan, heard, database, events, history>>

Serves(kind) == hand # NoMessage /\ hand.kind = kind /\ job["reader"] = Idle

AgentLogin(ok) ==
    /\ Serves("LOGIN")
    /\ toGame' = Put(toGame, Answer("LOGIN", hand.slot, ok))
    /\ hand' = NoMessage
    /\ UNCHANGED <<gameVars, toAgent, data, job, scan, heard, database, events, history>>

LoadedAnywhere(a) == \E t \in Slots : data[t].id = a

\* SelectCharacter of one that is loaded already, in whichever slot: it is
\* logged out there, and the one who asked is not answered.
AgentEvict(t) ==
    /\ Serves("SEL_CHAR") /\ data[t].id = hand.id
    /\ job' = [job EXCEPT !["reader"] = [step |-> "test", slot |-> t]]
    /\ UNCHANGED <<gameVars, queues, data, hand, scan, heard, database, events, history>>

\* The block is written whatever it held.  A load while the heartbeat thread
\* empties the slot may be lost, and one under another account is a fault.
LoadInto(s, a, acc) ==
    /\ data' = [data EXCEPT ![s] = [id |-> a, account |-> acc, value |-> saved[a]]]
    /\ harmed' = IF acc # a \/ (job["keeper"] # Idle /\ job["keeper"].slot = s)
                 THEN harmed \cup {a} ELSE harmed

\* Faulty variant: loads without a look at the other slots.
AgentLoad_NoTest ==
    /\ Serves("SEL_CHAR")
    /\ LoadInto(hand.slot, hand.id, hand.id)
    /\ toGame' = Put(toGame, Answer("SEL_CHAR", hand.slot, TRUE))
    /\ hand' = NoMessage
    /\ UNCHANGED <<gameVars, toAgent, job, scan, heard, database, events, early>>

AgentLoad ==
    /\ Serves("SEL_CHAR") /\ ~LoadedAnywhere(hand.id)
    /\ LoadInto(hand.slot, hand.id, hand.id)
    /\ toGame' = Put(toGame, Answer("SEL_CHAR", hand.slot, TRUE))
    /\ hand' = NoMessage
    /\ UNCHANGED <<gameVars, toAgent, job, scan, heard, database, events, early>>

\* LoadUserData fails, or LoadWarehouseData after it has filled the slot, which
\* keeps whatever account it had.
AgentLoadFails ==
    /\ Serves("SEL_CHAR") /\ ~LoadedAnywhere(hand.id)
    /\ AnEvent
    /\ \/ UNCHANGED <<data, harmed>>
       \/ LoadInto(hand.slot, hand.id, data[hand.slot].account)
    /\ toGame' = Put(toGame, Answer("SEL_CHAR", hand.slot, FALSE))
    /\ hand' = NoMessage
    /\ UNCHANGED <<gameVars, toAgent, job, scan, heard, database, early>>

AgentLogout ==
    /\ Serves("LOGOUT")
    /\ job' = [job EXCEPT !["reader"] = [step |-> "test", slot |-> hand.slot]]
    /\ UNCHANGED <<gameVars, queues, data, hand, scan, heard, database, events, history>>

\* UpdateUser writes what the slot holds, whoever was named; the caller has
\* checked that it holds somebody.
Saved(s) == [saved EXCEPT ![data[s].id] = data[s].value]

AgentSave ==
    /\ Serves("DATASAVE")
    /\ saved' = IF Loaded(hand.slot) THEN Saved(hand.slot) ELSE saved
    /\ hand' = NoMessage
    /\ UNCHANGED <<gameVars, queues, data, job, scan, heard, current, events, history>>

AgentSaveFails ==
    /\ Serves("DATASAVE")
    /\ AnEvent
    /\ hand' = NoMessage
    /\ UNCHANGED <<gameVars, queues, data, job, scan, heard, database, history>>

\* SetLogInInfo inserts a row, and answers only when there is one already.
AgentLoginInfo ==
    /\ Serves("LOGIN_INFO")
    /\ current' = current \cup {hand.id}
    /\ toGame' = IF hand.id \in current THEN Put(toGame, Answer("LOGIN_INFO", hand.slot, FALSE))
                                        ELSE toGame
    /\ hand' = NoMessage
    /\ UNCHANGED <<gameVars, toAgent, data, job, scan, heard, saved, events, history>>

\* UserKickOut: AccountLogout, and no more.
AgentKickOut ==
    /\ Serves("KICKOUT")
    /\ current' = current \ {hand.id}
    /\ hand' = NoMessage
    /\ UNCHANGED <<gameVars, queues, data, job, scan, heard, saved, events, history>>

-----------------------------------------------------------------------------
(***************************************************************************)
(* HandleUserLogout, of either of the agent's threads and without a lock:  *)
(* AccountLogout, save, and empty the slot if both succeeded.  The read    *)
(* thread then answers WIZ_LOGOUT, whatever the outcome.                   *)
(***************************************************************************)
EndJob(w) ==
    /\ job' = [job EXCEPT ![w] = Idle]
    /\ IF w = "reader"
       THEN toGame' = Put(toGame, Answer("LOGOUT", job[w].slot, TRUE)) /\ hand' = NoMessage
       ELSE UNCHANGED <<toGame, hand>>

At(w, step) == job[w].step = step

Step(w, step) == /\ job' = [job EXCEPT ![w].step = step]
                 /\ UNCHANGED <<toGame, hand>>

LogoutOfNobody(w) ==
    /\ At(w, "test") \/ At(w, "save") \/ At(w, "saveOnly")
    /\ ~Loaded(job[w].slot)
    /\ EndJob(w)
    /\ UNCHANGED <<gameVars, toAgent, data, scan, heard, database, events, history>>

\* The heartbeat's thread does this to sessions of a game server that runs.
HarmedBy(w) == IF w = "keeper" /\ up THEN harmed \cup {data[job[w].slot].id} ELSE harmed

\* Faulty variant: the row stays.
LogoutAccount_KeepsRow(w) ==
    /\ At(w, "test") /\ Loaded(job[w].slot)
    /\ Step(w, IF data[job[w].slot].account \in current \ {None} THEN "save" ELSE "saveOnly")
    /\ harmed' = HarmedBy(w)
    /\ UNCHANGED <<gameVars, toAgent, data, scan, heard, database, events, early>>

\* AccountLogout succeeds when there is a row to delete.  When there is none
\* the character is saved, and the slot is not emptied; nor is it when the
\* account is empty, for which no warehouse can be saved.
LogoutAccount(w) ==
    /\ At(w, "test") /\ Loaded(job[w].slot)
    /\ current' = current \ {data[job[w].slot].account}
    /\ Step(w, IF data[job[w].slot].account \in current \ {None} THEN "save" ELSE "saveOnly")
    /\ harmed' = HarmedBy(w)
    /\ UNCHANGED <<gameVars, toAgent, data, scan, heard, saved, events, early>>

LogoutAccountFails(w) ==
    /\ At(w, "test") /\ Loaded(job[w].slot)
    /\ AnEvent
    /\ Step(w, "saveOnly")
    /\ harmed' = HarmedBy(w) \cup {data[job[w].slot].id}
    /\ UNCHANGED <<gameVars, toAgent, data, scan, heard, database, early>>

LogoutSave(w) ==
    /\ At(w, "save") \/ At(w, "saveOnly")
    /\ Loaded(job[w].slot)
    /\ saved' = Saved(job[w].slot)
    /\ IF At(w, "save") THEN Step(w, "reset") ELSE EndJob(w)
    /\ UNCHANGED <<gameVars, toAgent, data, scan, heard, current, events, history>>

\* Faulty variant: the slot is emptied although the save failed.
LogoutSaveFails_Resets(w) ==
    /\ At(w, "save") \/ At(w, "saveOnly")
    /\ Loaded(job[w].slot)
    /\ AnEvent
    /\ Step(w, "reset")
    /\ UNCHANGED <<gameVars, toAgent, data, scan, heard, database, history>>

LogoutSaveFails(w) ==
    /\ At(w, "save") \/ At(w, "saveOnly")
    /\ Loaded(job[w].slot)
    /\ AnEvent
    /\ EndJob(w)
    /\ harmed' = harmed \cup {data[job[w].slot].id}
    /\ UNCHANGED <<gameVars, toAgent, data, scan, heard, database, early>>

LogoutReset(w) ==
    /\ At(w, "reset")
    /\ data' = [data EXCEPT ![job[w].slot] = NoData]
    /\ EndJob(w)
    /\ UNCHANGED <<gameVars, toAgent, scan, heard, database, events, history>>

-----------------------------------------------------------------------------
(***************************************************************************)
(* CheckHeartbeat and AllSaveRoutine: a game server that has not been      *)
(* heard of is taken for dead, and all its users are logged out.  One that *)
(* runs but whose heartbeats are late is a fault.                          *)
(***************************************************************************)
KeeperIdle == scan = {} /\ job["keeper"] = Idle

\* Faulty variant: the last slot is never visited.
KeeperStart_OffByOne ==
    /\ KeeperIdle /\ heard /\ ~up
    /\ scan' = Slots \ {CHOOSE s \in Slots : TRUE}
    /\ UNCHANGED <<gameVars, queues, data, hand, job, heard, database, events, history>>

KeeperStart ==
    /\ KeeperIdle /\ heard /\ ~up
    /\ scan' = Slots
    /\ UNCHANGED <<gameVars, queues, data, hand, job, heard, database, events, history>>

HeartbeatLate ==
    /\ KeeperIdle /\ heard /\ up
    /\ AnEvent
    /\ scan' = Slots
    /\ UNCHANGED <<gameVars, queues, data, hand, job, heard, database, history>>

KeeperVisits(s) ==
    /\ job["keeper"] = Idle /\ s \in scan
    /\ scan' = scan \ {s}
    /\ job' = IF Loaded(s) THEN [job EXCEPT !["keeper"] = [step |-> "test", slot |-> s]]
                           ELSE job
    /\ UNCHANGED <<gameVars, queues, data, hand, heard, database, events, history>>

HeartbeatReceived ==
    /\ up /\ hand = NoMessage /\ ~heard
    /\ heard' = TRUE
    /\ UNCHANGED <<gameVars, queues, data, hand, job, scan, database, events, history>>

-----------------------------------------------------------------------------
(***************************************************************************)
(* Crashes.  Shared memory and queues outlive both processes; a game       *)
(* server that starts empties them.                                        *)
(***************************************************************************)
Crash ==
    /\ up /\ AnEvent
    /\ up' = FALSE
    /\ stage' = [s \in Slots |-> "free"]
    /\ account' = [s \in Slots |-> None]
    /\ replying' = Nobody
    /\ harmed' = harmed \cup {a \in Accounts : Named("LOGIN_INFO", a)}
    /\ UNCHANGED <<queues, data, agentVars, database, early>>

Restart ==
    /\ ~up
    /\ up' = TRUE
    /\ toAgent' = <<>> /\ toGame' = <<>>
    /\ data' = [s \in Slots |-> NoData]
    /\ harmed' = harmed \cup ({data[s].id : s \in Slots} \ {None})
    /\ UNCHANGED <<stage, account, replying, agentVars, database, events, early>>

\* The agent stops and is started again: it forgets what it was doing, and
\* when the last heartbeat was.
AgentCrash ==
    /\ AnEvent
    /\ hand' = NoMessage
    /\ job' = [w \in Workers |-> Idle]
    /\ scan' = {} /\ heard' = FALSE
    /\ harmed' = harmed \cup {a \in Accounts : \E t \in Slots :
                    /\ data[t].id = a
                    /\ \/ \E w \in Workers : job[w] # Idle /\ job[w].slot = t
                       \/ hand # NoMessage /\ hand.kind = "LOGOUT" /\ hand.slot = t}
    /\ UNCHANGED <<gameVars, queues, data, database, early>>

-----------------------------------------------------------------------------
ClientStep == \E s \in Slots : \/ Connect(s) \/ Play(s) \/ SaveData(s) \/ Disconnect(s)
                               \/ \E a \in Accounts : \/ Login(s, a) \/ LoginRefused(s, a)
                                                      \/ SelChar(s, a) \/ KickOut(s, a)

AnswerStep == \/ \E id \in Names : SendLoginInfo(id)
              \/ \E s \in Slots : \/ AnswerDropped(s) \/ LoginAnswered(s)
                                  \/ SelectionFails(s) \/ SelectionSucceeds(s)
                                  \/ ClosingAnswer(s)

LogoutStep(w) == LogoutOfNobody(w) \/ LogoutAccount(w) \/ LogoutSave(w) \/ LogoutReset(w)

ReaderStep == \/ AgentRead \/ AgentLoad \/ AgentLogout \/ AgentSave \/ AgentLoginInfo
              \/ AgentKickOut \/ LogoutStep("reader")
              \/ \E ok \in BOOLEAN : AgentLogin(ok)
              \/ \E t \in Slots : AgentEvict(t)

KeeperStep == \/ KeeperStart \/ LogoutStep("keeper")
              \/ \E s \in Slots : KeeperVisits(s)

Fault == \/ AgentLoadFails \/ AgentSaveFails \/ HeartbeatLate
         \/ \E w \in Workers : LogoutAccountFails(w) \/ LogoutSaveFails(w)
         \/ Crash \/ AgentCrash

Next == ClientStep \/ AnswerStep \/ ReaderStep \/ KeeperStep \/ Fault
        \/ HeartbeatReceived \/ Restart

Spec == Init /\ [][Next]_vars

\* The agent's two threads run.  Nothing is assumed of clients, of the game
\* server or of its restart.
FairSpec == Spec /\ WF_vars(ReaderStep) /\ WF_vars(KeeperStep)
-----------------------------------------------------------------------------
\* A queue of such messages that respects its capacity.
QueueOf(queue, messages) == queue \in Seq(messages) /\ Len(queue) <= QueueCap

TypeOK ==
    /\ up \in BOOLEAN
    /\ stage \in [Slots -> {"free", "open", "login", "select", "game"}]
    /\ account \in [Slots -> Names]
    /\ replying \in [slot : Slots, id : Names] \cup {Nobody}
    /\ QueueOf(toAgent, Requests) /\ QueueOf(toGame, Answers)
    /\ data \in [Slots -> [id : Names, account : Names, value : Nat]]
    /\ hand \in Requests \cup {NoMessage}
    /\ job \in [Workers -> Jobs \cup {Idle}]
    /\ scan \in SUBSET Slots /\ heard \in BOOLEAN
    /\ saved \in [Accounts -> Nat] /\ current \in SUBSET Names
    /\ early \in SUBSET Slots /\ harmed \in SUBSET Accounts

\* Two sessions are never logged in with one account.
OneSessionPerAccount ==
    \A s, t \in Slots : account[s] # None /\ account[s] = account[t] => s = t

\* A character is loaded in one slot at most: loads, evictions, late logouts
\* and the heartbeat's thread never leave two copies to be saved over one
\* another.
OneSlotPerCharacter ==
    \A s, t \in Slots : Loaded(s) /\ data[s].id = data[t].id => s = t

\* A player in the game plays the character of his account, if any, unless
\* the slot was left while a login or a selection was out (the answer is then
\* taken for his), or a fault has touched him.
SessionPlaysItsCharacter ==
    \A s \in Slots \ early :
        stage[s] = "game" /\ account[s] \notin harmed =>
            data[s].id = account[s] /\ Loaded(s)

\* An account that the database says is in the game has a session, or a
\* character that is still to be logged out.
LoginRecordHasOwner ==
    \A a \in (current \cap Accounts) \ harmed :
        \E s \in Slots : account[s] = a \/ data[s].id = a

\* The database never goes back to an older state of a character.
SavedNeverRegresses == [][\A a \in Accounts : saved'[a] >= saved[a]]_vars

\* How far a character is: in its slot, or else in the database.
Progress(a) == IF LoadedAnywhere(a)
               THEN data[CHOOSE t \in Slots : data[t].id = a].value ELSE saved[a]

\* What a player has earned is never lost, through any interleaving of
\* saves, logouts, evictions and slot reuse, unless a fault has touched his
\* account: a failure of the database in his logout, a logout dropped by a full
\* queue, a restart before he was saved, a late heartbeat.
ProgressKept == [][\A a \in Accounts \ harmed' : Progress(a)' >= Progress(a)]_vars

\* Of a game server that stays down all users are saved and none is in the game
\* any more, if the agent that watches it has heard of it.  Characters whose
\* account has no row stay in their slots for good.
CrashSavesEveryone ==
    (~up /\ heard) ~> (up \/ ~heard \/ \A s \in Slots : Loaded(s) =>
                          /\ data[s].value = saved[data[s].id]
                          /\ data[s].account \notin current)
=============================================================================
