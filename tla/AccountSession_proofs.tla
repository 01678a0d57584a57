------------------------ MODULE AccountSession_proofs ------------------------
(***************************************************************************)
(* For any number of slots and accounts, queues of any length, and every   *)
(* crash and failure of the model: the state is well typed, an account has *)
(* one session, a character is loaded once, no save takes a character      *)
(* back, a session plays the character of its own account, a row of        *)
(* CURRENTUSER has an owner, and no progress is lost without a fault.      *)
(*                                                                         *)
(* The first half sees the queues through QueueOf only, so that sequences  *)
(* stay out of the proofs about slots.  The second half needs the order of *)
(* the requests: a session has one request out at a time, and the log-out  *)
(* of a character is served before the next selection for its slot.  The   *)
(* lemmas about what a queue holds, and in what order, are stated for any  *)
(* queue and used for the requests (Line) and the answers (toGame).        *)
(***************************************************************************)
EXTENDS AccountSession, TLAPS

-----------------------------------------------------------------------------
LEMMA EmptyQueue == ASSUME NEW M PROVE QueueOf(<<>>, M)
BY BoundAssumption DEF QueueOf

\* A message that is taken from a queue is one of its messages.
LEMMA TakeFromQueue ==
    ASSUME NEW M, NEW q, QueueOf(q, M), q # <<>>
    PROVE  Head(q) \in M /\ QueueOf(Tail(q), M)
BY BoundAssumption DEF QueueOf

LEMMA AppendToQueue ==
    ASSUME NEW M, NEW q, QueueOf(q, M), NEW m \in M, ~Full(q)
    PROVE  QueueOf(Append(q, m), M)
BY BoundAssumption DEF QueueOf, Full

\* PutData never exceeds the capacity, whatever the caller does with a refusal.
LEMMA PutInQueue ==
    ASSUME NEW M, NEW q, QueueOf(q, M), NEW m \in M
    PROVE  QueueOf(Put(q, m), M)
BY AppendToQueue DEF Put

\* The messages the model sends are messages.
LEMMA MessageTypes ==
    ASSUME NEW s \in Slots
    PROVE  /\ \A a \in Accounts :
                /\ Request("LOGIN", s, a) \in Requests
                /\ Request("SEL_CHAR", s, a) \in Requests
                /\ Request("LOGOUT", s, a) \in Requests
                /\ Request("DATASAVE", s, a) \in Requests
                /\ Request("KICKOUT", s, a) \in Requests
           /\ \A n \in Names : Request("LOGIN_INFO", s, n) \in Requests
           /\ \A ok \in BOOLEAN :
                /\ Answer("LOGIN", s, ok) \in Answers
                /\ Answer("SEL_CHAR", s, ok) \in Answers
                /\ Answer("LOGOUT", s, ok) \in Answers
                /\ Answer("LOGIN_INFO", s, ok) \in Answers
BY DEF Requests, Answers, Request, Answer

\* What a request in the agent's hand names.
LEMMA HandTypes ==
    ASSUME TypeOK, hand # NoMessage
    PROVE  /\ hand.slot \in Slots
           /\ hand.kind # "LOGIN_INFO" => hand.id \in Accounts
           /\ hand.id \in Names
BY DEF TypeOK, Requests, Names

\* What a session that has a character asks the agent to save.
LEMMA SaveRequestType ==
    ASSUME TypeOK, NEW s \in Slots
    PROVE  QueueOf(SaveRequest(toAgent, s), Requests)
<1>1. QueueOf(toAgent, Requests) /\ data[s] \in [id : Names, account : Names, value : Nat]
  BY DEF TypeOK
<1>2. CASE Loaded(s) /\ data[s].account # None
  <2>1. data[s].id \in Accounts
    BY <1>1, <1>2 DEF Loaded, Names
  <2> QED BY <1>1, <1>2, <2>1, MessageTypes, PutInQueue DEF SaveRequest
<1>3. CASE ~(Loaded(s) /\ data[s].account # None)
  BY <1>1, <1>3 DEF SaveRequest
<1> QED BY <1>2, <1>3

\* The packet handlers keep the types.
LEMMA ClientTypes ==
    ASSUME TypeOK, ClientStep
    PROVE  TypeOK'
<1> USE DEF gameVars, queues, agentVars, database, history
<1>1. ASSUME NEW s \in Slots, Connect(s) PROVE TypeOK'
  BY <1>1 DEF TypeOK, Connect, AnEvent, Involved
<1>2. ASSUME NEW s \in Slots, Play(s) PROVE TypeOK'
  BY <1>2 DEF TypeOK, Play
<1>3. ASSUME NEW s \in Slots, SaveData(s) PROVE TypeOK'
  BY <1>3, SaveRequestType DEF TypeOK, SaveData
<1>4. ASSUME NEW s \in Slots, Disconnect(s) PROVE TypeOK'
  BY <1>4, MessageTypes, PutInQueue DEF TypeOK, Disconnect, LogsOut, Loaded, Names, Involved
<1>5. ASSUME NEW s \in Slots, NEW a \in Accounts, Login(s, a) PROVE TypeOK'
  BY <1>5, MessageTypes, AppendToQueue DEF TypeOK, Login, Names
<1>6. ASSUME NEW s \in Slots, NEW a \in Accounts, LoginRefused(s, a) PROVE TypeOK'
  BY <1>6, SaveRequestType DEF TypeOK, LoginRefused
<1>7. ASSUME NEW s \in Slots, NEW a \in Accounts, SelChar(s, a) PROVE TypeOK'
  <2>1. QueueOf(toAgent, Requests) /\ Request("SEL_CHAR", s, a) \in Requests
    BY <1>7, MessageTypes DEF TypeOK
  <2>2. QueueOf(toAgent', Requests)
    BY <1>7, <2>1, AppendToQueue DEF SelChar
  <2>3. account' \in [Slots -> Names]
    BY <1>7 DEF TypeOK, SelChar, Names
  <2> QED BY <1>7, <2>1, <2>2, <2>3 DEF TypeOK, SelChar
<1>8. ASSUME NEW s \in Slots, NEW a \in Accounts, KickOut(s, a) PROVE TypeOK'
  <2>1. QueueOf(Put(toAgent, Request("KICKOUT", s, a)), Requests)
    BY <1>8, MessageTypes, PutInQueue DEF TypeOK
  <2>2. QueueOf(toAgent', Requests)
    BY <1>8, <2>1, SaveRequestType DEF KickOut
  <2> QED BY <1>8, <2>1, <2>2 DEF TypeOK, KickOut
<1> QED BY <1>1, <1>2, <1>3, <1>4, <1>5, <1>6, <1>7, <1>8 DEF ClientStep

\* So does the thread that reads the answers.
LEMMA AnswerTypes ==
    ASSUME TypeOK, AnswerStep
    PROVE  TypeOK'
<1> USE DEF gameVars, queues, agentVars, database, history
<1>1. ASSUME NEW id \in Names, SendLoginInfo(id) PROVE TypeOK'
  BY <1>1, MessageTypes, PutInQueue DEF TypeOK, SendLoginInfo
<1>2. ASSUME NEW s \in Slots, AnswerDropped(s) PROVE TypeOK'
  BY <1>2, TakeFromQueue DEF TypeOK, AnswerDropped, AnswerFor
<1>3. ASSUME NEW s \in Slots, LoginAnswered(s) PROVE TypeOK'
  BY <1>3, TakeFromQueue DEF TypeOK, LoginAnswered, AnswerFor, Names
<1>4. ASSUME NEW s \in Slots, SelectionFails(s) PROVE TypeOK'
  BY <1>4, TakeFromQueue DEF TypeOK, SelectionFails, AnswerFor
<1>5. ASSUME NEW s \in Slots, SelectionSucceeds(s) PROVE TypeOK'
  BY <1>5, TakeFromQueue DEF TypeOK, SelectionSucceeds, AnswerFor
<1>6. ASSUME NEW s \in Slots, ClosingAnswer(s) PROVE TypeOK'
  BY <1>6, TakeFromQueue DEF TypeOK, ClosingAnswer, AnswerFor
<1> QED BY <1>1, <1>2, <1>3, <1>4, <1>5, <1>6 DEF AnswerStep

\* A worker's job names a slot, which holds an account's character if it is
\* loaded; ending it leaves the queue, the hand and the jobs typed, and so does
\* a step of it.
LEMMA JobTypes ==
    ASSUME TypeOK, NEW w \in Workers, job[w] # Idle
    PROVE  /\ job[w].slot \in Slots
           /\ Loaded(job[w].slot) => data[job[w].slot].id \in Accounts
           /\ EndJob(w) => /\ QueueOf(toGame', Answers)
                           /\ hand' \in Requests \cup {NoMessage}
                           /\ job' \in [Workers -> Jobs \cup {Idle}]
           /\ \A step \in {"save", "saveOnly", "reset"} :
                 Step(w, step) => /\ QueueOf(toGame', Answers)
                                  /\ hand' \in Requests \cup {NoMessage}
                                  /\ job' \in [Workers -> Jobs \cup {Idle}]
<1>1. job[w] \in Jobs
  BY DEF TypeOK
<1>2. job[w].slot \in Slots
  BY <1>1 DEF Jobs
<1>3. Loaded(job[w].slot) => data[job[w].slot].id \in Accounts
  BY <1>2 DEF TypeOK, Loaded, Names
<1>4. ASSUME EndJob(w)
      PROVE  /\ QueueOf(toGame', Answers)
             /\ hand' \in Requests \cup {NoMessage}
             /\ job' \in [Workers -> Jobs \cup {Idle}]
  <2>1. QueueOf(Put(toGame, Answer("LOGOUT", job[w].slot, TRUE)), Answers)
    BY <1>2, MessageTypes, PutInQueue DEF TypeOK
  <2> QED BY <1>4, <2>1 DEF TypeOK, EndJob
<1>5. ASSUME NEW step \in {"save", "saveOnly", "reset"}, Step(w, step)
      PROVE  /\ QueueOf(toGame', Answers)
             /\ hand' \in Requests \cup {NoMessage}
             /\ job' \in [Workers -> Jobs \cup {Idle}]
  BY <1>1, <1>5 DEF TypeOK, Step, Jobs
<1> QED BY <1>2, <1>3, <1>4, <1>5

\* A worker that is at a step has a job.
LEMMA AtWork ==
    ASSUME NEW w, NEW step \in {"test", "save", "saveOnly", "reset"}, At(w, step)
    PROVE  job[w] # Idle
BY DEF At, Idle

\* HandleUserLogout of either worker keeps the types.
LEMMA LogoutTypes ==
    ASSUME NEW w \in Workers, TypeOK, LogoutStep(w) \/ LogoutAccountFails(w) \/ LogoutSaveFails(w)
    PROVE  TypeOK'
<1> USE DEF gameVars, queues, agentVars, database, history
<1>1. ASSUME LogoutOfNobody(w) PROVE TypeOK'
  BY <1>1, AtWork, JobTypes DEF TypeOK, LogoutOfNobody
<1>2. ASSUME LogoutAccount(w) PROVE TypeOK'
  BY <1>2, AtWork, JobTypes DEF TypeOK, LogoutAccount, HarmedBy
<1>3. ASSUME LogoutAccountFails(w) PROVE TypeOK'
  BY <1>3, AtWork, JobTypes DEF TypeOK, LogoutAccountFails, HarmedBy, AnEvent
<1>4. ASSUME LogoutSave(w) PROVE TypeOK'
  <2>1. job[w] # Idle
    BY <1>4, AtWork DEF LogoutSave
  <2>2. saved' \in [Accounts -> Nat]
    BY <1>4, <2>1, JobTypes DEF TypeOK, LogoutSave, Saved
  <2>3. QueueOf(toGame', Answers) /\ hand' \in Requests \cup {NoMessage}
        /\ job' \in [Workers -> Jobs \cup {Idle}]
    BY <1>4, <2>1, JobTypes DEF LogoutSave
  <2> QED BY <1>4, <2>1, <2>2, <2>3 DEF TypeOK, LogoutSave
<1>5. ASSUME LogoutSaveFails(w) PROVE TypeOK'
  BY <1>5, AtWork, JobTypes DEF TypeOK, LogoutSaveFails, AnEvent
<1>6. ASSUME LogoutReset(w) PROVE TypeOK'
  BY <1>6, AtWork, JobTypes DEF TypeOK, LogoutReset, NoData, Names
<1> QED BY <1>1, <1>2, <1>3, <1>4, <1>5, <1>6 DEF LogoutStep

\* So do the requests the agent's read thread serves.
LEMMA ReaderTypes ==
    ASSUME TypeOK, ReaderStep \/ AgentLoadFails \/ AgentSaveFails
    PROVE  TypeOK'
<1> USE DEF gameVars, queues, agentVars, database, history
<1>1. ASSUME AgentRead PROVE TypeOK'
  BY <1>1, TakeFromQueue DEF TypeOK, AgentRead
<1>2. ASSUME NEW ok \in BOOLEAN, AgentLogin(ok) PROVE TypeOK'
  BY <1>2, HandTypes, MessageTypes, PutInQueue DEF TypeOK, AgentLogin, Serves
<1>3. ASSUME NEW t \in Slots, AgentEvict(t) PROVE TypeOK'
  BY <1>3 DEF TypeOK, AgentEvict, Jobs, Workers
<1>4. ASSUME AgentLoad PROVE TypeOK'
  <2>1. hand.slot \in Slots /\ hand.id \in Accounts
    BY <1>4, HandTypes DEF AgentLoad, Serves
  <2>2. QueueOf(toGame', Answers)
    BY <1>4, <2>1, MessageTypes, PutInQueue DEF TypeOK, AgentLoad
  <2>3. data' \in [Slots -> [id : Names, account : Names, value : Nat]] /\ harmed' \in SUBSET Accounts
    BY <1>4, <2>1 DEF TypeOK, AgentLoad, LoadInto, Names
  <2> QED BY <1>4, <2>1, <2>2, <2>3 DEF TypeOK, AgentLoad
<1>5. ASSUME AgentLoadFails PROVE TypeOK'
  <2>1. hand.slot \in Slots /\ hand.id \in Accounts
    BY <1>5, HandTypes DEF AgentLoadFails, Serves
  <2>2. QueueOf(toGame', Answers)
    BY <1>5, <2>1, MessageTypes, PutInQueue DEF TypeOK, AgentLoadFails
  <2>3. data' \in [Slots -> [id : Names, account : Names, value : Nat]] /\ harmed' \in SUBSET Accounts
    BY <1>5, <2>1 DEF TypeOK, AgentLoadFails, LoadInto, Names
  <2> QED BY <1>5, <2>1, <2>2, <2>3 DEF TypeOK, AgentLoadFails
<1>6. ASSUME AgentLogout PROVE TypeOK'
  BY <1>6, HandTypes DEF TypeOK, AgentLogout, Serves, Jobs, Workers
<1>7. ASSUME AgentSave PROVE TypeOK'
  <2>1. saved' \in [Accounts -> Nat]
    BY <1>7, HandTypes DEF TypeOK, AgentSave, Serves, Saved, Loaded, Names
  <2> QED BY <1>7, <2>1 DEF TypeOK, AgentSave
<1>8. ASSUME AgentSaveFails PROVE TypeOK'
  BY <1>8 DEF TypeOK, AgentSaveFails, AnEvent
<1>9. ASSUME AgentLoginInfo PROVE TypeOK'
  BY <1>9, HandTypes, MessageTypes, PutInQueue DEF TypeOK, AgentLoginInfo, Serves
<1>10. ASSUME AgentKickOut PROVE TypeOK'
  BY <1>10 DEF TypeOK, AgentKickOut
<1>11. ASSUME LogoutStep("reader") PROVE TypeOK'
  BY <1>11, LogoutTypes DEF Workers
<1> QED BY <1>1, <1>2, <1>3, <1>4, <1>5, <1>6, <1>7, <1>8, <1>9, <1>10, <1>11 DEF ReaderStep

\* So do the heartbeat's thread, the crashes and the restart.
LEMMA KeeperTypes ==
    ASSUME TypeOK, KeeperStep \/ HeartbeatLate \/ HeartbeatReceived \/ Crash \/ Restart \/ AgentCrash
    PROVE  TypeOK'
<1> USE DEF gameVars, queues, agentVars, database, history
<1>1. ASSUME KeeperStart PROVE TypeOK'
  BY <1>1 DEF TypeOK, KeeperStart
<1>2. ASSUME NEW s \in Slots, KeeperVisits(s) PROVE TypeOK'
  BY <1>2 DEF TypeOK, KeeperVisits, Jobs, Workers
<1>3. ASSUME HeartbeatLate PROVE TypeOK'
  BY <1>3 DEF TypeOK, HeartbeatLate, AnEvent
<1>4. ASSUME HeartbeatReceived PROVE TypeOK'
  BY <1>4 DEF TypeOK, HeartbeatReceived
<1>5. ASSUME Crash PROVE TypeOK'
  BY <1>5 DEF TypeOK, Crash, AnEvent, Names
<1>6. ASSUME Restart PROVE TypeOK'
  BY <1>6, EmptyQueue DEF TypeOK, Restart, NoData, Names
<1>7. ASSUME AgentCrash PROVE TypeOK'
  BY <1>7 DEF TypeOK, AgentCrash, AnEvent
<1>8. ASSUME LogoutStep("keeper") PROVE TypeOK'
  BY <1>8, LogoutTypes DEF Workers
<1> QED BY <1>1, <1>2, <1>3, <1>4, <1>5, <1>6, <1>7, <1>8 DEF KeeperStep

\* Theorem: in every reachable state, for any slots and accounts, the queues
\* respect their capacity, and what they, the slots and the jobs name exists.
THEOREM TypeCorrect == Spec => []TypeOK
<1>1. Init => TypeOK
  BY EmptyQueue DEF Init, TypeOK, Names, NoData
<1>2. TypeOK /\ [Next]_vars => TypeOK'
  <2> SUFFICES ASSUME TypeOK, [Next]_vars PROVE TypeOK'
    OBVIOUS
  <2>1. CASE UNCHANGED vars
    BY <2>1 DEF TypeOK, vars, gameVars, queues, agentVars, database, history
  <2>2. ASSUME Fault PROVE TypeOK'
    BY <2>2, ReaderTypes, LogoutTypes, KeeperTypes DEF Fault
  <2> QED BY <2>1, <2>2, ClientTypes, AnswerTypes, ReaderTypes, KeeperTypes DEF Next
<1> QED BY <1>1, <1>2, PTL DEF Spec

-----------------------------------------------------------------------------
\* A logged-in account belongs to a session.
AccountOfActive == \A s \in Slots : account[s] # None => Active(s)

\* The inductive invariant behind OneSessionPerAccount: a login looks at active
\* sessions only, so that no other session must have an account.
AccountInv == TypeOK /\ OneSessionPerAccount /\ AccountOfActive

\* The steps that log in and out, or change who has a session.
LEMMA AccountKept ==
    ASSUME AccountInv, Next
    PROVE  (OneSessionPerAccount /\ AccountOfActive)'
<1> USE DEF AccountInv, OneSessionPerAccount, AccountOfActive, Active
<1>1. CASE UNCHANGED <<stage, account>>
  BY <1>1
<1>2. ASSUME NEW s \in Slots, Connect(s) PROVE (OneSessionPerAccount /\ AccountOfActive)'
  BY <1>2 DEF TypeOK, Connect
<1>3. ASSUME NEW s \in Slots, NEW a \in Accounts, Login(s, a) PROVE (OneSessionPerAccount /\ AccountOfActive)'
  BY <1>3, NoneAssumption DEF TypeOK, Login, HeldElsewhere
<1>4. ASSUME NEW s \in Slots, NEW a \in Accounts, SelChar(s, a) PROVE (OneSessionPerAccount /\ AccountOfActive)'
  BY <1>4, NoneAssumption DEF TypeOK, SelChar, HeldElsewhere
<1>5. ASSUME NEW s \in Slots, Disconnect(s) PROVE (OneSessionPerAccount /\ AccountOfActive)'
  BY <1>5 DEF TypeOK, Disconnect
<1>6. ASSUME NEW s \in Slots, LoginAnswered(s) PROVE (OneSessionPerAccount /\ AccountOfActive)'
  BY <1>6 DEF TypeOK, LoginAnswered
<1>7. ASSUME NEW s \in Slots, SelectionFails(s) PROVE (OneSessionPerAccount /\ AccountOfActive)'
  BY <1>7 DEF TypeOK, SelectionFails
<1>8. ASSUME NEW id \in Names, SendLoginInfo(id) PROVE (OneSessionPerAccount /\ AccountOfActive)'
  BY <1>8 DEF TypeOK, SendLoginInfo, Nobody
<1>9. ASSUME Crash PROVE (OneSessionPerAccount /\ AccountOfActive)'
  BY <1>9 DEF Crash
<1>10. ASSUME ReaderStep \/ KeeperStep \/ Fault \/ HeartbeatReceived \/ Restart
       PROVE  Crash \/ UNCHANGED <<stage, account>>
  BY <1>10 DEF ReaderStep, KeeperStep, Fault, LogoutStep, gameVars, AgentRead, AgentLoad,
               AgentLogout, AgentSave, AgentLoginInfo, AgentKickOut, AgentLogin, AgentEvict,
               LogoutOfNobody, LogoutAccount, LogoutSave, LogoutReset, KeeperStart,
               KeeperVisits, AgentLoadFails, AgentSaveFails, HeartbeatLate,
               LogoutAccountFails, LogoutSaveFails, AgentCrash, HeartbeatReceived, Restart
<1>11. ASSUME ClientStep
       PROVE  \/ UNCHANGED <<stage, account>>
              \/ \E s \in Slots : Connect(s) \/ Disconnect(s)
              \/ \E s \in Slots, a \in Accounts : Login(s, a) \/ SelChar(s, a)
  BY <1>11 DEF ClientStep, Play, SaveData, LoginRefused, KickOut, gameVars
<1>12. ASSUME AnswerStep
       PROVE  \/ UNCHANGED <<stage, account>>
              \/ \E s \in Slots : LoginAnswered(s) \/ SelectionFails(s)
              \/ \E id \in Names : SendLoginInfo(id)
  BY <1>12 DEF AnswerStep, AnswerDropped, SelectionSucceeds, ClosingAnswer, gameVars
<1> QED BY <1>1, <1>2, <1>3, <1>4, <1>5, <1>6, <1>7, <1>8, <1>9, <1>10, <1>11, <1>12 DEF Next

\* Theorem: no interleaving of logins, character selections, answers, log-outs
\* and crashes logs two sessions in with one account.
THEOREM OneSession == Spec => []OneSessionPerAccount
<1>1. Init => AccountInv
  BY EmptyQueue
     DEF Init, AccountInv, TypeOK, Names, NoData, OneSessionPerAccount, AccountOfActive
<1>2. AccountInv /\ TypeOK' /\ [Next]_vars => AccountInv'
  <2> SUFFICES ASSUME AccountInv, TypeOK', [Next]_vars PROVE AccountInv'
    OBVIOUS
  <2>1. CASE UNCHANGED vars
    BY <2>1 DEF AccountInv, OneSessionPerAccount, AccountOfActive, Active, vars, gameVars
  <2> QED BY <2>1, AccountKept DEF AccountInv
<1> QED BY <1>1, <1>2, TypeCorrect, PTL DEF Spec, AccountInv

-----------------------------------------------------------------------------
\* The database is never ahead of a loaded character.
SavedBehind == \A s \in Slots : Loaded(s) => saved[data[s].id] <= data[s].value

\* The inductive invariant behind the safety of saves: a character has one
\* loaded copy, and the database follows it.
CopyInv == TypeOK /\ OneSlotPerCharacter /\ SavedBehind

\* The steps that may change a slot's data or the database.
DataSteps ==
    \/ \E s \in Slots : Play(s)
    \/ AgentLoad \/ AgentLoadFails \/ AgentSave \/ Restart
    \/ \E w \in Workers : LogoutSave(w) \/ LogoutReset(w)

\* All others leave them alone.
LEMMA OtherSteps ==
    ASSUME Next
    PROVE  DataSteps \/ UNCHANGED <<data, saved>>
<1>1. ASSUME ClientStep PROVE DataSteps \/ UNCHANGED <<data, saved>>
  BY <1>1 DEF ClientStep, DataSteps, Connect, Play, SaveData, Disconnect, Login,
              LoginRefused, SelChar, KickOut, database
<1>2. ASSUME AnswerStep PROVE UNCHANGED <<data, saved>>
  BY <1>2 DEF AnswerStep, SendLoginInfo, AnswerDropped, LoginAnswered, SelectionFails,
              SelectionSucceeds, ClosingAnswer, database
<1>3. ASSUME NEW w \in Workers, LogoutStep(w) PROVE DataSteps \/ UNCHANGED <<data, saved>>
  BY <1>3 DEF LogoutStep, DataSteps, LogoutOfNobody, LogoutAccount, database
<1>4. ASSUME ReaderStep \/ KeeperStep PROVE DataSteps \/ UNCHANGED <<data, saved>>
  BY <1>3, <1>4 DEF ReaderStep, KeeperStep, Workers, DataSteps, AgentRead, AgentLogout,
              AgentLoginInfo, AgentKickOut, AgentLogin, AgentEvict, KeeperStart,
              KeeperVisits, database
<1>5. ASSUME Fault \/ HeartbeatReceived PROVE DataSteps \/ UNCHANGED <<data, saved>>
  BY <1>5 DEF Fault, DataSteps, AgentSaveFails, HeartbeatLate, LogoutAccountFails,
              LogoutSaveFails, Crash, AgentCrash, HeartbeatReceived, database
<1> QED BY <1>1, <1>2, <1>4, <1>5 DEF Next, DataSteps

LEMMA CopyInit == Init => OneSlotPerCharacter /\ SavedBehind
BY DEF Init, OneSlotPerCharacter, SavedBehind, Loaded, NoData

\* The character is loaded, under whatever account.
Loads(s, a) == \E acc \in Names : LoadInto(s, a, acc)

\* A load finds the character in no other slot and starts from what is saved.
LEMMA LoadKept ==
    ASSUME CopyInv, NEW s \in Slots, NEW a \in Accounts, ~LoadedAnywhere(a),
           Loads(s, a), UNCHANGED saved
    PROVE  (OneSlotPerCharacter /\ SavedBehind)'
<1>1. PICK acc \in Names : data' = [data EXCEPT ![s] = [id |-> a, account |-> acc, value |-> saved[a]]]
  BY DEF Loads, LoadInto
<1>2. saved[a] \in Nat /\ data \in [Slots -> [id : Names, account : Names, value : Nat]]
  BY DEF CopyInv, TypeOK
<1>3. \A t \in Slots : data[t].id # a
  BY DEF LoadedAnywhere
<1>4. \A t \in Slots \ {s} : data'[t] = data[t]
  BY <1>1, <1>2
<1>5. data'[s].id = a /\ data'[s].value = saved[a]
  BY <1>1, <1>2
<1> QED BY <1>2, <1>3, <1>4, <1>5 DEF CopyInv, OneSlotPerCharacter, SavedBehind, Loaded

\* A save writes the only copy there is, which is not behind the database.
LEMMA SaveKept ==
    ASSUME CopyInv, NEW s \in Slots, Loaded(s), saved' = Saved(s), UNCHANGED data
    PROVE  /\ (OneSlotPerCharacter /\ SavedBehind)'
           /\ \A a \in Accounts : saved'[a] >= saved[a]
<1>1. /\ data[s].id \in Accounts /\ data[s].value \in Nat
      /\ saved \in [Accounts -> Nat]
      /\ \A t \in Slots : Loaded(t) => data[t].id \in Accounts
  BY DEF CopyInv, TypeOK, Loaded, Names
<1>2. /\ saved'[data[s].id] = data[s].value
      /\ \A a \in Accounts \ {data[s].id} : saved'[a] = saved[a]
  BY <1>1 DEF Saved
<1>3. saved[data[s].id] <= data[s].value
  BY DEF CopyInv, SavedBehind
<1>4. \A t \in Slots : Loaded(t) /\ data[t].id = data[s].id => t = s
  BY DEF CopyInv, OneSlotPerCharacter
<1>5. OneSlotPerCharacter'
  BY DEF CopyInv, OneSlotPerCharacter, Loaded
<1>6. SavedBehind'
  BY <1>1, <1>2, <1>4 DEF CopyInv, SavedBehind, Loaded
<1> QED BY <1>1, <1>2, <1>3, <1>5, <1>6

LEMMA CopyKept ==
    ASSUME CopyInv, DataSteps
    PROVE  /\ (OneSlotPerCharacter /\ SavedBehind)'
           /\ \A a \in Accounts : saved'[a] >= saved[a]
<1> DEFINE Kept == /\ (OneSlotPerCharacter /\ SavedBehind)'
                   /\ \A a \in Accounts : saved'[a] >= saved[a]
<1>1. saved \in [Accounts -> Nat] /\ data \in [Slots -> [id : Names, account : Names, value : Nat]]
  BY DEF CopyInv, TypeOK
<1>2. ASSUME NEW s \in Slots, Play(s) PROVE Kept
  <2>1. saved' = saved /\ data' = [data EXCEPT ![s].value = @ + 1]
    BY <1>2 DEF Play, database
  <2>2. \A t \in Slots : /\ data'[t].id = data[t].id
                         /\ data'[t].value \in {data[t].value, data[t].value + 1}
    BY <1>1, <2>1
  <2>3. \A t \in Slots : Loaded(t) => data[t].id \in Accounts
    BY <1>1 DEF Loaded, Names
  <2> QED BY <1>1, <2>1, <2>2, <2>3 DEF CopyInv, OneSlotPerCharacter, SavedBehind, Loaded
<1>3. ASSUME AgentLoad \/ AgentLoadFails PROVE Kept
  <2>1. /\ hand.slot \in Slots /\ hand.id \in Accounts /\ ~LoadedAnywhere(hand.id)
        /\ saved' = saved
    BY <1>3, HandTypes DEF AgentLoad, AgentLoadFails, Serves, CopyInv, database
  <2>2. Loads(hand.slot, hand.id) \/ UNCHANGED data
    BY <1>1, <1>3, <2>1 DEF AgentLoad, AgentLoadFails, Loads, Names
  <2>3. CASE UNCHANGED data
    BY <1>1, <2>1, <2>3 DEF CopyInv, OneSlotPerCharacter, SavedBehind, Loaded
  <2> QED BY <1>1, <2>1, <2>2, <2>3, LoadKept
<1>4. ASSUME AgentSave PROVE Kept
  <2>1. hand.slot \in Slots /\ UNCHANGED data
    BY <1>4, HandTypes DEF AgentSave, Serves, CopyInv
  <2>2. CASE Loaded(hand.slot)
    BY <1>4, <2>1, <2>2, SaveKept DEF AgentSave
  <2>3. CASE ~Loaded(hand.slot)
    BY <1>1, <1>4, <2>1, <2>3
       DEF AgentSave, CopyInv, OneSlotPerCharacter, SavedBehind, Loaded
  <2> QED BY <2>2, <2>3
<1>5. ASSUME NEW w \in Workers, LogoutSave(w) PROVE Kept
  <2>1. job[w] # Idle
    BY <1>5, AtWork DEF LogoutSave
  <2>2. job[w].slot \in Slots
    BY <2>1, JobTypes DEF CopyInv
  <2>3. /\ Loaded(job[w].slot) /\ saved' = Saved(job[w].slot)
        /\ UNCHANGED data
    BY <1>5 DEF LogoutSave
  <2> QED BY <2>2, <2>3, SaveKept
<1>6. ASSUME NEW w \in Workers, LogoutReset(w) PROVE Kept
  <2>1. saved' = saved /\ data' = [data EXCEPT ![job[w].slot] = NoData]
    BY <1>6 DEF LogoutReset, database
  <2>2. \A t \in Slots : data'[t] = data[t] \/ data'[t].id = None
    BY <1>1, <2>1 DEF NoData
  <2> QED BY <1>1, <2>1, <2>2 DEF CopyInv, OneSlotPerCharacter, SavedBehind, Loaded
<1>7. ASSUME Restart PROVE Kept
  BY <1>1, <1>7
     DEF Restart, NoData, database, OneSlotPerCharacter, SavedBehind, Loaded
<1> QED BY <1>2, <1>3, <1>4, <1>5, <1>6, <1>7 DEF DataSteps

\* The invariant is kept, and by the same steps so is what is saved.
LEMMA CopyStep ==
    ASSUME CopyInv, [Next]_vars
    PROVE  /\ (OneSlotPerCharacter /\ SavedBehind)'
           /\ \A a \in Accounts : saved'[a] >= saved[a]
<1>1. saved \in [Accounts -> Nat]
  BY DEF CopyInv, TypeOK
<1>2. CASE UNCHANGED <<data, saved>>
  BY <1>1, <1>2 DEF CopyInv, OneSlotPerCharacter, SavedBehind, Loaded
<1>3. CASE UNCHANGED vars
  BY <1>2, <1>3 DEF vars, database
<1> QED BY <1>2, <1>3, OtherSteps, CopyKept

LEMMA CopiesSound == Spec => []CopyInv
<1>1. Init /\ TypeOK => CopyInv
  BY CopyInit DEF CopyInv
<1>2. CopyInv /\ TypeOK' /\ [Next]_vars => CopyInv'
  BY CopyStep DEF CopyInv
<1> QED BY <1>1, <1>2, TypeCorrect, PTL DEF Spec

\* Theorem: loads, evictions, late log-outs, the heartbeat's thread and crashes
\* never leave a character in two slots.
THEOREM OneCopy == Spec => []OneSlotPerCharacter
<1>1. CopyInv => OneSlotPerCharacter
  BY DEF CopyInv
<1> QED BY <1>1, CopiesSound, PTL

\* Theorem: no save of the agent's two threads takes a character back to an
\* older state.
THEOREM SavesAdvance == Spec => SavedNeverRegresses
<1>1. CopyInv /\ [Next]_vars => [\A a \in Accounts : saved'[a] >= saved[a]]_vars
  BY CopyStep
<1> QED BY <1>1, CopiesSound, PTL DEF Spec, SavedNeverRegresses
-----------------------------------------------------------------------------
\* What the proofs say of a queue: which messages it holds, and in what
\* order.
IsFor(m, kind, s) == m.kind = kind /\ m.slot = s
Chooses(m, a) == m.kind = "SEL_CHAR" /\ m.id = a

\* Some message of a kind is for the slot; some selection is of the account;
\* at most one message of a kind is for the slot.
Has(q, kind, s) == \E i \in DOMAIN q : IsFor(q[i], kind, s)
HasChoice(q, a) == \E i \in DOMAIN q : Chooses(q[i], a)
Once(q, kind, s) == \A i, j \in DOMAIN q : IsFor(q[i], kind, s) /\ IsFor(q[j], kind, s) => i = j

\* Behind a selection of the slot there is no message of a kind for it, and
\* no selection of the account; before each there is a log-out.
NoneBehind(q, s, kind) ==
    \A i, j \in DOMAIN q : i < j /\ IsFor(q[i], "SEL_CHAR", s) => ~IsFor(q[j], kind, s)
NoRival(q, s, a) ==
    \A i, j \in DOMAIN q : i < j /\ IsFor(q[i], "SEL_CHAR", s) => ~Chooses(q[j], a)
Preceded(q, s) ==
    \A j \in DOMAIN q : IsFor(q[j], "SEL_CHAR", s) =>
        \E i \in DOMAIN q : i < j /\ IsFor(q[i], "LOGOUT", s)

\* The places of a queue after a put.
LEMMA AppendPlaces ==
    ASSUME NEW M, NEW q \in Seq(M), NEW m
    PROVE  /\ DOMAIN Append(q, m) = DOMAIN q \cup {Len(q) + 1}
           /\ DOMAIN q = 1 .. Len(q) /\ Len(q) \in Nat
           /\ \A i \in DOMAIN q : Append(q, m)[i] = q[i]
           /\ Append(q, m)[Len(q) + 1] = m
OBVIOUS

\* The places of a queue after a take.
LEMMA TailPlaces ==
    ASSUME NEW M, NEW q \in Seq(M), q # <<>>
    PROVE  /\ DOMAIN Tail(q) = 1 .. Len(q) - 1
           /\ DOMAIN q = 1 .. Len(q) /\ Len(q) \in Nat \ {0}
           /\ \A i \in DOMAIN Tail(q) : Tail(q)[i] = q[i + 1]
           /\ Head(q) = q[1]
OBVIOUS

\* What a queue holds after a put.
LEMMA AppendHas ==
    ASSUME NEW M, NEW q \in Seq(M), NEW m
    PROVE  /\ \A k, s : Has(Append(q, m), k, s) <=> Has(q, k, s) \/ IsFor(m, k, s)
           /\ \A a : HasChoice(Append(q, m), a) <=> HasChoice(q, a) \/ Chooses(m, a)
<1> HIDE DEF IsFor, Chooses
<1> QED BY AppendPlaces DEF Has, HasChoice

\* A put keeps an order, unless the new message breaks it.
LEMMA AppendOrder ==
    ASSUME NEW M, NEW q \in Seq(M), NEW m
    PROVE  /\ \A k, s : Once(q, k, s) /\ ~(IsFor(m, k, s) /\ Has(q, k, s)) => Once(Append(q, m), k, s)
           /\ \A s, k : NoneBehind(q, s, k) /\ ~(IsFor(m, k, s) /\ Has(q, "SEL_CHAR", s))
                         => NoneBehind(Append(q, m), s, k)
           /\ \A s, a : NoRival(q, s, a) /\ ~(Chooses(m, a) /\ Has(q, "SEL_CHAR", s))
                         => NoRival(Append(q, m), s, a)
           /\ \A s : Preceded(q, s) /\ (IsFor(m, "SEL_CHAR", s) => Has(q, "LOGOUT", s))
                         => Preceded(Append(q, m), s)
<1>1. \A k, s : Once(q, k, s) /\ ~(IsFor(m, k, s) /\ Has(q, k, s)) => Once(Append(q, m), k, s)
  BY AppendPlaces DEF Has, Once
<1>2. \A s, k : NoneBehind(q, s, k) /\ ~(IsFor(m, k, s) /\ Has(q, "SEL_CHAR", s))
                         => NoneBehind(Append(q, m), s, k)
  BY AppendPlaces DEF Has, NoneBehind
<1>3. \A s, a : NoRival(q, s, a) /\ ~(Chooses(m, a) /\ Has(q, "SEL_CHAR", s))
                         => NoRival(Append(q, m), s, a)
  BY AppendPlaces DEF Has, NoRival
<1>4. \A s : Preceded(q, s) /\ (IsFor(m, "SEL_CHAR", s) => Has(q, "LOGOUT", s))
                         => Preceded(Append(q, m), s)
  BY AppendPlaces DEF Has, Preceded
<1> QED BY <1>1, <1>2, <1>3, <1>4

\* What a queue held before a take.
LEMMA TailHas ==
    ASSUME NEW M, NEW q \in Seq(M), q # <<>>
    PROVE  /\ \A k, s : Has(q, k, s) <=> Has(Tail(q), k, s) \/ IsFor(Head(q), k, s)
           /\ \A a : HasChoice(q, a) <=> HasChoice(Tail(q), a) \/ Chooses(Head(q), a)
<1>1. \A i \in DOMAIN q : i = 1 \/ (i - 1 \in DOMAIN Tail(q) /\ Tail(q)[i - 1] = q[i])
  BY TailPlaces
<1>2. \A i \in DOMAIN Tail(q) : i + 1 \in DOMAIN q /\ Tail(q)[i] = q[i + 1]
  BY TailPlaces
<1>3. 1 \in DOMAIN q /\ Head(q) = q[1]
  BY TailPlaces
<1> QED BY <1>1, <1>2, <1>3 DEF Has, HasChoice

\* A take keeps every order, and says what is not behind the first message.
LEMMA TailOrder ==
    ASSUME NEW M, NEW q \in Seq(M), q # <<>>
    PROVE  /\ \A k, s : Once(q, k, s) => Once(Tail(q), k, s) /\ ~(IsFor(Head(q), k, s) /\ Has(Tail(q), k, s))
           /\ \A s, k : NoneBehind(q, s, k) => /\ NoneBehind(Tail(q), s, k)
                                               /\ IsFor(Head(q), "SEL_CHAR", s) => ~Has(Tail(q), k, s)
           /\ \A s, a : NoRival(q, s, a) => /\ NoRival(Tail(q), s, a)
                                            /\ IsFor(Head(q), "SEL_CHAR", s) => ~HasChoice(Tail(q), a)
           /\ \A s : Preceded(q, s) => /\ ~IsFor(Head(q), "SEL_CHAR", s)
                                       /\ IsFor(Head(q), "LOGOUT", s) \/ Preceded(Tail(q), s)
<1>2. \A i \in DOMAIN Tail(q) : i \in Nat /\ i + 1 \in DOMAIN q /\ Tail(q)[i] = q[i + 1]
  BY TailPlaces
<1>3. 1 \in DOMAIN q /\ Head(q) = q[1] /\ \A i \in DOMAIN q : i \in Nat \ {0}
  BY TailPlaces
<1>a. \A k, s : Once(q, k, s) => Once(Tail(q), k, s) /\ ~(IsFor(Head(q), k, s) /\ Has(Tail(q), k, s))
  BY <1>2, <1>3 DEF Has, Once
<1>b. \A s, k : NoneBehind(q, s, k) => /\ NoneBehind(Tail(q), s, k)
                                       /\ IsFor(Head(q), "SEL_CHAR", s) => ~Has(Tail(q), k, s)
  BY <1>2, <1>3 DEF Has, NoneBehind
<1>c. \A s, a : NoRival(q, s, a) => /\ NoRival(Tail(q), s, a)
                                    /\ IsFor(Head(q), "SEL_CHAR", s) => ~HasChoice(Tail(q), a)
  BY <1>2, <1>3 DEF HasChoice, NoRival
<1>d. ASSUME NEW s, Preceded(q, s)
      PROVE  /\ ~IsFor(Head(q), "SEL_CHAR", s)
             /\ IsFor(Head(q), "LOGOUT", s) \/ Preceded(Tail(q), s)
  <2>1. ~IsFor(Head(q), "SEL_CHAR", s)
    BY <1>3, <1>d DEF Preceded
  <2>2. ASSUME ~IsFor(Head(q), "LOGOUT", s), NEW j \in DOMAIN Tail(q), IsFor(Tail(q)[j], "SEL_CHAR", s)
        PROVE  \E i \in DOMAIN Tail(q) : i < j /\ IsFor(Tail(q)[i], "LOGOUT", s)
    <3>1. PICK i \in DOMAIN q : i < j + 1 /\ IsFor(q[i], "LOGOUT", s)
      BY <1>2, <1>d, <2>2 DEF Preceded
    <3>2. i # 1
      BY <1>3, <2>2, <3>1
    <3>3. i - 1 \in DOMAIN Tail(q) /\ Tail(q)[i - 1] = q[i]
      BY <3>2, TailPlaces
    <3>4. i \in Nat /\ j \in Nat
      BY <1>2, <1>3
    <3> QED BY <3>1, <3>3, <3>4
  <2> QED BY <2>1, <2>2 DEF Preceded
<1> QED BY <1>a, <1>b, <1>c, <1>d

\* The request that inserts a row of CURRENTUSER, and what must not be before
\* it in the queue: whatever would take the character from its slot.
IsInfo(m, s, a) == m.kind = "LOGIN_INFO" /\ m.slot = s /\ m.id = a
HasInfo(q, s, a) == \E i \in DOMAIN q : IsInfo(q[i], s, a)
ClearBefore(q, s, a) ==
    \A i, j \in DOMAIN q : i < j /\ IsInfo(q[j], s, a) =>
        ~IsFor(q[i], "LOGOUT", s) /\ ~IsFor(q[i], "SEL_CHAR", s) /\ ~Chooses(q[i], a)

\* A put behind a queue that holds nothing harmful keeps ClearBefore.
LEMMA AppendInfo ==
    ASSUME NEW M, NEW q \in Seq(M), NEW m
    PROVE  /\ \A s, a : HasInfo(Append(q, m), s, a) <=> HasInfo(q, s, a) \/ IsInfo(m, s, a)
           /\ \A s, a : ClearBefore(q, s, a)
                        /\ (IsInfo(m, s, a) => ~Has(q, "LOGOUT", s) /\ ~Has(q, "SEL_CHAR", s) /\ ~HasChoice(q, a))
                        => ClearBefore(Append(q, m), s, a)
<1>1. \A s, a : HasInfo(Append(q, m), s, a) <=> HasInfo(q, s, a) \/ IsInfo(m, s, a)
  <2> HIDE DEF IsInfo
  <2> QED BY AppendPlaces DEF HasInfo
<1>2. ASSUME NEW s, NEW a, ClearBefore(q, s, a), IsInfo(m, s, a) => ~Has(q, "LOGOUT", s) /\ ~Has(q, "SEL_CHAR", s) /\ ~HasChoice(q, a)
      PROVE ClearBefore(Append(q, m), s, a)
  BY <1>2, AppendPlaces DEF Has, HasChoice, ClearBefore
<1> QED BY <1>1, <1>2

\* A take keeps ClearBefore, and the first message is harmless.
LEMMA TailInfo ==
    ASSUME NEW M, NEW q \in Seq(M), q # <<>>
    PROVE  /\ \A s, a : HasInfo(q, s, a) <=> HasInfo(Tail(q), s, a) \/ IsInfo(Head(q), s, a)
           /\ \A s, a : ClearBefore(q, s, a) =>
                 /\ ClearBefore(Tail(q), s, a)
                 /\ HasInfo(Tail(q), s, a) => /\ ~IsFor(Head(q), "LOGOUT", s)
                                              /\ ~IsFor(Head(q), "SEL_CHAR", s)
                                              /\ ~Chooses(Head(q), a)
<1>1. \A i \in DOMAIN q : i = 1 \/ (i - 1 \in DOMAIN Tail(q) /\ Tail(q)[i - 1] = q[i])
  BY TailPlaces
<1>2. \A i \in DOMAIN Tail(q) : i \in Nat \ {0} /\ i + 1 \in DOMAIN q /\ Tail(q)[i] = q[i + 1]
  BY TailPlaces
<1>3. 1 \in DOMAIN q /\ Head(q) = q[1]
  BY TailPlaces
<1>a. \A s, a : HasInfo(q, s, a) <=> HasInfo(Tail(q), s, a) \/ IsInfo(Head(q), s, a)
  BY <1>1, <1>2, <1>3 DEF HasInfo
<1>b. ASSUME NEW s, NEW a, ClearBefore(q, s, a)
      PROVE  ClearBefore(Tail(q), s, a)
  BY <1>2, <1>b DEF ClearBefore
<1>c. ASSUME NEW s, NEW a, ClearBefore(q, s, a), HasInfo(Tail(q), s, a)
      PROVE  ~IsFor(Head(q), "LOGOUT", s) /\ ~IsFor(Head(q), "SEL_CHAR", s) /\ ~Chooses(Head(q), a)
  BY <1>2, <1>3, <1>c DEF ClearBefore, HasInfo
<1> QED BY <1>a, <1>b, <1>c

\* The requests the agent has not served: the one in its hand, and the queue.
Line == IF hand = NoMessage THEN toAgent ELSE <<hand>> \o toAgent

\* The line is a sequence of requests.
LEMMA LineType == TypeOK => Line \in Seq(Requests)
BY DEF Line, TypeOK, QueueOf

\* A request that is served leaves the line at its head.
LEMMA LineServed ==
    ASSUME TypeOK, hand # NoMessage, hand' = NoMessage, toAgent' = toAgent
    PROVE  Line # <<>> /\ Head(Line) = hand /\ Line' = Tail(Line)
<1>1. hand \in Requests /\ toAgent \in Seq(Requests)
  BY DEF TypeOK, QueueOf
<1>2. Line = <<hand>> \o toAgent /\ Line' = toAgent
  BY DEF Line
<1>3. ASSUME NEW q \in Seq(Requests), NEW m \in Requests
      PROVE  <<m>> \o q # <<>> /\ Head(<<m>> \o q) = m /\ q = Tail(<<m>> \o q)
  OBVIOUS
<1> QED BY <1>1, <1>2, <1>3

\* A request that is put joins the line at its end.
LEMMA LineAppended ==
    ASSUME TypeOK, hand' = hand, NEW m \in Requests, toAgent' = Append(toAgent, m)
    PROVE  Line' = Append(Line, m)
<1>1. hand \in Requests \cup {NoMessage} /\ toAgent \in Seq(Requests)
  BY DEF TypeOK, QueueOf
<1>2. ASSUME NEW q \in Seq(Requests), NEW n \in Requests
      PROVE  <<n>> \o Append(q, m) = Append(<<n>> \o q, m)
  OBVIOUS
<1> QED BY <1>1, <1>2 DEF Line

\* Taking a request in the hand leaves the line as it is.
LEMMA LineRead ==
    ASSUME TypeOK, AgentRead
    PROVE  Line' = Line
<1>1. toAgent \in Seq(Requests) /\ hand = NoMessage /\ toAgent # <<>> /\ hand' = Head(toAgent) /\ toAgent' = Tail(toAgent)
  BY DEF TypeOK, QueueOf, AgentRead
<1>2. ASSUME NEW q \in Seq(Requests), q # <<>>
      PROVE  <<Head(q)>> \o Tail(q) = q /\ Head(q) \in Requests
  BY <1>2
<1>3. hand' # NoMessage
  BY <1>1, <1>2 DEF NoMessage, Requests
<1> QED BY <1>1, <1>2, <1>3 DEF Line

\* Emptying the queue leaves the request in the hand.
LEMMA LineEmptied ==
    ASSUME TypeOK, hand' = hand, toAgent' = <<>>
    PROVE  Line' = IF hand = NoMessage THEN <<>> ELSE <<hand>>
BY DEF Line, TypeOK

-----------------------------------------------------------------------------
\* A selection of the account by the slot, and the answer that grants one.
Asks(q, s, a) == \E i \in DOMAIN q : IsFor(q[i], "SEL_CHAR", s) /\ q[i].id = a
IsOk(m, s) == IsFor(m, "SEL_CHAR", s) /\ m.ok = TRUE
HasOk(q, s) == \E i \in DOMAIN q : IsOk(q[i], s)

\* The selections and grants of a queue after a put.
LEMMA AppendAsks ==
    ASSUME NEW M, NEW q \in Seq(M), NEW m
    PROVE  /\ \A s, a : Asks(Append(q, m), s, a) <=> Asks(q, s, a) \/ (IsFor(m, "SEL_CHAR", s) /\ m.id = a)
           /\ \A s : HasOk(Append(q, m), s) <=> HasOk(q, s) \/ IsOk(m, s)
<1>1. \A s, a : Asks(Append(q, m), s, a) <=> Asks(q, s, a) \/ (IsFor(m, "SEL_CHAR", s) /\ m.id = a)
  <2> HIDE DEF IsFor
  <2> QED BY AppendPlaces DEF Asks
<1>2. \A s : HasOk(Append(q, m), s) <=> HasOk(q, s) \/ IsOk(m, s)
  <2> HIDE DEF IsOk
  <2> QED BY AppendPlaces DEF HasOk
<1> QED BY <1>1, <1>2

\* The selections and grants of a queue before a take.
LEMMA TailAsks ==
    ASSUME NEW M, NEW q \in Seq(M), q # <<>>
    PROVE  /\ \A s, a : Asks(q, s, a) <=> Asks(Tail(q), s, a) \/ (IsFor(Head(q), "SEL_CHAR", s) /\ Head(q).id = a)
           /\ \A s : HasOk(q, s) <=> HasOk(Tail(q), s) \/ IsOk(Head(q), s)
<1>1. \A i \in DOMAIN q : i = 1 \/ (i - 1 \in DOMAIN Tail(q) /\ Tail(q)[i - 1] = q[i])
  BY TailPlaces
<1>2. \A i \in DOMAIN Tail(q) : i + 1 \in DOMAIN q /\ Tail(q)[i] = q[i + 1]
  BY TailPlaces
<1>3. 1 \in DOMAIN q /\ Head(q) = q[1]
  BY TailPlaces
<1>a. \A s, a : Asks(q, s, a) <=> Asks(Tail(q), s, a) \/ (IsFor(Head(q), "SEL_CHAR", s) /\ Head(q).id = a)
  <2> HIDE DEF IsFor
  <2> QED BY <1>1, <1>2, <1>3 DEF Asks
<1>b. \A s : HasOk(q, s) <=> HasOk(Tail(q), s) \/ IsOk(Head(q), s)
  BY <1>1, <1>2, <1>3 DEF HasOk
<1> QED BY <1>a, <1>b

\* A grant is an answer to a selection.
LEMMA OkIsReply ==
    ASSUME NEW q, NEW s, HasOk(q, s)
    PROVE  Has(q, "SEL_CHAR", s)
BY DEF HasOk, Has, IsOk

-----------------------------------------------------------------------------
\* A session whose slot no answer for a former one can reach.
Own(s) == Active(s) /\ s \notin early

\* Of a kind, at most one message of the slot is out, whether it is a request
\* or its answer; or none.
OneOut(L, G, kind, s) ==
    Once(L, kind, s) /\ Once(G, kind, s) /\ ~(Has(L, kind, s) /\ Has(G, kind, s))

NoneOut(L, G, kind, s) == ~Has(L, kind, s) /\ ~Has(G, kind, s)

\* The agent has granted the slot its character.
Chosen(rep, G, s) == rep.slot = s \/ HasOk(G, s)

\* One request at a time: a session has at most one login or selection out,
\* only while it waits for it, of its own account, and no log-out or selection
\* that is older can follow its grant.
Sound(st, acc, rep, L, G, s) ==
    /\ OneOut(L, G, "LOGIN", s) /\ OneOut(L, G, "SEL_CHAR", s)
    /\ st # "login" => NoneOut(L, G, "LOGIN", s)
    /\ st # "select" => NoneOut(L, G, "SEL_CHAR", s)
    /\ rep.slot = s => st = "select" /\ NoneOut(L, G, "SEL_CHAR", s)
    /\ st \in {"select", "game"} => acc # None
    /\ \A a : Asks(L, s, a) => a = acc
    /\ NoneBehind(L, s, "LOGOUT") /\ NoRival(L, s, acc)
    /\ st = "game" \/ Chosen(rep, G, s) => ~Has(L, "LOGOUT", s) /\ ~HasChoice(L, acc)

\* Every session that no answer for a former one can reach is sound.
SessionInv == \A s \in Slots : Own(s) => Sound(stage[s], account[s], replying, Line, toGame, s)

\* Serving a request keeps a session sound.
LEMMA SoundTail ==
    ASSUME NEW M, NEW L \in Seq(M), L # <<>>, NEW st, NEW acc, NEW rep, NEW G, NEW s,
           Sound(st, acc, rep, L, G, s)
    PROVE  Sound(st, acc, rep, Tail(L), G, s)
BY TailHas, TailOrder, TailAsks DEF Sound, OneOut, NoneOut

\* So does taking an answer,
LEMMA SoundHeard ==
    ASSUME NEW M, NEW G \in Seq(M), G # <<>>, NEW st, NEW acc, NEW rep, NEW L, NEW s,
           Sound(st, acc, rep, L, G, s)
    PROVE  Sound(st, acc, rep, L, Tail(G), s)
BY TailHas, TailOrder, TailAsks DEF Sound, OneOut, NoneOut, Chosen

\* putting a request that is no step of a session,
LEMMA SoundAppend ==
    ASSUME NEW M, NEW L \in Seq(M), NEW m, NEW st, NEW acc, NEW rep, NEW G, NEW s,
           Sound(st, acc, rep, L, G, s),
           ~IsFor(m, "LOGIN", s), ~IsFor(m, "SEL_CHAR", s), ~IsFor(m, "LOGOUT", s), ~Chooses(m, acc)
    PROVE  Sound(st, acc, rep, Append(L, m), G, s)
BY AppendHas, AppendOrder, AppendAsks DEF Sound, OneOut, NoneOut

\* and putting an answer that grants nothing.
LEMMA SoundAnswer ==
    ASSUME NEW M, NEW G \in Seq(M), NEW m, NEW st, NEW acc, NEW rep, NEW L, NEW s,
           Sound(st, acc, rep, L, G, s),
           ~IsFor(m, "LOGIN", s), ~IsFor(m, "SEL_CHAR", s)
    PROVE  Sound(st, acc, rep, L, Append(G, m), s)
<1>1. ~IsOk(m, s)
  BY DEF IsOk
<1> QED BY <1>1, AppendHas, AppendOrder, AppendAsks DEF Sound, OneOut, NoneOut, Chosen

\* A queue without a message of a kind is in any order about it.
LEMMA NoneThere ==
    ASSUME NEW q, NEW s
    PROVE  /\ \A k : ~Has(q, k, s) => Once(q, k, s)
           /\ ~Has(q, "SEL_CHAR", s) => /\ \A a : ~Asks(q, s, a)
                                        /\ \A k : NoneBehind(q, s, k)
                                        /\ \A a : NoRival(q, s, a)
                                        /\ Preceded(q, s)
                                        /\ ~HasOk(q, s)
BY DEF Has, Once, Asks, NoneBehind, NoRival, Preceded, HasOk, IsOk

\* A session starts sound in a slot for which nothing is out.
LEMMA SoundFresh ==
    ASSUME NEW acc, NEW rep, NEW L, NEW G, NEW s,
           NoneOut(L, G, "LOGIN", s), NoneOut(L, G, "SEL_CHAR", s), rep.slot # s
    PROVE  Sound("open", acc, rep, L, G, s)
BY NoneThere DEF Sound, OneOut, NoneOut, Chosen

\* Which message is for whom.
LEMMA MessageFacts ==
    ASSUME NEW k, NEW s, NEW a
    PROVE  /\ \A kind, t : IsFor(Request(k, s, a), kind, t) <=> k = kind /\ s = t
           /\ \A b : Chooses(Request(k, s, a), b) <=> k = "SEL_CHAR" /\ a = b
           /\ \A t, b : IsInfo(Request(k, s, a), t, b) <=> k = "LOGIN_INFO" /\ s = t /\ a = b
           /\ Request(k, s, a).id = a
           /\ \A kind, t : IsFor(Answer(k, s, a), kind, t) <=> k = kind /\ s = t
           /\ \A t : IsOk(Answer(k, s, a), t) <=> k = "SEL_CHAR" /\ s = t /\ a = TRUE
BY DEF IsFor, Chooses, IsInfo, IsOk, Request, Answer

\* A session that asks for its login stays sound,
LEMMA SoundLogin ==
    ASSUME NEW M, NEW L \in Seq(M), NEW acc, NEW rep, NEW G, NEW s, NEW a,
           Sound("open", acc, rep, L, G, s)
    PROVE  Sound("login", a, rep, Append(L, Request("LOGIN", s, a)), G, s)
<1>1. NoneOut(L, G, "LOGIN", s) /\ NoneOut(L, G, "SEL_CHAR", s) /\ rep.slot # s
  BY DEF Sound
<1>2. NoneOut(Append(L, Request("LOGIN", s, a)), G, "SEL_CHAR", s)
  BY <1>1, AppendHas DEF NoneOut, IsFor, Request
<1>3. OneOut(Append(L, Request("LOGIN", s, a)), G, "LOGIN", s)
  BY <1>1, AppendOrder, NoneThere DEF NoneOut, OneOut
<1> QED BY <1>1, <1>2, <1>3, NoneThere DEF Sound, OneOut, NoneOut, Chosen

\* so does one that selects its character,
LEMMA SoundSelect ==
    ASSUME NEW M, NEW L \in Seq(M), NEW acc, NEW rep, NEW G, NEW s, NEW a, a # None,
           Sound("open", acc, rep, L, G, s)
    PROVE  Sound("select", a, rep, Append(L, Request("SEL_CHAR", s, a)), G, s)
<1> DEFINE K == Append(L, Request("SEL_CHAR", s, a))
<1>1. NoneOut(L, G, "LOGIN", s) /\ NoneOut(L, G, "SEL_CHAR", s) /\ rep.slot # s
  BY DEF Sound
<1>2. NoneOut(K, G, "LOGIN", s)
  BY <1>1, AppendHas DEF NoneOut, IsFor, Request
<1>3. OneOut(K, G, "SEL_CHAR", s)
  BY <1>1, AppendOrder, NoneThere DEF NoneOut, OneOut
<1>4. \A b : Asks(K, s, b) => b = a
  BY <1>1, NoneThere, AppendAsks DEF NoneOut, IsFor, Request
<1>5. NoneBehind(K, s, "LOGOUT") /\ NoRival(K, s, a)
  BY <1>1, NoneThere, AppendOrder DEF NoneOut
<1> QED BY <1>1, <1>2, <1>3, <1>4, <1>5, NoneThere DEF Sound, OneOut, NoneOut, Chosen

\* and so does one whose request is answered.
LEMMA SoundServe ==
    ASSUME NEW M, NEW L \in Seq(M), L # <<>>, NEW N, NEW G \in Seq(N), NEW m,
           NEW st, NEW acc, NEW rep, NEW s, Sound(st, acc, rep, L, G, s),
           \A k \in {"LOGIN", "SEL_CHAR"} : IsFor(m, k, s) => IsFor(Head(L), k, s)
    PROVE  Sound(st, acc, rep, Tail(L), Append(G, m), s)
<1> DEFINE K == Tail(L)
<1> DEFINE H == Append(G, m)
<1>0. /\ \A k : Has(L, k, s) <=> Has(K, k, s) \/ IsFor(Head(L), k, s)
      /\ \A k : Has(H, k, s) <=> Has(G, k, s) \/ IsFor(m, k, s)
  BY TailHas, AppendHas
<1>1. ASSUME NEW k \in {"LOGIN", "SEL_CHAR"}, OneOut(L, G, k, s) PROVE OneOut(K, H, k, s)
  BY <1>0, <1>1, TailOrder, AppendOrder DEF OneOut
<1>2. ASSUME NEW k \in {"LOGIN", "SEL_CHAR"}, NoneOut(L, G, k, s) PROVE NoneOut(K, H, k, s)
  BY <1>0, <1>2 DEF NoneOut
<1>3. \A a : Asks(K, s, a) => a = acc
  BY TailAsks DEF Sound
<1>4. NoneBehind(K, s, "LOGOUT") /\ NoRival(K, s, acc)
  BY TailOrder DEF Sound
<1>5. ASSUME st = "game" \/ Chosen(rep, H, s) PROVE ~Has(K, "LOGOUT", s) /\ ~HasChoice(K, acc)
  <2>1. CASE st = "game" \/ Chosen(rep, G, s)
    BY <2>1, TailHas DEF Sound
  <2>2. CASE IsOk(m, s)
    BY <2>2, TailOrder DEF Sound, IsOk
  <2> QED BY <1>5, <2>1, <2>2, AppendAsks DEF Chosen
<1> QED BY <1>1, <1>2, <1>3, <1>4, <1>5 DEF Sound

-----------------------------------------------------------------------------
\* What the line holds is in the hand or in the queue.
LEMMA LineHas ==
    ASSUME TypeOK
    PROVE  /\ \A k, s : Has(Line, k, s) <=> (hand # NoMessage /\ IsFor(hand, k, s)) \/ Has(toAgent, k, s)
           /\ \A s, a : Asks(Line, s, a) <=> (hand # NoMessage /\ IsFor(hand, "SEL_CHAR", s) /\ hand.id = a)
                                             \/ Asks(toAgent, s, a)
<1>1. hand \in Requests \cup {NoMessage} /\ toAgent \in Seq(Requests)
  BY DEF TypeOK, QueueOf
<1>2. ASSUME NEW q \in Seq(Requests), NEW m \in Requests
      PROVE  <<m>> \o q \in Seq(Requests) /\ <<m>> \o q # <<>> /\ Head(<<m>> \o q) = m /\ q = Tail(<<m>> \o q)
  OBVIOUS
<1>3. CASE hand = NoMessage
  BY <1>3 DEF Line
<1>4. CASE hand # NoMessage
  <2>1. Line \in Seq(Requests) /\ Line # <<>> /\ Head(Line) = hand /\ Tail(Line) = toAgent
    BY <1>1, <1>2, <1>4 DEF Line
  <2> QED BY <1>4, <2>1, TailHas, TailAsks
<1> QED BY <1>3, <1>4

\* For a slot that is not stale nothing is out.
LEMMA StaleMeans ==
    ASSUME TypeOK, NEW s, ~Stale(s)
    PROVE  /\ NoneOut(Line, toGame, "LOGIN", s) /\ NoneOut(Line, toGame, "SEL_CHAR", s)
           /\ replying.slot # s
<1>1. \A k : ~Unanswered(s, k) => ~(hand # NoMessage /\ IsFor(hand, k, s)) /\ ~Has(toAgent, k, s) /\ ~Has(toGame, k, s)
  BY DEF Unanswered, Has, IsFor
<1> QED BY <1>1, LineHas DEF Stale, Unanswered, NoneOut

\* The accounts an early leave or a reconnection may harm.
LEMMA InvolvedMeans ==
    ASSUME TypeOK, NEW s, NEW a \in Accounts, account[s] = a \/ data[s].id = a \/ Asks(Line, s, a)
    PROVE  a \in Involved(s)
BY LineHas DEF Involved, Asks, IsFor

\* A request that is put, or not put in a full queue.
LEMMA LinePut ==
    ASSUME TypeOK, hand' = hand, NEW m \in Requests, toAgent' = Put(toAgent, m)
    PROVE  Line' = Line \/ (Line' = Append(Line, m) /\ ~Full(toAgent))
BY LineAppended DEF Put, Line

\* The line depends on the hand and the queue only.
LEMMA LineSame ==
    ASSUME hand' = hand, toAgent' = toAgent
    PROVE  Line' = Line
BY DEF Line

\* Without the game server there is no session.
DownIsEmpty == ~up => replying = Nobody /\ \A s \in Slots : ~Active(s)

\* The invariant about sessions.
SInv == AccountInv /\ DownIsEmpty /\ SessionInv

\* The types of the line and of the answers.
LEMMA LineTypes ==
    ASSUME SInv
    PROVE  TypeOK /\ Line \in Seq(Requests) /\ toGame \in Seq(Answers)
BY LineType DEF SInv, AccountInv, TypeOK, QueueOf

\* Each step of the game server keeps every session sound: a connection,
LEMMA ConnectSound ==
    ASSUME SInv, NEW s \in Slots, Connect(s)
    PROVE  SessionInv'
<1> SUFFICES ASSUME NEW t \in Slots, Own(t)'
             PROVE  Sound(stage[t], account[t], replying, Line, toGame, t)'
  BY DEF SessionInv
<1>1. Line' = Line /\ UNCHANGED <<account, replying, toGame>>
  BY LineSame DEF Connect, queues, agentVars
<1>2. CASE t = s
  <2>1. stage'[s] = "open"
    BY LineTypes DEF Connect, TypeOK
  <2>2. ~Stale(s)
    BY <1>2 DEF Connect, Own
  <2> QED BY <1>1, <1>2, <2>1, <2>2, LineTypes, StaleMeans, SoundFresh
<1>3. CASE t # s
  <2>1. stage'[t] = stage[t] /\ (t \in early' <=> t \in early)
    BY <1>3, LineTypes DEF Connect, TypeOK
  <2>2. Own(t)
    BY <2>1 DEF Own, Active
  <2> QED BY <1>1, <2>1, <2>2 DEF SInv, SessionInv
<1> QED BY <1>2, <1>3

\* a login,
LEMMA LoginSound ==
    ASSUME SInv, NEW s \in Slots, NEW a \in Accounts, Login(s, a)
    PROVE  SessionInv'
<1> SUFFICES ASSUME NEW t \in Slots, Own(t)'
             PROVE  Sound(stage[t], account[t], replying, Line, toGame, t)'
  BY DEF SessionInv
<1>1. Line' = Append(Line, Request("LOGIN", s, a)) /\ UNCHANGED <<replying, toGame>>
  BY LineTypes, LineAppended, MessageTypes DEF Login, agentVars
<1>2. /\ stage[s] = "open" /\ stage'[s] = "login" /\ account'[s] = a
      /\ t # s => stage'[t] = stage[t] /\ account'[t] = account[t]
      /\ early' = early
  BY LineTypes DEF Login, TypeOK
<1>3. Own(t)
  BY <1>2 DEF Own, Active
<1>4. CASE t = s
  BY <1>1, <1>2, <1>3, <1>4, SoundLogin, LineTypes DEF SInv, SessionInv
<1>5. CASE t # s
  <2>1. Sound(stage[t], account[t], replying, Line, toGame, t)
    BY <1>3 DEF SInv, SessionInv
  <2>2. LET m == Request("LOGIN", s, a) IN
          ~IsFor(m, "LOGIN", t) /\ ~IsFor(m, "SEL_CHAR", t) /\ ~IsFor(m, "LOGOUT", t) /\ ~Chooses(m, account[t])
    BY <1>5 DEF IsFor, Chooses, Request
  <2> QED BY <1>1, <1>2, <1>5, <2>1, <2>2, SoundAppend, LineTypes
<1> QED BY <1>4, <1>5

\* a selection,
LEMMA SelCharSound ==
    ASSUME SInv, NEW s \in Slots, NEW a \in Accounts, SelChar(s, a)
    PROVE  SessionInv'
<1> SUFFICES ASSUME NEW t \in Slots, Own(t)'
             PROVE  Sound(stage[t], account[t], replying, Line, toGame, t)'
  BY DEF SessionInv
<1>0. TypeOK
  BY LineTypes
<1>1. /\ stage[s] = "open" /\ account'[s] = a
      /\ t # s => stage'[t] = stage[t] /\ account'[t] = account[t]
      /\ UNCHANGED <<replying, toGame, early>>
  BY <1>0 DEF SelChar, TypeOK
<1>2. Own(t)
  BY <1>0, <1>1 DEF Own, Active, SelChar, TypeOK
<1>3. Sound(stage[t], account[t], replying, Line, toGame, t)
  BY <1>2 DEF SInv, SessionInv
<1>4. CASE Line' = Line /\ stage' = stage
  <2>1. CASE t = s
    BY <1>1, <1>3, <1>4, <2>1, SoundFresh DEF Sound
  <2> QED BY <1>1, <1>3, <1>4, <2>1
<1>5. CASE Line' = Append(Line, Request("SEL_CHAR", s, a)) /\ stage' = [stage EXCEPT ![s] = "select"]
  <2>1. CASE t = s
    <3>1. a # None /\ stage'[s] = "select"
      BY <1>0, <1>5, NoneAssumption DEF TypeOK
    <3> QED BY <1>1, <1>3, <1>5, <2>1, <3>1, SoundSelect, LineTypes
  <2>2. CASE t # s
    <3>1. account[t] # a
      BY <1>2, <2>2, NoneAssumption
         DEF SelChar, HeldElsewhere, Own, SInv, AccountInv, OneSessionPerAccount
    <3>2. LET m == Request("SEL_CHAR", s, a) IN
            ~IsFor(m, "LOGIN", t) /\ ~IsFor(m, "SEL_CHAR", t) /\ ~IsFor(m, "LOGOUT", t) /\ ~Chooses(m, account[t])
      BY <2>2, <3>1 DEF IsFor, Chooses, Request
    <3> QED BY <1>1, <1>3, <1>5, <2>2, <3>2, SoundAppend, LineTypes
  <2> QED BY <2>1, <2>2
<1>6. \/ Line' = Line /\ stage' = stage
      \/ Line' = Append(Line, Request("SEL_CHAR", s, a)) /\ stage' = [stage EXCEPT ![s] = "select"]
  BY <1>0, LineSame, LineAppended, MessageTypes DEF SelChar, agentVars
<1> QED BY <1>4, <1>5, <1>6

\* a disconnection,
LEMMA DisconnectSound ==
    ASSUME SInv, NEW s \in Slots, Disconnect(s)
    PROVE  SessionInv'
<1> SUFFICES ASSUME NEW t \in Slots, Own(t)'
             PROVE  Sound(stage[t], account[t], replying, Line, toGame, t)'
  BY DEF SessionInv
<1>0. TypeOK
  BY LineTypes
<1>1. /\ stage'[s] = "free"
      /\ t # s => stage'[t] = stage[t] /\ account'[t] = account[t]
      /\ UNCHANGED <<replying, toGame, early, hand>>
  BY <1>0 DEF Disconnect, TypeOK, agentVars
<1>2. t # s /\ Own(t)
  BY <1>1 DEF Own, Active
<1>3. Sound(stage[t], account[t], replying, Line, toGame, t)
  BY <1>2 DEF SInv, SessionInv
<1>4. Line' = Line \/ \E m \in Requests : Line' = Append(Line, m) /\ m = Request("LOGOUT", s, data[s].id)
  <2>1. CASE LogsOut(s)
    <3>1. data[s].id \in Accounts
      BY <1>0, <2>1 DEF LogsOut, Loaded, TypeOK, Names
    <3> QED BY <1>0, <1>1, <2>1, <3>1, MessageTypes, LinePut DEF Disconnect
  <2>2. CASE ~LogsOut(s)
    BY <1>1, <2>2, LineSame DEF Disconnect
  <2> QED BY <2>1, <2>2
<1>5. LET m == Request("LOGOUT", s, data[s].id) IN
        ~IsFor(m, "LOGIN", t) /\ ~IsFor(m, "SEL_CHAR", t) /\ ~IsFor(m, "LOGOUT", t) /\ ~Chooses(m, account[t])
  BY <1>2 DEF IsFor, Chooses, Request
<1> QED BY <1>1, <1>2, <1>3, <1>4, <1>5, SoundAppend, LineTypes

\* Requests that no order of the invariant speaks of.
Quiet(m) == m.kind \notin {"LOGIN", "SEL_CHAR", "LOGOUT", "LOGIN_INFO"}

\* What SaveRequest makes of the line.
LEMMA LineSaved ==
    ASSUME TypeOK, hand' = hand, NEW s \in Slots, toAgent' = SaveRequest(toAgent, s)
    PROVE  Line' = Line \/ \E m \in Requests : Quiet(m) /\ Line' = Append(Line, m)
<1>1. CASE Loaded(s) /\ data[s].account # None
  <2>1. data[s].id \in Accounts
    BY <1>1 DEF Loaded, TypeOK, Names
  <2>2. Request("DATASAVE", s, data[s].id) \in Requests /\ Quiet(Request("DATASAVE", s, data[s].id))
    BY <2>1, MessageTypes DEF Quiet, Request
  <2> QED BY <1>1, <2>2, LinePut DEF SaveRequest
<1>2. CASE ~(Loaded(s) /\ data[s].account # None)
  BY <1>2, LineSame DEF SaveRequest
<1> QED BY <1>1, <1>2

\* A save, or the log-out of an account, is asked for.
QuietAsk == /\ UNCHANGED <<gameVars, toGame, data, agentVars, database, history>>
            /\ Line' = Line \/ \E m \in Requests : Quiet(m) /\ Line' = Append(Line, m)

\* the requests that no order speaks of,
LEMMA QuietAsks ==
    ASSUME TypeOK, NEW s \in Slots, NEW a \in Accounts,
           SaveData(s) \/ LoginRefused(s, a) \/ KickOut(s, a)
    PROVE  QuietAsk
<1>1. CASE SaveData(s)
  BY <1>1, LineSaved DEF SaveData, QuietAsk, agentVars
<1>2. CASE LoginRefused(s, a)
  BY <1>2, LineSaved DEF LoginRefused, QuietAsk, agentVars
<1>3. CASE KickOut(s, a)
  <2>1. Request("KICKOUT", s, a) \in Requests /\ Quiet(Request("KICKOUT", s, a))
    BY MessageTypes DEF Quiet, Request
  <2> QED BY <1>3, <2>1, LineSaved, LinePut DEF KickOut, QuietAsk, agentVars
<1> QED BY <1>1, <1>2, <1>3

\* those keep the sessions sound,
LEMMA QuietSound ==
    ASSUME SInv, QuietAsk
    PROVE  SessionInv'
<1> SUFFICES ASSUME NEW t \in Slots, Own(t)'
             PROVE  Sound(stage[t], account[t], replying, Line, toGame, t)'
  BY DEF SessionInv
<1>1. Own(t) /\ UNCHANGED <<stage, account, replying, toGame>>
  BY DEF Own, Active, QuietAsk, gameVars, history
<1>2. Sound(stage[t], account[t], replying, Line, toGame, t)
  BY <1>1 DEF SInv, SessionInv
<1>3. \A m : Quiet(m) => ~IsFor(m, "LOGIN", t) /\ ~IsFor(m, "SEL_CHAR", t) /\ ~IsFor(m, "LOGOUT", t)
                         /\ ~Chooses(m, account[t])
  BY DEF Quiet, IsFor, Chooses
<1> QED BY <1>1, <1>2, <1>3, SoundAppend, LineTypes DEF QuietAsk

\* the entry in the game,
LEMMA LoginInfoSound ==
    ASSUME SInv, NEW id \in Names, SendLoginInfo(id)
    PROVE  SessionInv'
<1> SUFFICES ASSUME NEW t \in Slots, Own(t)'
             PROVE  Sound(stage[t], account[t], replying, Line, toGame, t)'
  BY DEF SessionInv
<1> DEFINE r == replying.slot
<1>0. TypeOK
  BY LineTypes
<1>1. /\ r \in Slots /\ replying' = Nobody
      /\ UNCHANGED <<account, toGame, early, hand>>
      /\ t # r => stage'[t] = stage[t]
      /\ t = r => stage'[t] = IF stage[t] = "select" THEN "game" ELSE stage[t]
  BY <1>0 DEF SendLoginInfo, TypeOK, agentVars, history
<1>2. Own(t)
  BY <1>1 DEF Own, Active
<1>3. Sound(stage[t], account[t], replying, Line, toGame, t)
  BY <1>2 DEF SInv, SessionInv
<1>4. Nobody.slot # t
  BY NoneAssumption DEF Nobody
<1>5. Sound(stage'[t], account[t], Nobody, Line, toGame, t)
  <2>1. CASE t = r
    BY <1>1, <1>3, <1>4, <2>1 DEF Sound, Chosen
  <2>2. CASE t # r
    BY <1>1, <1>3, <1>4, <2>2 DEF Sound, Chosen
  <2> QED BY <2>1, <2>2
<1>6. Line' = Line \/ Line' = Append(Line, Request("LOGIN_INFO", r, id))
  BY <1>0, <1>1, MessageTypes, LinePut DEF SendLoginInfo
<1>7. LET m == Request("LOGIN_INFO", r, id) IN
        ~IsFor(m, "LOGIN", t) /\ ~IsFor(m, "SEL_CHAR", t) /\ ~IsFor(m, "LOGOUT", t) /\ ~Chooses(m, account[t])
  BY DEF IsFor, Chooses, Request
<1> QED BY <1>1, <1>5, <1>6, <1>7, SoundAppend, LineTypes

\* and each answer.
LEMMA AnswersSound ==
    ASSUME SInv, NEW s \in Slots,
           AnswerDropped(s) \/ LoginAnswered(s) \/ SelectionFails(s) \/ SelectionSucceeds(s) \/ ClosingAnswer(s)
    PROVE  SessionInv'
<1> SUFFICES ASSUME NEW t \in Slots, Own(t)'
             PROVE  Sound(stage[t], account[t], replying, Line, toGame, t)'
  BY DEF SessionInv
<1>0. TypeOK
  BY LineTypes
<1>1. /\ toGame # <<>> /\ toGame' = Tail(toGame) /\ replying = Nobody
      /\ early' = early /\ Line' = Line
  BY LineSame DEF AnswerDropped, LoginAnswered, SelectionFails, SelectionSucceeds, ClosingAnswer,
                  AnswerFor, history, agentVars
<1>2. Nobody.slot # t
  BY NoneAssumption DEF Nobody
<1>3. ASSUME Own(t)
      PROVE  /\ Sound(stage[t], account[t], Nobody, Line, toGame, t)
             /\ Sound(stage[t], account[t], Nobody, Line, toGame', t)
  BY <1>1, <1>3, SoundHeard, LineTypes DEF SInv, SessionInv
<1>4. CASE AnswerDropped(s) \/ ClosingAnswer(s)
  <2>1. UNCHANGED <<stage, account, replying>>
    BY <1>4 DEF AnswerDropped, ClosingAnswer, gameVars
  <2>2. Own(t)
    BY <1>1, <2>1 DEF Own, Active
  <2> QED BY <1>1, <1>3, <2>1, <2>2
<1>5. CASE LoginAnswered(s)
  <2>1. /\ replying' = replying /\ IsFor(Head(toGame), "LOGIN", s)
        /\ t # s => stage'[t] = stage[t] /\ account'[t] = account[t]
        /\ t = s => stage'[t] = IF stage[t] = "login" THEN "open" ELSE stage[t]
    BY <1>0, <1>5 DEF LoginAnswered, AnswerFor, TypeOK, IsFor
  <2>2. Own(t)
    BY <1>1, <1>5, <2>1 DEF Own, Active, LoginAnswered
  <2>3. CASE t = s
    <3>1. Has(toGame, "LOGIN", t) /\ ~Has(toGame', "LOGIN", t)
      BY <1>1, <1>3, <2>1, <2>2, <2>3, TailHas, TailOrder, LineTypes DEF Sound, OneOut
    <3>2. stage'[t] = "open" /\ NoneOut(Line, toGame', "LOGIN", t) /\ NoneOut(Line, toGame', "SEL_CHAR", t)
      BY <1>3, <2>1, <2>2, <2>3, <3>1 DEF Sound, OneOut, NoneOut
    <3> QED BY <1>1, <1>2, <2>1, <3>2, SoundFresh
  <2>4. CASE t # s
    BY <1>1, <1>3, <2>1, <2>2, <2>4
  <2> QED BY <2>3, <2>4
<1>6. CASE SelectionFails(s)
  <2>1. /\ UNCHANGED <<replying, account>> /\ IsFor(Head(toGame), "SEL_CHAR", s)
        /\ t # s => stage'[t] = stage[t]
        /\ t = s => stage'[t] = IF stage[t] = "select" THEN "open" ELSE stage[t]
    BY <1>0, <1>6 DEF SelectionFails, AnswerFor, TypeOK, IsFor
  <2>2. Own(t)
    BY <1>1, <1>6, <2>1 DEF Own, Active, SelectionFails
  <2>3. CASE t = s
    <3>1. Has(toGame, "SEL_CHAR", t) /\ ~Has(toGame', "SEL_CHAR", t)
      BY <1>1, <1>3, <2>1, <2>2, <2>3, TailHas, TailOrder, LineTypes DEF Sound, OneOut
    <3>2. stage'[t] = "open" /\ NoneOut(Line, toGame', "LOGIN", t) /\ NoneOut(Line, toGame', "SEL_CHAR", t)
      BY <1>3, <2>1, <2>2, <2>3, <3>1 DEF Sound, OneOut, NoneOut
    <3> QED BY <1>1, <1>2, <2>1, <3>2, SoundFresh
  <2>4. CASE t # s
    BY <1>1, <1>3, <2>1, <2>2, <2>4
  <2> QED BY <2>3, <2>4
<1>7. CASE SelectionSucceeds(s)
  <2>1. /\ UNCHANGED <<stage, account>> /\ IsFor(Head(toGame), "SEL_CHAR", s) /\ IsOk(Head(toGame), s)
        /\ replying'.slot = s
    BY <1>0, <1>7, LineTypes DEF SelectionSucceeds, AnswerFor, TypeOK, IsFor, IsOk, Answers
  <2>2. Own(t)
    BY <1>1, <2>1 DEF Own, Active
  <2>3. CASE t = s
    <3>1. /\ Has(toGame, "SEL_CHAR", t) /\ ~Has(toGame', "SEL_CHAR", t) /\ HasOk(toGame, t)
      BY <1>1, <1>3, <2>1, <2>2, <2>3, TailHas, TailOrder, TailAsks, LineTypes DEF Sound, OneOut
    <3>2. /\ stage[t] = "select" /\ NoneOut(Line, toGame', "SEL_CHAR", t)
          /\ ~Has(Line, "LOGOUT", t) /\ ~HasChoice(Line, account[t])
      BY <1>3, <2>1, <2>2, <2>3, <3>1 DEF Sound, OneOut, NoneOut, Chosen
    <3>3. Sound(stage[t], account[t], replying', Line, toGame', t)
      BY <1>3, <2>2, <3>2 DEF Sound
    <3> QED BY <1>1, <2>1, <3>3
  <2>4. CASE t # s
    <3>1. Sound(stage[t], account[t], replying', Line, toGame', t)
      BY <1>2, <1>3, <2>1, <2>2, <2>4 DEF Sound, Chosen
    <3> QED BY <1>1, <2>1, <3>1
  <2> QED BY <2>3, <2>4
<1> QED BY <1>4, <1>5, <1>6, <1>7

\* Serving a request: it leaves the line, and an answer of its kind may follow.
Served == /\ UNCHANGED <<up, stage, account, replying, early>>
          /\ Line # <<>> /\ Line' = Tail(Line)
          /\ \/ toGame' = toGame
             \/ \E m \in Answers :
                  /\ toGame' = Append(toGame, m)
                  /\ \A k \in {"LOGIN", "SEL_CHAR"} : \A s : IsFor(m, k, s) => IsFor(Head(Line), k, s)

\* Serving keeps every session sound.
LEMMA ServedSound ==
    ASSUME SInv, Served
    PROVE  SessionInv'
<1> SUFFICES ASSUME NEW t \in Slots, Own(t)'
             PROVE  Sound(stage[t], account[t], replying, Line, toGame, t)'
  BY DEF SessionInv
<1>1. Own(t) /\ UNCHANGED <<stage, account, replying>>
  BY DEF Own, Active, Served
<1>2. Sound(stage[t], account[t], replying, Line, toGame, t)
  BY <1>1 DEF SInv, SessionInv
<1>3. CASE toGame' = toGame
  BY <1>1, <1>2, <1>3, SoundTail, LineTypes DEF Served
<1>4. ASSUME NEW m \in Answers, toGame' = Append(toGame, m),
             \A k \in {"LOGIN", "SEL_CHAR"} : \A s : IsFor(m, k, s) => IsFor(Head(Line), k, s)
      PROVE  Sound(stage[t], account[t], replying, Line, toGame, t)'
  <2>1. \A k \in {"LOGIN", "SEL_CHAR"} : IsFor(m, k, t) => IsFor(Head(Line), k, t)
    BY <1>4
  <2> QED BY <1>1, <1>2, <1>4, <2>1, SoundServe, LineTypes DEF Served
<1> QED BY <1>3, <1>4 DEF Served

\* The line of requests after a step of the agent: the request in its hand is
\* served, or the line is as it was.
HandServed == /\ hand # NoMessage /\ hand' = NoMessage /\ Line # <<>> /\ Head(Line) = hand
              /\ Line' = Tail(Line)

\* An answer that no selection or login waits for.
QuietAnswer(m) == m.kind \notin {"LOGIN", "SEL_CHAR"}

\* A job that ends serves the request in the hand, if there is one.
LEMMA HandDone ==
    ASSUME TypeOK, hand' = NoMessage, toAgent' = toAgent
    PROVE  \/ hand = NoMessage /\ Line' = Line
           \/ HandServed
BY LineServed, LineSame DEF HandServed

\* What the agent's threads leave alone.
AgentOnly == UNCHANGED <<up, stage, account, replying, early>>

\* A step of the agent that serves a login or a selection, whose answer may be
\* lost.
LEMMA AnswersServe ==
    ASSUME SInv, NEW ok \in BOOLEAN, AgentLogin(ok) \/ AgentLoad \/ AgentLoadFails
    PROVE  Served
<1>0. TypeOK
  BY LineTypes
<1>1. /\ AgentOnly /\ hand # NoMessage /\ hand' = NoMessage /\ toAgent' = toAgent
  BY DEF AgentLogin, AgentLoad, AgentLoadFails, Serves, AgentOnly, gameVars, history
<1>2. Line # <<>> /\ Head(Line) = hand /\ Line' = Tail(Line)
  BY <1>0, <1>1, LineServed
<1>3. hand.slot \in Slots
  BY <1>0, <1>1, HandTypes
<1>4. \E m \in Answers : /\ toGame' = Put(toGame, m)
                         /\ \A k \in {"LOGIN", "SEL_CHAR"} : \A s : IsFor(m, k, s) => IsFor(hand, k, s)
  <2>1. CASE AgentLogin(ok)
    <3>1. toGame' = Put(toGame, Answer("LOGIN", hand.slot, ok)) /\ hand.kind = "LOGIN"
      BY <2>1 DEF AgentLogin, Serves
    <3> QED BY <1>3, <3>1, MessageTypes DEF Answer, IsFor
  <2>2. CASE AgentLoad
    <3>1. toGame' = Put(toGame, Answer("SEL_CHAR", hand.slot, TRUE)) /\ hand.kind = "SEL_CHAR"
      BY <2>2 DEF AgentLoad, Serves
    <3> QED BY <1>3, <3>1, MessageTypes DEF Answer, IsFor
  <2>3. CASE AgentLoadFails
    <3>1. toGame' = Put(toGame, Answer("SEL_CHAR", hand.slot, FALSE)) /\ hand.kind = "SEL_CHAR"
      BY <2>3 DEF AgentLoadFails, Serves
    <3> QED BY <1>3, <3>1, MessageTypes DEF Answer, IsFor
  <2> QED BY <2>1, <2>2, <2>3
<1> QED BY <1>1, <1>2, <1>4 DEF Served, AgentOnly, Put

\* Any other step of the agent answers no login and no selection.
QuietServe == /\ AgentOnly
              /\ Line' = Line \/ HandServed
              /\ toGame' = toGame \/ \E m \in Answers : QuietAnswer(m) /\ toGame' = Append(toGame, m)

\* The end of a job answers a log-out at most,
LEMMA JobEnds ==
    ASSUME TypeOK, NEW w \in Workers, job[w] # Idle, EndJob(w), toAgent' = toAgent, AgentOnly
    PROVE  QuietServe
<1>1. CASE w = "reader"
  <2>1. Answer("LOGOUT", job[w].slot, TRUE) \in Answers /\ QuietAnswer(Answer("LOGOUT", job[w].slot, TRUE))
    BY JobTypes, MessageTypes DEF QuietAnswer, Answer
  <2> QED BY <1>1, <2>1, HandDone DEF EndJob, QuietServe, Put
<1>2. CASE w # "reader"
  BY <1>2, LineSame DEF EndJob, QuietServe
<1> QED BY <1>1, <1>2

\* so no step of a job answers a login or a selection,
LEMMA JobsQuiet ==
    ASSUME TypeOK, NEW w \in Workers,
           LogoutStep(w) \/ LogoutAccountFails(w) \/ LogoutSaveFails(w)
    PROVE  QuietServe
<1>1. AgentOnly /\ toAgent' = toAgent /\ job[w] # Idle
  BY AtWork DEF LogoutStep, LogoutOfNobody, LogoutAccount, LogoutSave, LogoutReset,
                LogoutAccountFails, LogoutSaveFails, AgentOnly, gameVars, history
<1>2. EndJob(w) \/ \E step \in {"save", "saveOnly", "reset"} : Step(w, step)
  BY DEF LogoutStep, LogoutOfNobody, LogoutAccount, LogoutSave, LogoutReset,
         LogoutAccountFails, LogoutSaveFails
<1>3. ASSUME NEW step, Step(w, step) PROVE QuietServe
  BY <1>1, <1>3, LineSame DEF Step, QuietServe
<1> QED BY <1>1, <1>2, <1>3, JobEnds

\* and neither does any other service.
LEMMA ServicesQuiet ==
    ASSUME TypeOK,
           \/ AgentRead \/ AgentLogout \/ AgentSave \/ AgentSaveFails \/ AgentLoginInfo
           \/ AgentKickOut \/ KeeperStart \/ HeartbeatLate \/ HeartbeatReceived \/ AgentCrash
           \/ \E t \in Slots : AgentEvict(t) \/ KeeperVisits(t)
    PROVE  QuietServe
<1>1. CASE AgentRead
  BY <1>1, LineRead DEF AgentRead, QuietServe, AgentOnly, gameVars, history
<1>2. CASE \/ AgentLogout \/ KeeperStart \/ HeartbeatLate \/ HeartbeatReceived
           \/ \E t \in Slots : AgentEvict(t) \/ KeeperVisits(t)
  BY <1>2, LineSame DEF AgentLogout, KeeperStart, HeartbeatLate, HeartbeatReceived, AgentEvict,
                        KeeperVisits, QuietServe, AgentOnly, gameVars, history, queues
<1>3. CASE AgentSave \/ AgentSaveFails \/ AgentKickOut \/ AgentCrash
  BY <1>3, HandDone DEF AgentSave, AgentSaveFails, AgentKickOut, AgentCrash,
                        QuietServe, AgentOnly, gameVars, history, queues
<1>4. CASE AgentLoginInfo
  <2>1. LET m == Answer("LOGIN_INFO", hand.slot, FALSE) IN m \in Answers /\ QuietAnswer(m)
    BY <1>4, HandTypes, MessageTypes DEF AgentLoginInfo, Serves, QuietAnswer, Answer
  <2> QED BY <1>4, <2>1, HandDone DEF AgentLoginInfo, QuietServe, AgentOnly, gameVars, history, Put
<1> QED BY <1>1, <1>2, <1>3, <1>4

\* Such steps keep every session sound.
LEMMA QuietServeSound ==
    ASSUME SInv, QuietServe
    PROVE  SessionInv'
<1> SUFFICES ASSUME NEW t \in Slots, Own(t)'
             PROVE  Sound(stage[t], account[t], replying, Line, toGame, t)'
  BY DEF SessionInv
<1>1. Own(t) /\ UNCHANGED <<stage, account, replying>>
  BY DEF Own, Active, QuietServe, AgentOnly
<1>2. Sound(stage[t], account[t], replying, Line, toGame, t)
  BY <1>1 DEF SInv, SessionInv
<1>3. Sound(stage[t], account[t], replying, Line, toGame', t)
  <2>1. \A m : QuietAnswer(m) => ~IsFor(m, "LOGIN", t) /\ ~IsFor(m, "SEL_CHAR", t)
    BY DEF QuietAnswer, IsFor
  <2> QED BY <1>2, <2>1, SoundAnswer, LineTypes DEF QuietServe
<1> QED BY <1>1, <1>3, SoundTail, LineTypes DEF QuietServe, HandServed

\* Play is invisible to the requests.
LEMMA PlaySound ==
    ASSUME SInv, NEW s \in Slots, Play(s)
    PROVE  SessionInv'
<1>1. UNCHANGED <<stage, account, replying, early, toGame, hand, toAgent>>
  BY DEF Play, gameVars, queues, agentVars, history
<1>2. Line' = Line
  BY <1>1, LineSame
<1> QED BY <1>1, <1>2 DEF SInv, SessionInv, Own, Active

\* Without the game server nobody is in a session.
LEMMA SessionsKept ==
    ASSUME SInv, Next
    PROVE  SessionInv' /\ DownIsEmpty'
<1>0. TypeOK
  BY LineTypes
<1>1. CASE ClientStep
  <2>1. SessionInv'
    <3>1. ASSUME NEW s \in Slots, Connect(s) \/ Disconnect(s) \/ Play(s) PROVE SessionInv'
      BY <3>1, ConnectSound, DisconnectSound, PlaySound
    <3>2. ASSUME NEW s \in Slots, NEW a \in Accounts, Login(s, a) \/ SelChar(s, a) PROVE SessionInv'
      BY <3>2, LoginSound, SelCharSound
    <3>3. ASSUME NEW s \in Slots, SaveData(s) PROVE SessionInv'
      <4>1. QuietAsk
        BY <1>0, <3>3, LineSaved DEF SaveData, QuietAsk, agentVars
      <4> QED BY <4>1, QuietSound
    <3>4. ASSUME NEW s \in Slots, NEW a \in Accounts, LoginRefused(s, a) \/ KickOut(s, a) PROVE SessionInv'
      BY <1>0, <3>4, QuietAsks, QuietSound
    <3> QED BY <1>1, <3>1, <3>2, <3>3, <3>4 DEF ClientStep
  <2>2. up
    BY <1>1 DEF ClientStep, SInv, DownIsEmpty, Connect, Active, Play, SaveData, Disconnect, Login,
       LoginRefused, SelChar, KickOut
  <2>3. up' = up
    BY <1>1 DEF ClientStep, Connect, Play, SaveData, Disconnect, Login,
       LoginRefused, SelChar, KickOut, gameVars
  <2> QED BY <2>1, <2>2, <2>3 DEF DownIsEmpty
<1>2. CASE AnswerStep
  <2>1. SessionInv'
    BY <1>2, LoginInfoSound, AnswersSound DEF AnswerStep
  <2>2. up /\ up' = up
    BY <1>2 DEF AnswerStep, SInv, DownIsEmpty, SendLoginInfo, AnswerDropped, LoginAnswered,
       SelectionFails, SelectionSucceeds, ClosingAnswer, AnswerFor, gameVars
  <2> QED BY <2>1, <2>2 DEF DownIsEmpty
<1>3. CASE Served \/ QuietServe
  BY <1>3, ServedSound, QuietServeSound DEF Served, QuietServe, AgentOnly, SInv, DownIsEmpty, Active
<1>4. CASE Crash
  BY <1>4 DEF Crash, DownIsEmpty, SessionInv, Own, Active
<1>5. CASE Restart
  BY <1>5 DEF Restart, SInv, DownIsEmpty, SessionInv, Own, Active
<1>6. ASSUME ReaderStep PROVE Served \/ QuietServe
  BY <1>0, <1>6, AnswersServe, JobsQuiet, ServicesQuiet DEF ReaderStep, Workers
<1>7. ASSUME KeeperStep \/ HeartbeatReceived PROVE QuietServe
  BY <1>0, <1>7, JobsQuiet, ServicesQuiet DEF KeeperStep, Workers
<1>8. ASSUME Fault PROVE Served \/ QuietServe \/ Crash
  BY <1>0, <1>8, AnswersServe, JobsQuiet, ServicesQuiet DEF Fault, Workers
<1> QED BY <1>1, <1>2, <1>3, <1>4, <1>5, <1>6, <1>7, <1>8 DEF Next


\* Every reachable state has sound sessions.
LEMMA SessionsSound == Spec => []SInv
<1>1. Init => SInv
  <2> SUFFICES ASSUME Init PROVE SInv
    OBVIOUS
  <2>1. AccountInv
    BY EmptyQueue
       DEF Init, AccountInv, TypeOK, Names, NoData, OneSessionPerAccount, AccountOfActive
  <2>2. DownIsEmpty /\ SessionInv
    BY DEF Init, DownIsEmpty, SessionInv, Own, Active
  <2> QED BY <2>1, <2>2 DEF SInv
<1>2. SInv /\ TypeOK' /\ [Next]_vars => SInv'
  <2> SUFFICES ASSUME SInv, TypeOK', [Next]_vars PROVE SInv'
    OBVIOUS
  <2>1. CASE UNCHANGED vars
    BY <2>1 DEF SInv, AccountInv, OneSessionPerAccount, AccountOfActive, Active, DownIsEmpty,
                SessionInv, Own, Line, vars, gameVars, queues, agentVars, history
  <2>2. CASE Next
    BY <2>2, AccountKept, SessionsKept DEF SInv, AccountInv
  <2> QED BY <2>1, <2>2
<1> QED BY <1>1, <1>2, TypeCorrect, PTL DEF Spec

\* No fault and no early leave has touched the account.
Spared(a) == a \notin harmed \cup {None}

\* A slot that was taken early belongs to accounts that are harmed already.
EarlyHarmed == \A s \in early :
    /\ ~Spared(data[s].id) /\ ~Spared(account[s])
    /\ \A a : Asks(Line, s, a) => a \in harmed

\* The session plays, or has been granted its character.
Playing(s) == Own(s) /\ (stage[s] = "game" \/ Chosen(replying, toGame, s))

\* Its slot holds its own character, unless it was harmed.
HoldsOwn == \A s \in Slots : Playing(s) =>
    /\ data[s].id \in {account[s], None}
    /\ account[s] \notin harmed => data[s].id = account[s]

\* A job of the reader serves the log-out or the eviction in its hand.
ReaderJob == job["reader"] # Idle =>
    /\ hand # NoMessage
    /\ \/ IsFor(hand, "LOGOUT", job["reader"].slot)
       \/ hand.kind = "SEL_CHAR" /\ data[job["reader"].slot].id \in {hand.id, None}

\* The heartbeat's thread takes characters from slots only after it harmed
\* them.
KeeperJob ==
    up /\ job["keeper"].step \in {"save", "saveOnly", "reset"} => ~Spared(data[job["keeper"].slot].id)

\* The steps of a job that are done: the row is deleted or was not there, then
\* the character is saved.
JobDone == \A w \in Workers : job[w] # Idle /\ Spared(data[job[w].slot].id) =>
    /\ job[w].step \in {"save", "saveOnly", "reset"} => data[job[w].slot].id \notin current
    /\ job[w].step = "reset" => data[job[w].slot].value = saved[data[job[w].slot].id]

\* A character is in its slot under its own account, unless it was harmed.
Filed == \A s \in Slots : Spared(data[s].id) => data[s].account = data[s].id

\* A character that still needs its log-out: it is not saved, it has a row of
\* CURRENTUSER, or the row is about to be inserted.
Precious(s) == /\ Spared(data[s].id)
               /\ \/ data[s].value # saved[data[s].id]
                  \/ data[s].id \in current
                  \/ HasInfo(Line, s, data[s].id)

\* While the game server runs, its session plays it or its log-out is asked
\* for; and no selection for its slot is served before a log-out.
PreciousGuarded == \A s \in Slots : Precious(s) =>
    /\ up => stage[s] = "game" \/ Has(Line, "LOGOUT", s)
    /\ Preceded(Line, s)

\* The row that is about to be inserted is of a loaded character, which
\* nothing takes from its slot before.
LoginInfoLoaded == \A s \in Slots, a \in Accounts : HasInfo(Line, s, a) /\ Spared(a) =>
    up /\ data[s].id = a /\ ClearBefore(Line, s, a)

\* A row of CURRENTUSER is of a loaded character.
CurrentLoaded == \A a \in current : Spared(a) => LoadedAnywhere(a)

\* The session that is being told that it may enter the game is still there.
ReplyingSound == replying # Nobody =>
    \/ ~Spared(replying.id)
    \/ Own(replying.slot) /\ replying.id = account[replying.slot]

\* The inductive invariant about characters.
DInv == /\ SInv /\ CopyInv
        /\ EarlyHarmed /\ HoldsOwn /\ ReaderJob /\ KeeperJob /\ JobDone /\ Filed
        /\ PreciousGuarded /\ LoginInfoLoaded /\ CurrentLoaded /\ ReplyingSound

-----------------------------------------------------------------------------
\* Nothing mends an account.
LEMMA HarmLasts ==
    ASSUME Next
    PROVE  /\ harmed \subseteq harmed'
           /\ \A a : Spared(a)' => Spared(a)
<1> USE DEF history
<1>1. ASSUME ClientStep PROVE harmed \subseteq harmed'
  BY <1>1 DEF ClientStep, Connect, Play, SaveData, Disconnect, Login, LoginRefused, SelChar, KickOut
<1>2. ASSUME AnswerStep PROVE harmed \subseteq harmed'
  BY <1>2 DEF AnswerStep, SendLoginInfo, AnswerDropped, LoginAnswered, SelectionFails,
              SelectionSucceeds, ClosingAnswer
<1>3. ASSUME NEW w \in Workers, LogoutStep(w) \/ LogoutAccountFails(w) \/ LogoutSaveFails(w)
      PROVE harmed \subseteq harmed'
  BY <1>3 DEF LogoutStep, LogoutOfNobody, LogoutAccount, LogoutSave, LogoutReset, HarmedBy,
              LogoutAccountFails, LogoutSaveFails
<1>4. ASSUME ReaderStep \/ KeeperStep PROVE harmed \subseteq harmed'
  BY <1>3, <1>4 DEF ReaderStep, KeeperStep, Workers, AgentRead, AgentLogout, AgentLoad, AgentSave,
              LoadInto, AgentLoginInfo, AgentKickOut, AgentLogin, AgentEvict, KeeperStart, KeeperVisits
<1>5. ASSUME Fault \/ HeartbeatReceived \/ Restart PROVE harmed \subseteq harmed'
  BY <1>3, <1>5 DEF Fault, AgentLoadFails, LoadInto, AgentSaveFails, HeartbeatLate,
              Crash, AgentCrash, HeartbeatReceived, Restart
<1> QED BY <1>1, <1>2, <1>4, <1>5 DEF Next, Spared

\* Which steps change who is where.
SessionSteps ==
    \/ \E s \in Slots : \/ Connect(s) \/ Disconnect(s) \/ LoginAnswered(s)
                        \/ SelectionFails(s) \/ SelectionSucceeds(s)
                        \/ \E a \in Accounts : Login(s, a) \/ SelChar(s, a)
    \/ \E id \in Names : SendLoginInfo(id)
    \/ Crash \/ Restart

\* All the others leave the sessions alone.
LEMMA OtherSessions ==
    ASSUME Next
    PROVE  SessionSteps \/ UNCHANGED <<up, stage, account, replying, early>>
<1>1. ASSUME ClientStep PROVE SessionSteps \/ UNCHANGED <<up, stage, account, replying, early>>
  BY <1>1 DEF ClientStep, SessionSteps, Play, SaveData, LoginRefused, KickOut, gameVars, history
<1>2. ASSUME AnswerStep PROVE SessionSteps \/ UNCHANGED <<up, stage, account, replying, early>>
  BY <1>2 DEF AnswerStep, SessionSteps, AnswerDropped, ClosingAnswer, gameVars, history
<1>3. ASSUME NEW w \in Workers, LogoutStep(w) \/ LogoutAccountFails(w) \/ LogoutSaveFails(w)
      PROVE UNCHANGED <<up, stage, account, replying, early>>
  BY <1>3 DEF LogoutStep, LogoutOfNobody, LogoutAccount, LogoutSave, LogoutReset,
              LogoutAccountFails, LogoutSaveFails, gameVars, history
<1>4. ASSUME ReaderStep \/ KeeperStep PROVE UNCHANGED <<up, stage, account, replying, early>>
  BY <1>3, <1>4 DEF ReaderStep, KeeperStep, Workers, AgentRead, AgentLogout, AgentLoad, AgentSave,
              AgentLoginInfo, AgentKickOut, AgentLogin, AgentEvict, KeeperStart, KeeperVisits,
              gameVars, history
<1>5. ASSUME Fault \/ HeartbeatReceived
      PROVE SessionSteps \/ UNCHANGED <<up, stage, account, replying, early>>
  BY <1>3, <1>5 DEF Fault, SessionSteps, AgentLoadFails, AgentSaveFails, HeartbeatLate,
              AgentCrash, HeartbeatReceived, gameVars, history
<1> QED BY <1>1, <1>2, <1>4, <1>5 DEF Next, SessionSteps

\* Which steps put whose character where.
IdSteps == AgentLoad \/ AgentLoadFails \/ Restart \/ \E w \in Workers : LogoutReset(w)

\* All the others leave every character in its slot, and only play changes it.
LEMMA OtherIds ==
    ASSUME TypeOK, Next
    PROVE  \/ IdSteps
           \/ \A s \in Slots : /\ data'[s].id = data[s].id
                               /\ data'[s] = data[s] \/ Play(s)
<1>1. CASE UNCHANGED data
  BY <1>1
<1>2. ASSUME NEW s \in Slots, Play(s)
      PROVE  \A t \in Slots : data'[t].id = data[t].id /\ (data'[t] = data[t] \/ t = s)
  BY <1>2 DEF Play, TypeOK
<1>3. ASSUME NEW w \in Workers, LogoutSave(w) PROVE UNCHANGED data
  BY <1>3 DEF LogoutSave
<1>4. ASSUME AgentSave PROVE UNCHANGED data
  BY <1>4 DEF AgentSave
<1> QED BY <1>1, <1>2, <1>3, <1>4, OtherSteps DEF DataSteps, IdSteps

\* Which steps add to the requests, and what.
LEMMA LineSteps ==
    ASSUME SInv, Next
    PROVE  \/ Line' = Line
           \/ HandServed
           \/ Restart
           \/ \E m \in Requests : Quiet(m) /\ Line' = Append(Line, m)
           \/ \E s \in Slots, a \in Accounts :
                 Login(s, a) /\ Line' = Append(Line, Request("LOGIN", s, a))
           \/ \E s \in Slots, a \in Accounts :
                 SelChar(s, a) /\ Line' = Append(Line, Request("SEL_CHAR", s, a))
           \/ \E s \in Slots :
                 Disconnect(s) /\ LogsOut(s) /\ Line' = Append(Line, Request("LOGOUT", s, data[s].id))
           \/ \E id \in Names :
                 SendLoginInfo(id) /\ Line' = Append(Line, Request("LOGIN_INFO", replying.slot, id))
<1> DEFINE Goal ==
           \/ Line' = Line
           \/ HandServed
           \/ Restart
           \/ \E m \in Requests : Quiet(m) /\ Line' = Append(Line, m)
           \/ \E s \in Slots, a \in Accounts :
                 Login(s, a) /\ Line' = Append(Line, Request("LOGIN", s, a))
           \/ \E s \in Slots, a \in Accounts :
                 SelChar(s, a) /\ Line' = Append(Line, Request("SEL_CHAR", s, a))
           \/ \E s \in Slots :
                 Disconnect(s) /\ LogsOut(s) /\ Line' = Append(Line, Request("LOGOUT", s, data[s].id))
           \/ \E id \in Names :
                 SendLoginInfo(id) /\ Line' = Append(Line, Request("LOGIN_INFO", replying.slot, id))
<1>0. TypeOK
  BY LineTypes
<1>1. ASSUME NEW s \in Slots, Connect(s) \/ Play(s) PROVE Line' = Line
  BY <1>1, LineSame DEF Connect, Play, queues, agentVars
<1>2. ASSUME NEW s \in Slots, SaveData(s) PROVE Goal
  BY <1>0, <1>2, LineSaved DEF SaveData, agentVars
<1>3. ASSUME NEW s \in Slots, NEW a \in Accounts, LoginRefused(s, a) \/ KickOut(s, a) PROVE Goal
  BY <1>0, <1>3, QuietAsks DEF QuietAsk
<1>4. ASSUME NEW s \in Slots, Disconnect(s) PROVE Goal
  <2>0. hand' = hand
    BY <1>4 DEF Disconnect, agentVars
  <2>1. CASE LogsOut(s)
    <3>1. data[s].id \in Accounts
      BY <1>0, <2>1 DEF LogsOut, Loaded, TypeOK, Names
    <3>2. toAgent' = Put(toAgent, Request("LOGOUT", s, data[s].id))
      BY <1>4, <2>1 DEF Disconnect
    <3>3. Line' = Line \/ Line' = Append(Line, Request("LOGOUT", s, data[s].id))
      <4>1. Request("LOGOUT", s, data[s].id) \in Requests
        BY <3>1, MessageTypes
      <4> HIDE DEF Goal
      <4> QED BY <1>0, <2>0, <3>2, <4>1, LinePut
    <3> QED BY <1>4, <2>1, <3>3
  <2>2. CASE ~LogsOut(s)
    BY <1>4, <2>0, <2>2, LineSame DEF Disconnect
  <2> QED BY <2>1, <2>2
<1>5. ASSUME NEW s \in Slots, NEW a \in Accounts, Login(s, a) PROVE Goal
  <2>1. hand' = hand /\ toAgent' = Append(toAgent, Request("LOGIN", s, a))
    BY <1>5 DEF Login, agentVars
  <2> QED BY <1>0, <1>5, <2>1, LineAppended, MessageTypes
<1>6. ASSUME NEW s \in Slots, NEW a \in Accounts, SelChar(s, a) PROVE Goal
  <2>1. hand' = hand /\ (toAgent' = toAgent \/ toAgent' = Append(toAgent, Request("SEL_CHAR", s, a)))
    BY <1>6 DEF SelChar, agentVars
  <2> QED BY <1>0, <1>6, <2>1, LineAppended, LineSame, MessageTypes
<1>7. ASSUME NEW id \in Names, SendLoginInfo(id) PROVE Goal
  <2>1. /\ hand' = hand /\ replying.slot \in Slots
        /\ toAgent' = Put(toAgent, Request("LOGIN_INFO", replying.slot, id))
    BY <1>0, <1>7 DEF SendLoginInfo, agentVars, TypeOK
  <2>2. Request("LOGIN_INFO", replying.slot, id) \in Requests
    BY <2>1, MessageTypes
  <2>3. Line' = Line \/ Line' = Append(Line, Request("LOGIN_INFO", replying.slot, id))
    <3> HIDE DEF Goal
    <3> QED BY <1>0, <2>1, <2>2, LinePut
  <2> QED BY <1>7, <2>3
<1>8. CASE AnswerStep
  <2>1. ASSUME NEW s \in Slots, AnswerDropped(s) \/ LoginAnswered(s) \/ SelectionFails(s)
                                \/ SelectionSucceeds(s) \/ ClosingAnswer(s)
        PROVE  Line' = Line
    BY <2>1, LineSame DEF AnswerDropped, LoginAnswered, SelectionFails, SelectionSucceeds,
       ClosingAnswer, agentVars
  <2> QED BY <1>7, <1>8, <2>1 DEF AnswerStep
<1>9. ASSUME NEW w \in Workers, LogoutStep(w) \/ LogoutAccountFails(w) \/ LogoutSaveFails(w)
      PROVE  Line' = Line \/ HandServed
  BY <1>0, <1>9, JobsQuiet DEF QuietServe
<1>10. ASSUME NEW ok \in BOOLEAN, AgentLogin(ok) \/ AgentLoad \/ AgentLoadFails PROVE HandServed
  <2>1. hand # NoMessage /\ hand' = NoMessage /\ toAgent' = toAgent
    BY <1>10 DEF AgentLogin, AgentLoad, AgentLoadFails, Serves
  <2> QED BY <1>0, <2>1, LineServed DEF HandServed
<1>11. CASE ReaderStep
  BY <1>0, <1>9, <1>10, <1>11, ServicesQuiet DEF ReaderStep, Workers, QuietServe
<1>12. CASE KeeperStep \/ HeartbeatReceived
  BY <1>0, <1>9, <1>12, ServicesQuiet DEF KeeperStep, Workers, QuietServe
<1>13. CASE Fault
  <2>1. CASE Crash
    BY <2>1, LineSame DEF Crash, queues, agentVars
  <2> QED BY <1>0, <1>9, <1>10, <1>13, <2>1, ServicesQuiet DEF Fault, QuietServe
<1>14. CASE ClientStep
  BY <1>1, <1>2, <1>3, <1>4, <1>5, <1>6, <1>14 DEF ClientStep
<1> QED BY <1>8, <1>11, <1>12, <1>13, <1>14 DEF Next

\* A request in the agent's hand is the first of the line.
LEMMA HandInLine ==
    ASSUME TypeOK, hand # NoMessage
    PROVE  /\ Line # <<>> /\ Head(Line) = hand
           /\ \A k, s : IsFor(hand, k, s) => Has(Line, k, s)
           /\ \A s, a : IsInfo(hand, s, a) => HasInfo(Line, s, a)
           /\ \A s, a : IsFor(hand, "SEL_CHAR", s) /\ hand.id = a => Asks(Line, s, a)
           /\ \A a : Chooses(hand, a) => HasChoice(Line, a)
<1>1. hand \in Requests /\ toAgent \in Seq(Requests)
  BY DEF TypeOK, QueueOf
<1>2. ASSUME NEW q \in Seq(Requests), NEW m \in Requests
      PROVE  <<m>> \o q \in Seq(Requests) /\ <<m>> \o q # <<>> /\ Head(<<m>> \o q) = m
  OBVIOUS
<1>3. Line \in Seq(Requests) /\ Line # <<>> /\ Head(Line) = hand
  BY <1>1, <1>2 DEF Line
<1> QED BY <1>3, TailHas, TailInfo, TailAsks

\* After a restart of the game server only that one is left.
LEMMA RestartLine ==
    ASSUME TypeOK, Restart
    PROVE  /\ Line' = <<>> \/ (hand # NoMessage /\ Line' = <<hand>>)
           /\ \A s, a : Asks(Line', s, a) => Asks(Line, s, a)
           /\ \A s, a : HasInfo(Line', s, a) => HasInfo(Line, s, a)
           /\ \A s, a : ClearBefore(Line', s, a)
<1>1. Line' = <<>> \/ (hand # NoMessage /\ Line' = <<hand>>)
  BY LineEmptied DEF Restart, agentVars
<1>2. CASE Line' = <<>>
  BY <1>1, <1>2 DEF Asks, HasInfo, ClearBefore
<1>3. CASE hand # NoMessage /\ Line' = <<hand>>
  <2>1. DOMAIN Line' = {1} /\ Line'[1] = hand
    BY <1>3
  <2>2. \A s, a : ClearBefore(Line', s, a)
    BY <2>1 DEF ClearBefore
  <2>3. ASSUME NEW s, NEW a, Asks(Line', s, a) PROVE Asks(Line, s, a)
    <3>1. IsFor(hand, "SEL_CHAR", s) /\ hand.id = a
      BY <2>1, <2>3 DEF Asks
    <3> QED BY <1>3, <3>1, HandInLine
  <2>4. ASSUME NEW s, NEW a, HasInfo(Line', s, a) PROVE HasInfo(Line, s, a)
    <3>1. IsInfo(hand, s, a)
      BY <2>1, <2>4 DEF HasInfo
    <3> QED BY <1>3, <3>1, HandInLine
  <2> QED BY <1>3, <2>2, <2>3, <2>4
<1> QED BY <1>1, <1>2, <1>3

\* A quiet request is none of those.
LEMMA QuietFacts ==
    ASSUME NEW m, Quiet(m)
    PROVE  /\ \A k \in {"LOGIN", "SEL_CHAR", "LOGOUT"} : \A s : ~IsFor(m, k, s)
           /\ \A a : ~Chooses(m, a)
           /\ \A s, a : ~IsInfo(m, s, a)
BY DEF Quiet, IsFor, Chooses, IsInfo

\* What a step makes of the requests of the line that the invariant speaks of.
LEMMA LineAsks ==
    ASSUME SInv, Next, NEW s, NEW a, Asks(Line', s, a)
    PROVE  Asks(Line, s, a) \/ (s \in Slots /\ a \in Accounts /\ SelChar(s, a))
<1>1. Line \in Seq(Requests) /\ TypeOK
  BY LineTypes
<1>2. CASE Line' = Line
  BY <1>2
<1>3. CASE HandServed
  BY <1>1, <1>3, TailAsks DEF HandServed
<1>4. CASE Restart
  BY <1>1, <1>4, RestartLine
<1>5. ASSUME NEW m, Line' = Append(Line, m), \A t : ~IsFor(m, "SEL_CHAR", t)
      PROVE  Asks(Line, s, a)
  BY <1>1, <1>5, AppendAsks
<1>6. ASSUME NEW t \in Slots, NEW b \in Accounts, SelChar(t, b),
             Line' = Append(Line, Request("SEL_CHAR", t, b))
      PROVE  Asks(Line, s, a) \/ (s = t /\ a = b)
  <2>1. LET m == Request("SEL_CHAR", t, b) IN IsFor(m, "SEL_CHAR", s) /\ m.id = a => s = t /\ a = b
    BY DEF IsFor, Request
  <2> QED BY <1>1, <1>6, <2>1, AppendAsks
<1>7. \A k \in {"LOGIN", "LOGOUT", "LOGIN_INFO"} : \A t, b, u : ~IsFor(Request(k, t, b), "SEL_CHAR", u)
  BY DEF IsFor, Request
<1> QED BY <1>2, <1>3, <1>4, <1>5, <1>6, <1>7, LineSteps, QuietFacts

\* A row is asked for by the entry in the game only.
LEMMA LineInfos ==
    ASSUME SInv, Next, NEW s, NEW a, HasInfo(Line', s, a)
    PROVE  HasInfo(Line, s, a) \/ (a \in Names /\ s = replying.slot /\ SendLoginInfo(a))
<1>1. Line \in Seq(Requests) /\ TypeOK
  BY LineTypes
<1>2. CASE Line' = Line
  BY <1>2
<1>3. CASE HandServed
  BY <1>1, <1>3, TailInfo DEF HandServed
<1>4. CASE Restart
  BY <1>1, <1>4, RestartLine
<1>5. ASSUME NEW m, Line' = Append(Line, m), \A t, b : ~IsInfo(m, t, b)
      PROVE  HasInfo(Line, s, a)
  BY <1>1, <1>5, AppendInfo
<1>6. ASSUME NEW id \in Names, SendLoginInfo(id),
             Line' = Append(Line, Request("LOGIN_INFO", replying.slot, id))
      PROVE  HasInfo(Line, s, a) \/ (s = replying.slot /\ a = id)
  <2>1. IsInfo(Request("LOGIN_INFO", replying.slot, id), s, a) => s = replying.slot /\ a = id
    BY DEF IsInfo, Request
  <2> QED BY <1>1, <1>6, <2>1, AppendInfo
<1>7. \A k \in {"LOGIN", "LOGOUT", "SEL_CHAR"} : \A t, b, u, c : ~IsInfo(Request(k, t, b), u, c)
  BY DEF IsInfo, Request
<1> QED BY <1>2, <1>3, <1>4, <1>5, <1>6, <1>7, LineSteps, QuietFacts

\* Nothing gets ahead of a row that is in the line; the entry in the game puts
\* a new one.
LEMMA LineClear ==
    ASSUME SInv, Next, NEW s, NEW a, ClearBefore(Line, s, a)
    PROVE  ClearBefore(Line', s, a) \/ (a \in Names /\ s = replying.slot /\ SendLoginInfo(a))
<1>1. Line \in Seq(Requests) /\ TypeOK
  BY LineTypes
<1>2. CASE Line' = Line
  BY <1>2
<1>3. CASE HandServed
  BY <1>1, <1>3, TailInfo DEF HandServed
<1>4. CASE Restart
  BY <1>1, <1>4, RestartLine
<1>5. ASSUME NEW m, Line' = Append(Line, m), \A t, b : ~IsInfo(m, t, b)
      PROVE  ClearBefore(Line', s, a)
  BY <1>1, <1>5, AppendInfo
<1>6. ASSUME NEW id \in Names, SendLoginInfo(id),
             Line' = Append(Line, Request("LOGIN_INFO", replying.slot, id))
      PROVE  ClearBefore(Line', s, a) \/ (s = replying.slot /\ a = id)
  <2>1. IsInfo(Request("LOGIN_INFO", replying.slot, id), s, a) => s = replying.slot /\ a = id
    BY DEF IsInfo, Request
  <2> QED BY <1>1, <1>6, <2>1, AppendInfo
<1>7. \A k \in {"LOGIN", "LOGOUT", "SEL_CHAR"} : \A t, b, u, c : ~IsInfo(Request(k, t, b), u, c)
  BY DEF IsInfo, Request
<1> QED BY <1>2, <1>3, <1>4, <1>5, <1>6, <1>7, LineSteps, QuietFacts

\* A log-out leaves the line when it is served or the game server restarts,
\* and a selection joins the line behind it.
LEMMA LineLogouts ==
    ASSUME SInv, Next, NEW s
    PROVE  \/ /\ Has(Line, "LOGOUT", s) => Has(Line', "LOGOUT", s)
              /\ Preceded(Line, s) => Preceded(Line', s)
           \/ HandServed /\ IsFor(hand, "LOGOUT", s)
           \/ Restart
           \/ /\ s \in Slots /\ \E a \in Accounts : SelChar(s, a)
              /\ Has(Line, "LOGOUT", s) => Has(Line', "LOGOUT", s)
              /\ Has(Line, "LOGOUT", s) /\ Preceded(Line, s) => Preceded(Line', s)
<1>1. Line \in Seq(Requests) /\ TypeOK
  BY LineTypes
<1>2. CASE Line' = Line
  BY <1>2
<1>3. CASE HandServed
  BY <1>1, <1>3, TailHas, TailOrder DEF HandServed
<1>5. ASSUME NEW m, Line' = Append(Line, m), ~IsFor(m, "SEL_CHAR", s)
      PROVE  /\ Has(Line, "LOGOUT", s) => Has(Line', "LOGOUT", s)
             /\ Preceded(Line, s) => Preceded(Line', s)
  BY <1>1, <1>5, AppendHas, AppendOrder
<1>6. ASSUME NEW t \in Slots, NEW b \in Accounts, SelChar(t, b),
             Line' = Append(Line, Request("SEL_CHAR", t, b))
      PROVE  /\ Has(Line, "LOGOUT", s) => Has(Line', "LOGOUT", s)
             /\ Has(Line, "LOGOUT", s) /\ Preceded(Line, s) => Preceded(Line', s)
             /\ s # t => (Preceded(Line, s) => Preceded(Line', s))
  <2>1. IsFor(Request("SEL_CHAR", t, b), "SEL_CHAR", s) => s = t
    BY DEF IsFor, Request
  <2> QED BY <1>1, <1>6, <2>1, AppendHas, AppendOrder
<1>7. \A k \in {"LOGIN", "LOGOUT", "LOGIN_INFO"} : \A t, b, u : ~IsFor(Request(k, t, b), "SEL_CHAR", u)
  BY DEF IsFor, Request
<1> QED BY <1>2, <1>3, <1>5, <1>6, <1>7, LineSteps, QuietFacts

\* What the invariant gives each of the following lemmas.
LEMMA Facts ==
    ASSUME DInv
    PROVE  /\ TypeOK /\ SInv /\ CopyInv /\ AccountInv /\ DownIsEmpty /\ SessionInv
           /\ \A s, a : Asks(Line, s, a) => a \in Accounts
<1>1. TypeOK /\ SInv /\ CopyInv /\ AccountInv /\ DownIsEmpty /\ SessionInv /\ Line \in Seq(Requests)
  BY LineTypes DEF DInv, SInv
<1>2. ASSUME NEW s, NEW a, Asks(Line, s, a) PROVE a \in Accounts
  <2>1. PICK i \in DOMAIN Line : IsFor(Line[i], "SEL_CHAR", s) /\ Line[i].id = a
    BY <1>2 DEF Asks
  <2>2. Line[i] \in Requests
    BY <1>1
  <2> QED BY <2>1, <2>2 DEF Requests, IsFor
<1> QED BY <1>1, <1>2

\* Where another character gets in a slot.
LEMMA IdChange ==
    ASSUME TypeOK, Next, NEW s \in Slots
    PROVE  \/ /\ data'[s].id = data[s].id
              /\ data'[s] = data[s] \/ Play(s)
           \/ /\ data'[s] = NoData /\ data'[s].id = None
              /\ Restart \/ \E w \in Workers : LogoutReset(w) /\ s = job[w].slot
           \/ /\ AgentLoad \/ AgentLoadFails
              /\ Loads(hand.slot, hand.id) /\ ~LoadedAnywhere(hand.id)
              /\ s = hand.slot /\ data'[s].id = hand.id /\ data'[s].value = saved[hand.id]
              /\ data'[s].account = hand.id \/ hand.id \in harmed'
<1>1. CASE AgentLoad \/ AgentLoadFails
  <2>1. hand.slot \in Slots /\ hand.id \in Accounts /\ ~LoadedAnywhere(hand.id)
    BY <1>1, HandTypes DEF AgentLoad, AgentLoadFails, Serves
  <2>2. CASE Loads(hand.slot, hand.id)
    <3>1. PICK acc \in Names : LoadInto(hand.slot, hand.id, acc)
      BY <2>2 DEF Loads
    <3>2. s # hand.slot => data'[s] = data[s]
      BY <2>1, <3>1 DEF LoadInto, TypeOK
    <3>3. s = hand.slot => /\ data'[s].id = hand.id /\ data'[s].value = saved[hand.id]
                           /\ data'[s].account = hand.id \/ hand.id \in harmed'
      BY <2>1, <3>1 DEF LoadInto, TypeOK
    <3> QED BY <1>1, <2>1, <2>2, <3>2, <3>3
  <2>3. CASE ~Loads(hand.slot, hand.id)
    BY <1>1, <2>1, <2>3 DEF AgentLoad, AgentLoadFails, Loads, Names, TypeOK
  <2> QED BY <2>2, <2>3
<1>2. ASSUME NEW w \in Workers, LogoutReset(w)
      PROVE  data'[s] = data[s] \/ (data'[s] = NoData /\ s = job[w].slot)
  BY <1>2 DEF LogoutReset, TypeOK
<1>3. CASE Restart
  BY <1>3 DEF Restart, NoData
<1>4. NoData.id = None
  BY DEF NoData
<1>5. CASE \E w \in Workers : LogoutReset(w)
  <2>1. PICK w \in Workers : LogoutReset(w)
    BY <1>5
  <2>2. data'[s] = data[s] \/ (data'[s] = NoData /\ s = job[w].slot)
    BY <1>2, <2>1
  <2>3. CASE data'[s] = data[s]
    BY <2>3
  <2>4. CASE data'[s] = NoData /\ s = job[w].slot
    BY <1>4, <2>1, <2>4
  <2> QED BY <2>2, <2>3, <2>4
<1>6. IdSteps \/ (data'[s].id = data[s].id /\ (data'[s] = data[s] \/ Play(s)))
  BY OtherIds
<1> QED BY <1>1, <1>3, <1>5, <1>6 DEF IdSteps

\* Every step keeps EarlyHarmed.
LEMMA EarlyKept ==
    ASSUME DInv, Next
    PROVE  EarlyHarmed'
<1> SUFFICES ASSUME NEW s \in early'
             PROVE  /\ ~Spared(data[s].id)' /\ ~Spared(account[s])'
                    /\ \A a : Asks(Line', s, a) => a \in harmed'
  BY DEF EarlyHarmed
<1>0. TypeOK /\ SInv
  BY Facts
<1>1. harmed \subseteq harmed' /\ \A a : Spared(a)' => Spared(a)
  BY HarmLasts
<1>2. CASE s \notin early
  <2>1. Connect(s) /\ s \in Slots /\ Stale(s)
    <3>1. ASSUME NEW t \in Slots, Connect(t) PROVE s = t /\ Stale(t)
      BY <1>2, <3>1 DEF Connect
    <3>2. (\E t \in Slots : Connect(t)) \/ early' = early
      BY OtherSessions DEF SessionSteps, Disconnect, LoginAnswered, SelectionFails,
         SelectionSucceeds, Login, SelChar, SendLoginInfo, Crash, Restart, history
    <3> QED BY <1>2, <3>1, <3>2
  <2>2. /\ harmed' = harmed \cup Involved(s) /\ Line' = Line
        /\ account' = account /\ data' = data
    BY <2>1, LineSame DEF Connect, queues, agentVars
  <2>3. data[s].id \in Names /\ account[s] \in Names
    BY <1>0, <2>1 DEF TypeOK
  <2>4. \A a \in Accounts : account[s] = a \/ data[s].id = a \/ Asks(Line, s, a) => a \in harmed'
    BY <1>0, <2>2, InvolvedMeans
  <2> QED BY <2>2, <2>3, <2>4, Facts DEF Spared, Names
<1>3. CASE s \in early
  <2>0. s \in Slots
    BY <1>0, <1>3 DEF TypeOK
  <2>1. /\ ~Spared(data[s].id) /\ ~Spared(account[s])
        /\ \A a : Asks(Line, s, a) => a \in harmed
    BY <1>3 DEF DInv, EarlyHarmed
  <2>2. ASSUME NEW a, Asks(Line', s, a) PROVE a \in harmed'
    <3>1. CASE a \in Accounts /\ SelChar(s, a)
      BY <1>3, <3>1 DEF SelChar
    <3> QED BY <1>0, <1>1, <2>1, <2>2, <3>1, LineAsks
  <2>3. ~Spared(data[s].id)'
    <3>1. CASE data'[s].id = data[s].id \/ data'[s].id = None
      BY <1>1, <2>1, <3>1 DEF Spared
    <3>2. CASE (AgentLoad \/ AgentLoadFails) /\ s = hand.slot /\ data'[s].id = hand.id
      <4>1. hand # NoMessage /\ IsFor(hand, "SEL_CHAR", s)
        BY <3>2 DEF AgentLoad, AgentLoadFails, Serves, IsFor
      <4>2. hand.id \in harmed
        BY <1>0, <2>1, <4>1, HandInLine
      <4> QED BY <1>1, <3>2, <4>2 DEF Spared
    <3> QED BY <1>0, <2>0, <3>1, <3>2, IdChange
  <2>4. ~Spared(account[s])'
    <3>1. CASE account'[s] = account[s] \/ account'[s] = None
      BY <1>1, <2>1, <3>1 DEF Spared
    <3>2. ASSUME NEW a \in Accounts, Login(s, a) \/ SelChar(s, a) PROVE ~Spared(account[s])'
      BY <1>0, <1>3, <2>0, <3>2 DEF Login, SelChar, TypeOK, Spared
    <3>3. \/ account'[s] = account[s] \/ account'[s] = None
          \/ \E a \in Accounts : Login(s, a) \/ SelChar(s, a)
      <4>1. ASSUME NEW t \in Slots, Connect(t) \/ Disconnect(t) \/ LoginAnswered(t)
                                    \/ SelectionFails(t) \/ SelectionSucceeds(t)
            PROVE account'[s] = account[s] \/ account'[s] = None
        BY <1>0, <2>0, <4>1 DEF Connect, Disconnect, LoginAnswered, SelectionFails, SelectionSucceeds, TypeOK
      <4>2. ASSUME NEW t \in Slots, NEW a \in Accounts, Login(t, a) \/ SelChar(t, a)
            PROVE s = t \/ account'[s] = account[s]
        BY <1>0, <2>0, <4>2 DEF Login, SelChar, TypeOK
      <4>3. ASSUME NEW id \in Names, SendLoginInfo(id) PROVE account' = account
        BY <4>3 DEF SendLoginInfo
      <4>4. ASSUME Crash \/ Restart PROVE account'[s] = account[s] \/ account'[s] = None
        BY <2>0, <4>4 DEF Crash, Restart
      <4> QED BY <4>1, <4>2, <4>3, <4>4, OtherSessions DEF SessionSteps
    <3> QED BY <3>1, <3>2, <3>3
  <2> QED BY <2>2, <2>3, <2>4
<1> QED BY <1>2, <1>3

-----------------------------------------------------------------------------
\* A worker's job: a new one, the next step, or its end.
LEMMA JobSteps ==
    ASSUME TypeOK, Next, NEW w \in Workers
    PROVE  \/ job'[w] = job[w] \/ job'[w] = Idle
           \/ job'[w].step = "test" /\ (AgentLogout \/ \E t \in Slots : AgentEvict(t) \/ KeeperVisits(t))
           \/ LogoutAccount(w) /\ job'[w].step \in {"save", "saveOnly"} /\ job'[w].slot = job[w].slot
           \/ LogoutAccountFails(w) /\ job'[w].step = "saveOnly" /\ job'[w].slot = job[w].slot
           \/ LogoutSave(w) /\ At(w, "save") /\ job'[w].step = "reset" /\ job'[w].slot = job[w].slot
<1> DEFINE Goal == 
           \/ job'[w] = job[w] \/ job'[w] = Idle
           \/ job'[w].step = "test" /\ (AgentLogout \/ \E t \in Slots : AgentEvict(t) \/ KeeperVisits(t))
           \/ LogoutAccount(w) /\ job'[w].step \in {"save", "saveOnly"} /\ job'[w].slot = job[w].slot
           \/ LogoutAccountFails(w) /\ job'[w].step = "saveOnly" /\ job'[w].slot = job[w].slot
           \/ LogoutSave(w) /\ At(w, "save") /\ job'[w].step = "reset" /\ job'[w].slot = job[w].slot
<1>1. job \in [Workers -> Jobs \cup {Idle}]
  BY DEF TypeOK
<1>2. ASSUME UNCHANGED agentVars \/ job' = job PROVE Goal
  BY <1>2 DEF agentVars
<1>3. ASSUME NEW v \in Workers, EndJob(v) PROVE Goal
  BY <1>1, <1>3 DEF EndJob
<1>4. ASSUME NEW v \in Workers, NEW step \in {"save", "saveOnly", "reset"}, Step(v, step), job[v] # Idle
      PROVE  /\ v # w => job'[w] = job[w]
             /\ v = w => job'[w].step = step /\ job'[w].slot = job[w].slot
  BY <1>1, <1>4 DEF Step, Jobs
<1>5. ASSUME NEW v \in Workers, LogoutAccount(v) PROVE Goal
  BY <1>4, <1>5, AtWork DEF LogoutAccount
<1>6. ASSUME NEW v \in Workers, LogoutAccountFails(v) PROVE Goal
  BY <1>4, <1>6, AtWork DEF LogoutAccountFails
<1>7. ASSUME NEW v \in Workers, LogoutSave(v) PROVE Goal
  <2>1. CASE At(v, "save")
    BY <1>4, <1>7, <2>1, AtWork DEF LogoutSave
  <2> QED BY <1>3, <1>7, <2>1 DEF LogoutSave
<1>8. ASSUME NEW v \in Workers, LogoutOfNobody(v) \/ LogoutReset(v) \/ LogoutSaveFails(v) PROVE Goal
  BY <1>3, <1>8 DEF LogoutOfNobody, LogoutReset, LogoutSaveFails
<1>9. ASSUME NEW s \in Slots, AgentEvict(s) \/ KeeperVisits(s) PROVE Goal
  BY <1>1, <1>9 DEF AgentEvict, KeeperVisits, Workers
<1>10. ASSUME AgentLogout PROVE Goal
  BY <1>1, <1>10 DEF AgentLogout, Workers
<1>11. ASSUME AgentCrash PROVE Goal
  BY <1>11 DEF AgentCrash
<1>12. ASSUME ClientStep PROVE job' = job
  BY <1>12 DEF ClientStep, Connect, Play, SaveData, Disconnect, Login, LoginRefused, SelChar, KickOut,
     agentVars
<1>13. ASSUME AnswerStep PROVE job' = job
  BY <1>13 DEF AnswerStep, SendLoginInfo, AnswerDropped, LoginAnswered, SelectionFails,
              SelectionSucceeds, ClosingAnswer, agentVars
<1>14. ASSUME ReaderStep PROVE Goal
  BY <1>2, <1>5, <1>7, <1>8, <1>9, <1>10, <1>14 DEF ReaderStep, LogoutStep, Workers, AgentRead,
     AgentLoad, AgentSave, AgentLoginInfo, AgentKickOut, AgentLogin
<1>15. ASSUME KeeperStep \/ HeartbeatReceived \/ Restart PROVE Goal
  BY <1>2, <1>5, <1>7, <1>8, <1>9, <1>15 DEF KeeperStep, LogoutStep, Workers, KeeperStart,
     HeartbeatReceived, Restart
<1>16. ASSUME Fault PROVE Goal
  BY <1>2, <1>6, <1>8, <1>11, <1>16 DEF Fault, AgentLoadFails, AgentSaveFails, HeartbeatLate, Crash
<1> QED BY <1>2, <1>12, <1>13, <1>14, <1>15, <1>16 DEF Next

\* Every step keeps KeeperJob.
LEMMA KeeperKept ==
    ASSUME DInv, Next
    PROVE  KeeperJob'
<1> DEFINE k == job["keeper"]
<1> SUFFICES ASSUME up', k'.step \in {"save", "saveOnly", "reset"}
             PROVE  ~Spared(data[k.slot].id)'
  BY DEF KeeperJob
<1>0. TypeOK /\ "keeper" \in Workers
  BY Facts DEF Workers
<1>1. \A a : Spared(a)' => Spared(a)
  BY HarmLasts
<1>2. CASE Restart
  BY <1>0, <1>2 DEF Restart, NoData, agentVars, TypeOK, Spared, Jobs, Idle
<1>3. CASE LogoutAccount("keeper") \/ LogoutAccountFails("keeper")
  <2>1. /\ up' = up /\ data' = data
        /\ HarmedBy("keeper") \subseteq harmed'
    BY <1>3 DEF LogoutAccount, LogoutAccountFails, gameVars
  <2>2. k'.slot = k.slot
    <3>1. k # Idle /\ \E step : Step("keeper", step)
      BY <1>3, AtWork DEF LogoutAccount, LogoutAccountFails
    <3> QED BY <1>0, <3>1 DEF Step, TypeOK, Jobs
  <2> QED BY <2>1, <2>2 DEF HarmedBy, Spared
<1>4. CASE ~Restart /\ ~LogoutAccount("keeper") /\ ~LogoutAccountFails("keeper")
  <2>1. up
    BY <1>4, OtherSessions DEF SessionSteps, Connect, Disconnect, LoginAnswered, SelectionFails,
       SelectionSucceeds, Login, SelChar, SendLoginInfo, Crash, AnswerFor
  <2>2. k.step \in {"save", "saveOnly", "reset"} /\ k'.slot = k.slot
    BY <1>0, <1>4, JobSteps DEF Idle, At
  <2>3. k.slot \in Slots /\ k # Idle
    BY <1>0, <2>2, JobTypes DEF Idle
  <2>4. ~Spared(data[k.slot].id)
    BY <2>1, <2>2 DEF DInv, KeeperJob
  <2>5. CASE Loads(hand.slot, hand.id) /\ k.slot = hand.slot /\ data'[k.slot].id = hand.id
    BY <2>2, <2>3, <2>5 DEF Loads, LoadInto, Spared
  <2> QED BY <1>0, <1>1, <2>2, <2>3, <2>4, <2>5, IdChange DEF Spared
<1> QED BY <1>2, <1>3, <1>4

\* A request leaves the hand when its job ends, or when it needs none.
LEMMA HandSteps ==
    ASSUME TypeOK, ReaderJob, Next
    PROVE  hand' = hand \/ job'["reader"] = Idle
<1>0. "reader" \in Workers /\ job \in [Workers -> Jobs \cup {Idle}]
  BY DEF TypeOK, Workers
<1>1. ASSUME NEW w \in Workers, LogoutStep(w) \/ LogoutAccountFails(w) \/ LogoutSaveFails(w)
      PROVE  hand' = hand \/ job'["reader"] = Idle
  <2>1. EndJob(w) \/ \E step : Step(w, step)
    BY <1>1 DEF LogoutStep, LogoutOfNobody, LogoutAccount, LogoutSave, LogoutReset, LogoutAccountFails, LogoutSaveFails
  <2> QED BY <1>0, <2>1 DEF Step, EndJob, Workers
<1>2. ASSUME ClientStep \/ AnswerStep PROVE hand' = hand
  BY <1>2 DEF ClientStep, Connect, Play, SaveData, Disconnect, Login, LoginRefused, SelChar, KickOut,
     agentVars, AnswerStep, SendLoginInfo, AnswerDropped, LoginAnswered, SelectionFails,
              SelectionSucceeds, ClosingAnswer
<1>3. ASSUME ReaderStep PROVE hand' = hand \/ job'["reader"] = Idle
  BY <1>0, <1>1, <1>3 DEF ReaderStep, ReaderJob, AgentRead, AgentLoad, AgentLogout, AgentSave, AgentLoginInfo,
     AgentKickOut, AgentLogin, AgentEvict, Serves
<1>4. ASSUME KeeperStep \/ HeartbeatReceived \/ Restart PROVE hand' = hand \/ job'["reader"] = Idle
  BY <1>1, <1>4 DEF KeeperStep, Workers, KeeperStart, KeeperVisits, HeartbeatReceived, Restart, agentVars
<1>5. ASSUME Fault PROVE hand' = hand \/ job'["reader"] = Idle
  BY <1>0, <1>1, <1>5 DEF Fault, AgentLoadFails, AgentSaveFails, HeartbeatLate, Crash, AgentCrash, Serves, agentVars
<1> QED BY <1>2, <1>3, <1>4, <1>5 DEF Next

\* Every step keeps ReaderJob.
LEMMA ReaderKept ==
    ASSUME DInv, Next
    PROVE  ReaderJob'
<1> DEFINE r == job["reader"]
<1> SUFFICES ASSUME r' # Idle
             PROVE  /\ hand' # NoMessage
                    /\ \/ IsFor(hand', "LOGOUT", r'.slot)
                       \/ hand'.kind = "SEL_CHAR" /\ data'[r'.slot].id \in {hand'.id, None}
  BY DEF ReaderJob
<1>0. TypeOK /\ "reader" \in Workers /\ ReaderJob
  BY Facts DEF Workers, DInv
<1>1. hand' = hand
  BY <1>0, HandSteps
<1>2. CASE r # Idle /\ r'.slot = r.slot
  <2>1. r.slot \in Slots
    BY <1>0, <1>2, JobTypes
  <2>2. /\ hand # NoMessage
        /\ IsFor(hand, "LOGOUT", r.slot) \/ (hand.kind = "SEL_CHAR" /\ data[r.slot].id \in {hand.id, None})
    BY <1>0, <1>2 DEF ReaderJob
  <2>3. data'[r.slot].id = data[r.slot].id \/ data'[r.slot].id = None
    <3>1. ~AgentLoad /\ ~AgentLoadFails
      BY <1>2 DEF AgentLoad, AgentLoadFails, Serves
    <3> QED BY <1>0, <2>1, <3>1, IdChange
  <2> QED BY <1>1, <1>2, <2>2, <2>3
<1>3. CASE AgentLogout
  BY <1>0, <1>3 DEF AgentLogout, Serves, TypeOK, IsFor
<1>4. ASSUME NEW t \in Slots, AgentEvict(t)
      PROVE  /\ hand # NoMessage /\ hand.kind = "SEL_CHAR" /\ data'[r'.slot].id = hand.id
  BY <1>0, <1>4 DEF AgentEvict, Serves, TypeOK
<1>5. ASSUME NEW t \in Slots, KeeperVisits(t) PROVE r' = r
  BY <1>0, <1>5 DEF KeeperVisits, TypeOK, Workers
<1>6. LogoutAccount("reader") \/ LogoutAccountFails("reader") \/ LogoutSave("reader") => r # Idle
  BY AtWork DEF LogoutAccount, LogoutAccountFails, LogoutSave
<1> QED BY <1>0, <1>1, <1>2, <1>3, <1>4, <1>5, <1>6, JobSteps

-----------------------------------------------------------------------------
\* Who plays after a step: one who did before, or one who has just been told
\* that his character is loaded.
LEMMA NewChoice ==
    ASSUME TypeOK, Next, NEW s \in Slots, Chosen(replying, toGame, s)'
    PROVE  \/ Chosen(replying, toGame, s)
           \/ AgentLoad /\ s = hand.slot
<1>1. toGame \in Seq(Answers)
  BY DEF TypeOK, QueueOf
<1>2. ASSUME NEW m, toGame' = Put(toGame, m) \/ toGame' = toGame, ~IsOk(m, s), replying' = replying \/ replying'.slot # s
      PROVE  Chosen(replying, toGame, s)
  BY <1>1, <1>2, AppendAsks DEF Put, Chosen
<1>3. ASSUME NEW t \in Slots, AnswerDropped(t) \/ LoginAnswered(t) \/ SelectionFails(t) \/ ClosingAnswer(t)
      PROVE  Chosen(replying, toGame, s)
  BY <1>1, <1>3, TailAsks DEF AnswerDropped, LoginAnswered, SelectionFails, ClosingAnswer, AnswerFor, Chosen, gameVars
<1>4. ASSUME NEW t \in Slots, SelectionSucceeds(t)
      PROVE  Chosen(replying, toGame, s)
  <2>1. /\ toGame # <<>> /\ toGame' = Tail(toGame) /\ replying'.slot = t /\ IsOk(Head(toGame), t)
    BY <1>1, <1>4 DEF SelectionSucceeds, AnswerFor, IsOk, IsFor, Answers
  <2> QED BY <1>1, <2>1, TailAsks DEF Chosen
<1>5. ASSUME NEW id \in Names, SendLoginInfo(id)
      PROVE  Chosen(replying, toGame, s)
  BY <1>5, NoneAssumption DEF SendLoginInfo, Chosen, Nobody
<1>6. ASSUME UNCHANGED <<replying, toGame>>
      PROVE  Chosen(replying, toGame, s)
  BY <1>6 DEF Chosen
<1>7. ASSUME ClientStep PROVE UNCHANGED <<replying, toGame>>
  BY <1>7 DEF ClientStep, Connect, Play, SaveData, Disconnect, Login, LoginRefused, SelChar, KickOut,
     gameVars, queues
<1>8. ASSUME AnswerStep PROVE Chosen(replying, toGame, s)
  BY <1>3, <1>4, <1>5, <1>8 DEF AnswerStep
<1>9. ASSUME Crash \/ Restart PROVE Chosen(replying, toGame, s)
  BY <1>9, NoneAssumption DEF Crash, Restart, Chosen, Nobody, queues, HasOk
<1>10. CASE QuietServe
  <2>1. \A m : QuietAnswer(m) => ~IsOk(m, s)
    BY DEF QuietAnswer, IsOk, IsFor
  <2> QED BY <1>1, <1>10, <2>1, AppendAsks DEF QuietServe, AgentOnly, Chosen
<1>11. ASSUME NEW ok \in BOOLEAN, AgentLogin(ok) PROVE Chosen(replying, toGame, s)
  <2>1. ~IsOk(Answer("LOGIN", hand.slot, ok), s)
    BY DEF IsOk, IsFor, Answer
  <2> QED BY <1>2, <1>11, <2>1 DEF AgentLogin, gameVars
<1>12. ASSUME AgentLoad PROVE Chosen(replying, toGame, s) \/ s = hand.slot
  <2>1. s # hand.slot => ~IsOk(Answer("SEL_CHAR", hand.slot, TRUE), s)
    BY DEF IsOk, IsFor, Answer
  <2> QED BY <1>2, <1>12, <2>1 DEF AgentLoad, gameVars
<1>13. ASSUME AgentLoadFails PROVE Chosen(replying, toGame, s)
  <2>1. ~IsOk(Answer("SEL_CHAR", hand.slot, FALSE), s)
    BY DEF IsOk, IsFor, Answer
  <2> QED BY <1>2, <1>13, <2>1 DEF AgentLoadFails, gameVars
<1>14. ASSUME ReaderStep PROVE Chosen(replying, toGame, s) \/ (AgentLoad /\ s = hand.slot)
  BY <1>10, <1>11, <1>12, <1>14, JobsQuiet, ServicesQuiet DEF ReaderStep, Workers
<1>15. ASSUME KeeperStep \/ HeartbeatReceived PROVE QuietServe
  BY <1>15, JobsQuiet, ServicesQuiet DEF KeeperStep, Workers
<1>16. ASSUME Fault PROVE Chosen(replying, toGame, s) \/ (AgentLoad /\ s = hand.slot)
  <2>1. ASSUME NEW w \in Workers, LogoutAccountFails(w) \/ LogoutSaveFails(w) PROVE QuietServe
    BY <2>1, JobsQuiet
  <2>2. ASSUME AgentSaveFails \/ HeartbeatLate \/ AgentCrash PROVE QuietServe
    BY <2>2, ServicesQuiet
  <2> QED BY <1>9, <1>10, <1>13, <1>16, <2>1, <2>2 DEF Fault
<1> QED BY <1>6, <1>7, <1>8, <1>9, <1>10, <1>14, <1>15, <1>16 DEF Next

\* A session that plays after a step did so before it, with the same account,
\* or its character has just been loaded.
LEMMA PlayedBefore ==
    ASSUME DInv, Next, NEW s \in Slots, Playing(s)'
    PROVE  /\ Own(s) /\ account'[s] = account[s]
           /\ Playing(s) \/ (AgentLoad /\ s = hand.slot)
<1>0. TypeOK /\ SInv
  BY Facts
<1>1. Own(s)' /\ (stage'[s] = "game" \/ Chosen(replying, toGame, s)')
  BY DEF Playing
<1>2. Chosen(replying, toGame, s)' => Chosen(replying, toGame, s) \/ (AgentLoad /\ s = hand.slot)
  BY <1>0, NewChoice
<1>3. Own(s) => Sound(stage[s], account[s], replying, Line, toGame, s)
  BY Facts DEF SessionInv
<1>4. CASE UNCHANGED <<up, stage, account, replying, early>>
  BY <1>1, <1>2, <1>4 DEF Own, Active, Playing
<1>5. ASSUME NEW t \in Slots, Connect(t)
      PROVE  t # s /\ Own(s) /\ account' = account /\ Playing(s)
  <2>1. UNCHANGED <<replying, toGame, account>> /\ t # s => Own(s) /\ stage'[s] = stage[s]
    BY <1>0, <1>1, <1>5 DEF Connect, TypeOK, Own, Active, queues
  <2>2. ASSUME t = s PROVE FALSE
    <3>1. stage'[s] = "open" /\ ~Stale(s)
      BY <1>0, <1>1, <1>5, <2>2 DEF Connect, TypeOK, Own
    <3>2. UNCHANGED <<replying, toGame>>
      BY <1>5 DEF Connect, queues
    <3> QED BY <1>0, <1>1, <3>1, <3>2, StaleMeans, OkIsReply DEF Chosen, NoneOut
  <2>3. UNCHANGED <<replying, toGame, account>>
    BY <1>5 DEF Connect, queues
  <2>4. t # s => Own(s) /\ stage'[s] = stage[s]
    BY <1>0, <1>1, <1>5 DEF Connect, TypeOK, Own, Active
  <2> QED BY <1>1, <2>2, <2>3, <2>4 DEF Playing, Chosen
<1>6. ASSUME NEW t \in Slots, NEW a \in Accounts, Login(t, a) \/ SelChar(t, a)
      PROVE  t # s /\ Own(s) /\ account'[s] = account[s] /\ Playing(s)
  <2>1. /\ UNCHANGED <<replying, toGame, early>> /\ stage[t] = "open"
        /\ stage'[t] \in {"open", "login", "select"}
        /\ t # s => account'[s] = account[s] /\ stage'[s] = stage[s]
    BY <1>0, <1>6 DEF Login, SelChar, TypeOK
  <2>2. Own(s)
    BY <1>1, <2>1 DEF Own, Active
  <2>3. t # s
    BY <1>1, <1>3, <2>1, <2>2, OkIsReply DEF Sound, NoneOut, Chosen
  <2> QED BY <1>1, <2>1, <2>2, <2>3 DEF Playing, Chosen
<1>7. ASSUME NEW t \in Slots, Disconnect(t)
      PROVE  Own(s) /\ account'[s] = account[s] /\ Playing(s)
  <2>1. /\ UNCHANGED <<replying, toGame, early>> /\ stage'[t] = "free"
        /\ t # s => account'[s] = account[s] /\ stage'[s] = stage[s]
    BY <1>0, <1>7 DEF Disconnect, TypeOK
  <2>2. t # s
    BY <1>1, <2>1 DEF Own, Active
  <2> QED BY <1>1, <2>1, <2>2 DEF Playing, Chosen, Own, Active
<1>8. ASSUME NEW t \in Slots, LoginAnswered(t)
      PROVE  Own(s) /\ account'[s] = account[s] /\ Playing(s)
  <2>1. /\ UNCHANGED <<replying, early>> /\ Active(t)
        /\ stage'[t] = "game" => stage[t] = "game"
        /\ t # s => account'[s] = account[s] /\ stage'[s] = stage[s]
        /\ toGame # <<>> /\ IsFor(Head(toGame), "LOGIN", t)
        /\ toGame \in Seq(Answers) /\ ~AgentLoad
    <3>1. /\ UNCHANGED <<replying, early, hand>> /\ Active(t)
          /\ stage' = [stage EXCEPT ![t] = IF @ = "login" THEN "open" ELSE @]
          /\ account' = account \/ account' = [account EXCEPT ![t] = None]
          /\ toGame # <<>> /\ IsFor(Head(toGame), "LOGIN", t)
      BY <1>8 DEF LoginAnswered, AnswerFor, IsFor, history, agentVars
    <3>2. ~AgentLoad
      BY <3>1 DEF AgentLoad, Serves
    <3> QED BY <1>0, <3>1, <3>2, LineTypes DEF TypeOK
  <2>2. Own(s)
    BY <1>1, <2>1 DEF Own, Active
  <2>3. Chosen(replying, toGame, s)' => Chosen(replying, toGame, s)
    BY <1>2, <2>1
  <2>4. t # s
    <3>1. ASSUME t = s PROVE FALSE
      <4>1. Has(toGame, "LOGIN", s)
        BY <2>1, <3>1, TailHas
      <4>2. stage[s] = "login"
        BY <1>3, <2>2, <4>1 DEF Sound, NoneOut
      <4> QED BY <1>1, <1>3, <2>1, <2>2, <2>3, <3>1, <4>2, OkIsReply DEF Sound, NoneOut, Chosen
    <3> QED BY <3>1
  <2> QED BY <1>1, <2>1, <2>2, <2>3, <2>4 DEF Playing
<1>9. ASSUME NEW t \in Slots, SelectionFails(t) \/ SelectionSucceeds(t)
      PROVE  Own(s) /\ account'[s] = account[s] /\ Playing(s)
  <2>1. /\ UNCHANGED <<account, early>> /\ ~AgentLoad
        /\ Own(s)' => Own(s)
        /\ stage'[s] = "game" => stage[s] = "game"
    <3>1. /\ UNCHANGED <<account, early, hand>> /\ Active(t)
          /\ stage' = stage \/ stage' = [stage EXCEPT ![t] = IF @ = "select" THEN "open" ELSE @]
      BY <1>9 DEF SelectionFails, SelectionSucceeds, history, agentVars
    <3>2. ~AgentLoad
      BY <3>1 DEF AgentLoad, Serves
    <3> QED BY <1>0, <3>1, <3>2 DEF TypeOK, Own, Active
  <2> QED BY <1>1, <1>2, <2>1 DEF Playing
<1>10. ASSUME NEW id \in Names, SendLoginInfo(id)
      PROVE  Own(s) /\ account'[s] = account[s] /\ Playing(s)
  <2>1. /\ UNCHANGED <<account, early>> /\ ~AgentLoad
        /\ Own(s)' => Own(s)
        /\ stage'[s] = "game" => stage[s] = "game" \/ replying.slot = s
    <3>1. /\ UNCHANGED <<account, early, hand>>
          /\ stage' = [stage EXCEPT ![replying.slot] = IF @ = "select" THEN "game" ELSE @]
      BY <1>10 DEF SendLoginInfo, history, agentVars
    <3>2. ~AgentLoad
      BY <3>1 DEF AgentLoad, Serves
    <3> QED BY <1>0, <3>1, <3>2 DEF TypeOK, Own, Active
  <2> QED BY <1>1, <1>2, <2>1 DEF Playing, Chosen
<1>11. ASSUME Crash \/ Restart PROVE FALSE
  <2>1. CASE Crash
    BY <1>1, <2>1 DEF Crash, Own, Active
  <2>2. CASE Restart
    BY <1>1, <2>2, Facts DEF Restart, Own, Active, DownIsEmpty
  <2> QED BY <1>11, <2>1, <2>2
<1> QED BY <1>4, <1>5, <1>6, <1>7, <1>8, <1>9, <1>10, <1>11, OtherSessions DEF SessionSteps

\* The reader takes no character from the session that plays it.
LEMMA ReaderSpares ==
    ASSUME DInv, NEW s \in Slots, Playing(s), Spared(data[s].id),
           job["reader"] # Idle, job["reader"].slot = s
    PROVE  FALSE
<1>1. Sound(stage[s], account[s], replying, Line, toGame, s)
  BY Facts DEF SessionInv, Playing
<1>2. ~Has(Line, "LOGOUT", s) /\ ~HasChoice(Line, account[s])
  BY <1>1 DEF Sound, Playing
<1>3. data[s].id = account[s] /\ data[s].id # None
  BY DEF DInv, HoldsOwn, Spared
<1>4. /\ hand # NoMessage
      /\ IsFor(hand, "LOGOUT", s) \/ (hand.kind = "SEL_CHAR" /\ data[s].id \in {hand.id, None})
  BY DEF DInv, ReaderJob
<1>5. IsFor(hand, "LOGOUT", s) \/ Chooses(hand, account[s])
  BY <1>3, <1>4 DEF Chooses
<1> QED BY <1>2, <1>4, <1>5, Facts, HandInLine

\* Every step keeps HoldsOwn.
LEMMA HoldsKept ==
    ASSUME DInv, Next
    PROVE  HoldsOwn'
<1> SUFFICES ASSUME NEW s \in Slots, Playing(s)'
             PROVE  /\ data'[s].id \in {account'[s], None}
                    /\ account'[s] \notin harmed' => data'[s].id = account'[s]
  BY DEF HoldsOwn
<1>0. TypeOK /\ harmed \subseteq harmed'
  BY Facts, HarmLasts
<1>1. Own(s) /\ account'[s] = account[s] /\ (Playing(s) \/ (AgentLoad /\ s = hand.slot))
  BY PlayedBefore
<1>2. Sound(stage[s], account[s], replying, Line, toGame, s)
  BY <1>1, Facts DEF SessionInv
<1>3. CASE AgentLoad \/ (AgentLoadFails /\ data'[s].id = hand.id /\ s = hand.slot)
  <2>1. CASE s = hand.slot
    <3>1. hand # NoMessage /\ IsFor(hand, "SEL_CHAR", s)
      BY <1>3, <2>1 DEF AgentLoad, AgentLoadFails, Serves, IsFor
    <3>2. hand.id = account[s]
      BY <1>0, <1>2, <3>1, HandInLine DEF Sound
    <3>3. data'[s].id = hand.id
      <4>1. data \in [Slots -> [id : Names, account : Names, value : Nat]]
        BY <1>0 DEF TypeOK
      <4>2. AgentLoad => data' = [data EXCEPT ![s] =
                              [id |-> hand.id, account |-> hand.id, value |-> saved[hand.id]]]
        BY <2>1 DEF AgentLoad, LoadInto
      <4> QED BY <1>3, <4>1, <4>2
    <3> QED BY <1>1, <3>2, <3>3
  <2>2. CASE s # hand.slot
    <3>1. data'[s] = data[s]
      BY <1>0, <1>3, <2>2 DEF AgentLoad, LoadInto, TypeOK
    <3> QED BY <1>0, <1>1, <2>2, <3>1 DEF DInv, HoldsOwn
  <2> QED BY <2>1, <2>2
<1>4. CASE Playing(s) /\ ~AgentLoad /\ ~(AgentLoadFails /\ data'[s].id = hand.id /\ s = hand.slot)
  <2>1. /\ data[s].id \in {account[s], None}
        /\ account[s] \notin harmed => data[s].id = account[s]
    BY <1>4 DEF DInv, HoldsOwn
  <2>2. CASE data'[s].id = data[s].id
    BY <1>0, <1>1, <2>1, <2>2
  <2>3. CASE Restart
    BY <1>1, <2>3, Facts DEF Restart, DownIsEmpty, Own
  <2>4. ASSUME NEW w \in Workers, LogoutReset(w), s = job[w].slot, data'[s].id = None,
               account[s] \notin harmed
        PROVE  FALSE
    <3>1. account[s] # None
      BY <1>2, <1>4, OkIsReply DEF Sound, Playing, Chosen, NoneOut
    <3>2. Spared(data[s].id)
      BY <2>1, <2>4, <3>1 DEF Spared
    <3>3. job[w] # Idle /\ job[w].step = "reset"
      BY <2>4, AtWork DEF LogoutReset, At
    <3>4. up
      <4>1. Active(s) /\ DownIsEmpty
        BY <1>1, Facts DEF Own
      <4> QED BY <4>1 DEF DownIsEmpty
    <3>5. w # "keeper"
      BY <2>4, <3>2, <3>3, <3>4 DEF DInv, KeeperJob
    <3> QED BY <1>4, <2>4, <3>2, <3>3, <3>5, ReaderSpares DEF Workers
  <2> QED BY <1>0, <1>1, <1>4, <2>1, <2>2, <2>3, <2>4, IdChange
<1> QED BY <1>1, <1>3, <1>4

\* Rows of CURRENTUSER are inserted by one request only.
LEMMA CurrentSteps ==
    ASSUME Next
    PROVE  current' \subseteq current \/ (AgentLoginInfo /\ current' = current \cup {hand.id})
<1> USE DEF database
<1>1. ASSUME ClientStep \/ AnswerStep PROVE current' = current
  BY <1>1 DEF ClientStep, Connect, Play, SaveData, Disconnect, Login, LoginRefused, SelChar, KickOut,
     AnswerStep, SendLoginInfo, AnswerDropped, LoginAnswered, SelectionFails, SelectionSucceeds, ClosingAnswer
<1>2. ASSUME NEW w \in Workers, LogoutStep(w) \/ LogoutAccountFails(w) \/ LogoutSaveFails(w)
      PROVE  current' \subseteq current
  BY <1>2 DEF LogoutStep, LogoutOfNobody, LogoutAccount, LogoutSave, LogoutReset, LogoutAccountFails, LogoutSaveFails
<1>3. ASSUME ReaderStep \/ KeeperStep
      PROVE  current' \subseteq current \/ (AgentLoginInfo /\ current' = current \cup {hand.id})
  BY <1>2, <1>3 DEF ReaderStep, KeeperStep, Workers, AgentRead, AgentLogout, AgentLoad, AgentSave,
              AgentLoginInfo, AgentKickOut, AgentLogin, AgentEvict, KeeperStart, KeeperVisits
<1>4. ASSUME Fault \/ HeartbeatReceived \/ Restart PROVE current' \subseteq current
  BY <1>2, <1>4 DEF Fault, AgentLoadFails, AgentSaveFails, HeartbeatLate,
              Crash, AgentCrash, HeartbeatReceived, Restart
<1> QED BY <1>1, <1>3, <1>4 DEF Next

\* A save writes the copy of a slot, which it leaves as it is.
LEMMA SavedSteps ==
    ASSUME TypeOK, Next
    PROVE  saved' = saved \/ \E t \in Slots : Loaded(t) /\ saved' = Saved(t) /\ data' = data
<1>1. ASSUME NEW w \in Workers, LogoutSave(w)
      PROVE  \E t \in Slots : Loaded(t) /\ saved' = Saved(t) /\ data' = data
  BY <1>1, AtWork, JobTypes DEF LogoutSave
<1>2. CASE AgentSave
  BY <1>2, HandTypes DEF AgentSave, Serves
<1>3. CASE AgentLoad \/ AgentLoadFails \/ Restart
  BY <1>3 DEF AgentLoad, AgentLoadFails, Restart, database
<1>4. ASSUME NEW s \in Slots, Play(s) PROVE saved' = saved
  BY <1>4 DEF Play, database
<1>5. ASSUME NEW w \in Workers, LogoutReset(w) PROVE saved' = saved
  BY <1>5 DEF LogoutReset, database
<1> QED BY <1>1, <1>2, <1>3, <1>4, <1>5, OtherSteps DEF DataSteps

\* What a save does to the record of a character that is loaded.
LEMMA SavedOf ==
    ASSUME CopyInv, Next, NEW s \in Slots, Loaded(s)
    PROVE  \/ saved'[data[s].id] = saved[data[s].id]
           \/ saved'[data[s].id] = data[s].value /\ data' = data
<1>1. TypeOK /\ data[s].id \in Accounts
  BY DEF CopyInv, TypeOK, Loaded, Names
<1>2. ASSUME NEW t \in Slots, Loaded(t), saved' = Saved(t), data' = data
      PROVE  \/ saved'[data[s].id] = saved[data[s].id]
             \/ saved'[data[s].id] = data[s].value /\ data' = data
  <2>1. data[s].id = data[t].id => s = t
    BY <1>2 DEF CopyInv, OneSlotPerCharacter
  <2> QED BY <1>1, <1>2, <2>1 DEF Saved, TypeOK
<1> QED BY <1>1, <1>2, SavedSteps

\* A selection is never served in a slot whose character needs to be saved
\* first.
LEMMA LoadSpares ==
    ASSUME DInv, NEW s \in Slots, hand # NoMessage, IsFor(hand, "SEL_CHAR", s)
    PROVE  ~Precious(s)
<1>1. Line \in Seq(Requests) /\ Line # <<>> /\ Head(Line) = hand
  BY Facts, LineTypes, HandInLine
<1>2. ~Preceded(Line, s)
  BY <1>1, TailOrder
<1> QED BY <1>2 DEF DInv, PreciousGuarded

\* A load serves a selection, between jobs.
LEMMA LoadHand ==
    ASSUME AgentLoad \/ AgentLoadFails
    PROVE  hand # NoMessage /\ IsFor(hand, "SEL_CHAR", hand.slot) /\ job["reader"] = Idle
BY DEF AgentLoad, AgentLoadFails, Serves, IsFor

\* The row that is inserted is of a character that is loaded.
LEMMA InfoLoaded ==
    ASSUME DInv, AgentLoginInfo, Spared(hand.id)
    PROVE  /\ up /\ hand.slot \in Slots /\ data[hand.slot].id = hand.id
           /\ HasInfo(Line, hand.slot, hand.id)
           /\ data' = data
<1>1. hand # NoMessage /\ IsInfo(hand, hand.slot, hand.id) /\ data' = data
  BY DEF AgentLoginInfo, Serves, IsInfo
<1>2. HasInfo(Line, hand.slot, hand.id) /\ hand.slot \in Slots /\ hand.id \in Accounts
  BY <1>1, Facts, HandInLine, HandTypes DEF Spared, Names
<1> QED BY <1>1, <1>2 DEF DInv, LoginInfoLoaded

\* Every step keeps CurrentLoaded.
LEMMA CurrentKept ==
    ASSUME DInv, Next
    PROVE  CurrentLoaded'
<1> SUFFICES ASSUME NEW a \in current', Spared(a)'
             PROVE  LoadedAnywhere(a)'
  BY DEF CurrentLoaded
<1>0. TypeOK /\ Spared(a)
  BY Facts, HarmLasts
<1>1. CASE a \notin current
  <2>1. AgentLoginInfo /\ a = hand.id
    BY <1>1, CurrentSteps
  <2> QED BY <1>0, <2>1, InfoLoaded DEF LoadedAnywhere
<1>2. CASE a \in current
  <2>1. PICK t \in Slots : data[t].id = a
    BY <1>0, <1>2 DEF DInv, CurrentLoaded, LoadedAnywhere
  <2>2. ASSUME Restart PROVE FALSE
    BY <1>0, <2>1, <2>2 DEF Restart, Spared
  <2>3. ASSUME NEW w \in Workers, LogoutReset(w), t = job[w].slot PROVE FALSE
    <3>1. job[w] # Idle /\ job[w].step = "reset"
      BY <2>3, AtWork DEF LogoutReset, At
    <3>2. Spared(data[job[w].slot].id) /\ data[job[w].slot].id \in current
      BY <1>0, <1>2, <2>1, <2>3
    <3> QED BY <3>1, <3>2 DEF DInv, JobDone
  <2>4. ASSUME AgentLoad \/ AgentLoadFails, t = hand.slot PROVE FALSE
    BY <1>0, <1>2, <2>1, <2>4, LoadHand, LoadSpares DEF Precious
  <2>5. data'[t].id = a
    BY <1>0, <2>1, <2>2, <2>3, <2>4, IdChange
  <2> QED BY <2>5 DEF LoadedAnywhere
<1> QED BY <1>1, <1>2

\* Who plays a spared character is in a session that plays.
LEMMA PlayerPlays ==
    ASSUME DInv, NEW s \in Slots, Play(s), Spared(data[s].id)
    PROVE  Playing(s) /\ up
<1>1. stage[s] = "game"
  BY DEF Play
<1>2. s \notin early
  BY DEF DInv, EarlyHarmed
<1>3. Active(s)
  BY <1>1 DEF Active
<1> QED BY <1>1, <1>2, <1>3, Facts DEF Playing, Own, DownIsEmpty

\* Every step keeps JobDone.
LEMMA JobKept ==
    ASSUME DInv, Next
    PROVE  JobDone'
<1> SUFFICES ASSUME NEW w \in Workers, job'[w] # Idle, Spared(data[job[w].slot].id)'
             PROVE  LET s == job'[w].slot IN
                    /\ job'[w].step \in {"save", "saveOnly", "reset"} => data'[s].id \notin current'
                    /\ job'[w].step = "reset" => data'[s].value = saved'[data'[s].id]
  BY DEF JobDone
<1>0. TypeOK /\ CopyInv /\ \A a : Spared(a)' => Spared(a)
  BY Facts, HarmLasts
<1> DEFINE s == job[w].slot
<1>1. CASE job'[w].step = "test"
  BY <1>1
<1>2. CASE LogoutAccount(w) /\ job'[w].step \in {"save", "saveOnly"} /\ job'[w].slot = s
  <2>1. s \in Slots /\ data' = data /\ current' = current \ {data[s].account}
    BY <1>0, <1>2, AtWork, JobTypes DEF LogoutAccount
  <2>2. data[s].account = data[s].id
    BY <1>0, <1>2, <2>1 DEF DInv, Filed
  <2> QED BY <1>2, <2>1, <2>2
<1>3. CASE LogoutAccountFails(w) /\ job'[w].step = "saveOnly" /\ job'[w].slot = s
  BY <1>3 DEF LogoutAccountFails, Spared
<1>4. CASE LogoutSave(w) /\ At(w, "save") /\ job'[w].step = "reset" /\ job'[w].slot = s
  <2>1. /\ job[w] # Idle /\ s \in Slots /\ Loaded(s) /\ data[s].id \in Accounts
        /\ data' = data /\ current' = current /\ saved' = Saved(s)
    BY <1>0, <1>4, AtWork, JobTypes DEF LogoutSave
  <2>2. data[s].id \notin current
    BY <1>0, <1>4, <2>1 DEF DInv, JobDone, At
  <2>3. saved'[data[s].id] = data[s].value
    BY <1>0, <2>1 DEF Saved, TypeOK
  <2> QED BY <1>4, <2>1, <2>2, <2>3
<1>5. CASE job'[w] = job[w]
  <2>1. job[w] # Idle /\ s \in Slots
    BY <1>0, <1>5, JobTypes
  <2>2. CASE data'[s] = NoData /\ data'[s].id = None
    BY <1>5, <2>2 DEF Spared
  <2>3. CASE (AgentLoad \/ AgentLoadFails) /\ Loads(hand.slot, hand.id) /\ s = hand.slot /\ data'[s].id = hand.id
    <3>1. w = "keeper"
      BY <2>1, <2>3, LoadHand DEF Workers
    <3> QED BY <1>5, <2>1, <2>3, <3>1 DEF Loads, LoadInto, Spared
  <2>4. CASE data'[s].id = data[s].id /\ (data'[s] = data[s] \/ Play(s))
    <3>1. Spared(data[s].id)
      BY <1>0, <1>5, <2>4
    <3>2. /\ job[w].step \in {"save", "saveOnly", "reset"} => data[s].id \notin current
          /\ job[w].step = "reset" => data[s].value = saved[data[s].id]
      BY <2>1, <3>1 DEF DInv, JobDone
    <3>3. up /\ job[w].step \in {"save", "saveOnly", "reset"} => w = "reader"
      BY <3>1 DEF DInv, KeeperJob, Workers
    <3>4. ASSUME job[w].step \in {"save", "saveOnly", "reset"}, data[s].id \in current' PROVE FALSE
      <4>1. AgentLoginInfo /\ data[s].id = hand.id
        BY <3>2, <3>4, CurrentSteps
      <4>2. up /\ job["reader"] = Idle
        BY <3>1, <4>1, InfoLoaded DEF AgentLoginInfo, Serves
      <4> QED BY <2>1, <3>3, <3>4, <4>2
    <3>5. ASSUME job[w].step = "reset" PROVE data'[s].value = saved'[data[s].id]
      <4>1. ~Play(s)
        <5>1. ASSUME Play(s) PROVE FALSE
          BY <2>1, <3>1, <3>3, <3>5, <5>1, PlayerPlays, ReaderSpares
        <5> QED BY <5>1
      <4>2. data'[s] = data[s] /\ Loaded(s)
        BY <2>4, <3>1, <4>1 DEF Spared, Loaded
      <4> QED BY <1>0, <2>1, <3>2, <3>5, <4>2, SavedOf
    <3> QED BY <1>5, <2>4, <3>2, <3>4, <3>5
  <2> QED BY <1>0, <2>1, <2>2, <2>3, <2>4, IdChange
<1> QED BY <1>0, <1>1, <1>2, <1>3, <1>4, <1>5, JobSteps

\* Every step keeps Filed.
LEMMA FiledKept ==
    ASSUME DInv, Next
    PROVE  Filed'
<1> SUFFICES ASSUME NEW s \in Slots, Spared(data[s].id)'
             PROVE  data'[s].account = data'[s].id
  BY DEF Filed
<1>0. TypeOK /\ \A a : Spared(a)' => Spared(a)
  BY Facts, HarmLasts
<1>1. data'[s].id # None /\ data'[s].id \notin harmed'
  BY DEF Spared
<1>2. CASE data'[s].id = data[s].id /\ (data'[s] = data[s] \/ Play(s))
  <2>1. Spared(data[s].id)
    BY <1>0, <1>2
  <2>2. data'[s].account = data[s].account
    BY <1>0, <1>2 DEF Play, TypeOK
  <2> QED BY <1>2, <2>1, <2>2 DEF DInv, Filed
<1> QED BY <1>0, <1>1, <1>2, IdChange

\* The session that is being told that its character is loaded still waits for
\* it, and the request names it, unless a fault has touched it.
LEMMA ReplierPlays ==
    ASSUME DInv, NEW id, replying # Nobody, id \in {replying.id, account[replying.slot]}, Spared(id)
    PROVE  LET r == replying.slot IN
           /\ r \in Slots /\ Own(r) /\ up /\ stage[r] = "select" /\ data[r].id = id
           /\ ~Has(Line, "LOGOUT", r) /\ ~Has(Line, "SEL_CHAR", r) /\ ~HasChoice(Line, id)
<1> DEFINE r == replying.slot
<1>1. r \in Slots
  BY Facts DEF TypeOK
<1>2. Own(r) /\ id = account[r]
  <2>1. CASE id = replying.id
    BY <2>1 DEF DInv, ReplyingSound
  <2>2. CASE id = account[r]
    <3>1. Active(r)
      BY <1>1, <2>2, Facts DEF AccountInv, AccountOfActive, Spared
    <3>2. r \notin early
      BY <2>2 DEF DInv, EarlyHarmed
    <3> QED BY <2>2, <3>1, <3>2 DEF Own
  <2> QED BY <2>1, <2>2
<1>3. Sound(stage[r], account[r], replying, Line, toGame, r)
  BY <1>1, <1>2, Facts DEF SessionInv
<1>4. Playing(r)
  BY <1>2 DEF Playing, Chosen
<1>5. data[r].id = id
  BY <1>1, <1>2, <1>4 DEF DInv, HoldsOwn, Spared
<1>6. up
  BY Facts DEF DownIsEmpty
<1> QED BY <1>1, <1>2, <1>3, <1>5, <1>6 DEF Sound, Chosen, NoneOut

\* A row that is about to be inserted is named by a request.
LEMMA NamedInfo ==
    ASSUME TypeOK, NEW s, NEW a, HasInfo(Line, s, a)
    PROVE  Named("LOGIN_INFO", a)
<1>1. hand \in Requests \cup {NoMessage} /\ toAgent \in Seq(Requests)
  BY DEF TypeOK, QueueOf
<1>2. ASSUME NEW q \in Seq(Requests), NEW m \in Requests
      PROVE  <<m>> \o q \in Seq(Requests) /\ <<m>> \o q # <<>> /\ Head(<<m>> \o q) = m /\ q = Tail(<<m>> \o q)
  OBVIOUS
<1>3. CASE hand = NoMessage
  BY <1>3 DEF Line, HasInfo, IsInfo, Named
<1>4. CASE hand # NoMessage
  <2>1. Line \in Seq(Requests) /\ Line # <<>> /\ Head(Line) = hand /\ Tail(Line) = toAgent
    BY <1>1, <1>2, <1>4 DEF Line
  <2>2. HasInfo(toAgent, s, a) \/ IsInfo(hand, s, a)
    BY <2>1, TailInfo
  <2> QED BY <1>4, <2>2 DEF HasInfo, IsInfo, Named
<1> QED BY <1>3, <1>4

\* A reset of the reader's serves the request in its hand.
LEMMA ReaderEnds ==
    ASSUME DInv, LogoutReset("reader")
    PROVE  /\ HandServed
           /\ \/ IsFor(hand, "LOGOUT", job["reader"].slot)
              \/ hand.kind = "SEL_CHAR" /\ data[job["reader"].slot].id \in {hand.id, None}
<1>1. job["reader"] # Idle /\ hand' = NoMessage /\ toAgent' = toAgent
  BY AtWork DEF LogoutReset, EndJob
<1> QED BY <1>1, Facts, LineServed DEF DInv, ReaderJob, HandServed

\* The heartbeat's thread resets harmed characters only.
LEMMA KeeperHarmed ==
    ASSUME DInv, LogoutReset("keeper"), up
    PROVE  ~Spared(data[job["keeper"].slot].id)
BY DEF LogoutReset, At, DInv, KeeperJob

\* Every step keeps LoginInfoLoaded.
LEMMA InfoKept ==
    ASSUME DInv, Next
    PROVE  LoginInfoLoaded'
<1> SUFFICES ASSUME NEW s \in Slots, NEW a \in Accounts, HasInfo(Line', s, a), Spared(a)'
             PROVE  up' /\ data'[s].id = a /\ ClearBefore(Line', s, a)
  BY DEF LoginInfoLoaded
<1>0. TypeOK /\ SInv /\ Spared(a) /\ Line \in Seq(Requests)
  BY Facts, HarmLasts, LineTypes
<1>1. CASE a \in Names /\ s = replying.slot /\ SendLoginInfo(a)
  <2>1. /\ Own(s) /\ up /\ data[s].id = a
        /\ ~Has(Line, "LOGOUT", s) /\ ~Has(Line, "SEL_CHAR", s) /\ ~HasChoice(Line, a)
    BY <1>0, <1>1, ReplierPlays DEF SendLoginInfo
  <2>2. data' = data /\ up' = up /\ hand' = hand
    BY <1>1 DEF SendLoginInfo, agentVars
  <2>3. ClearBefore(Line, s, a)
    <3>1. CASE HasInfo(Line, s, a)
      BY <1>0, <3>1 DEF DInv, LoginInfoLoaded
    <3>2. CASE ~HasInfo(Line, s, a)
      BY <3>2 DEF HasInfo, ClearBefore
    <3> QED BY <3>1, <3>2
  <2>4. Line' = Line \/ Line' = Append(Line, Request("LOGIN_INFO", s, a))
    <3>1. Request("LOGIN_INFO", s, a) \in Requests
      BY <1>1, MessageTypes
    <3>2. toAgent' = Put(toAgent, Request("LOGIN_INFO", s, a))
      BY <1>1 DEF SendLoginInfo
    <3> QED BY <1>0, <2>2, <3>1, <3>2, LinePut
  <2>5. ClearBefore(Line', s, a)
    BY <1>0, <2>1, <2>3, <2>4, AppendInfo
  <2> QED BY <2>1, <2>2, <2>5
<1>2. CASE HasInfo(Line, s, a) /\ ~(a \in Names /\ s = replying.slot /\ SendLoginInfo(a))
  <2>1. up /\ data[s].id = a /\ ClearBefore(Line, s, a)
    BY <1>0, <1>2 DEF DInv, LoginInfoLoaded
  <2>2. ClearBefore(Line', s, a)
    BY <1>0, <1>2, <2>1, LineClear
  <2>3. up'
    <3>1. ~Crash
      <4>1. ASSUME Crash PROVE FALSE
        BY <1>0, <1>2, <4>1, NamedInfo DEF Crash, Spared
      <4> QED BY <4>1
    <3> QED BY <2>1, <3>1, OtherSessions DEF SessionSteps, Connect, Disconnect, LoginAnswered, SelectionFails,
       SelectionSucceeds, Login, SelChar, SendLoginInfo, Restart
  <2>4. HandServed => /\ ~IsFor(hand, "LOGOUT", s) /\ ~IsFor(hand, "SEL_CHAR", s) /\ ~Chooses(hand, a)
    BY <1>0, <2>1, TailInfo DEF HandServed
  <2>5. ASSUME AgentLoad \/ AgentLoadFails, s = hand.slot PROVE FALSE
    <3>1. HandServed
      BY <1>0, <2>5, LoadHand, LineServed DEF HandServed, AgentLoad, AgentLoadFails
    <3> QED BY <2>4, <2>5, <3>1, LoadHand
  <2>6. ASSUME NEW w \in Workers, LogoutReset(w), s = job[w].slot PROVE FALSE
    <3>1. w = "reader"
      BY <1>0, <2>1, <2>6, KeeperHarmed DEF Workers
    <3>2. a # None
      BY NoneAssumption
    <3> QED BY <2>1, <2>4, <2>6, <3>1, <3>2, ReaderEnds DEF Chooses
  <2>7. ~Restart
    BY <2>1 DEF Restart
  <2> QED BY <1>0, <2>1, <2>2, <2>3, <2>5, <2>6, <2>7, IdChange
<1> QED BY <1>0, <1>1, <1>2, LineInfos

\* Every step keeps ReplyingSound.
LEMMA ReplyingKept ==
    ASSUME DInv, Next
    PROVE  ReplyingSound'
<1> SUFFICES ASSUME replying' # Nobody, Spared(replying.id)'
             PROVE  Own(replying.slot)' /\ replying'.id = account'[replying'.slot]
  BY DEF ReplyingSound
<1>0. TypeOK /\ \A a : Spared(a)' => Spared(a)
  BY Facts, HarmLasts
<1>1. ASSUME NEW s \in Slots, SelectionSucceeds(s)
      PROVE  Own(replying.slot)' /\ replying'.id = account'[replying'.slot]
  <2>1. /\ replying'.slot = s /\ replying'.id = account[s] /\ Active(s)
        /\ UNCHANGED <<stage, account, early>>
    BY <1>1 DEF SelectionSucceeds, history
  <2>2. s \notin early
    BY <1>0, <2>1 DEF DInv, EarlyHarmed
  <2> QED BY <2>1, <2>2 DEF Own, Active
<1>2. CASE replying' = replying
  <2> DEFINE r == replying.slot
  <2>1. /\ r \in Slots /\ Own(r) /\ replying.id = account[r] /\ up
        /\ Sound(stage[r], account[r], replying, Line, toGame, r)
    BY <1>0, <1>2, Facts DEF DInv, ReplyingSound, SessionInv, TypeOK, DownIsEmpty
  <2>2. stage[r] = "select"
    BY <2>1 DEF Sound
  <2>3. CASE UNCHANGED <<up, stage, account, replying, early>>
    BY <2>1, <2>3 DEF Own, Active
  <2>4. ASSUME NEW t \in Slots, Connect(t) PROVE Own(r)' /\ account' = account
    BY <1>0, <2>1, <2>2, <2>4 DEF Connect, Own, Active, TypeOK
  <2>5. ASSUME NEW t \in Slots, NEW a \in Accounts, Login(t, a) \/ SelChar(t, a)
        PROVE  Own(r)' /\ account'[r] = account[r]
    <3>1. /\ stage[t] = "open" /\ early' = early
          /\ t # r => stage'[r] = stage[r] /\ account'[r] = account[r]
      BY <1>0, <2>5 DEF Login, SelChar, TypeOK
    <3>2. t # r
      BY <2>2, <3>1
    <3>3. r \notin early
      BY <2>1 DEF Own
    <3> QED BY <1>2, <2>2, <3>1, <3>2, <3>3 DEF Own, Active
  <2>6. ASSUME NEW t \in Slots, Disconnect(t)
        PROVE  Own(r)' /\ account'[r] = account[r]
    <3>1. CASE t = r
      <4>1. account[r] \in Accounts
        BY <1>0, <2>1, <2>2 DEF Sound, TypeOK, Names
      <4>2. account[r] \in harmed'
        BY <2>1, <2>6, <3>1, <4>1 DEF Disconnect, Involved
      <4>3. replying.id \notin harmed'
        BY <1>2 DEF Spared
      <4> QED BY <2>1, <4>2, <4>3
    <3>2. CASE t # r
      BY <1>0, <2>1, <2>6, <3>2 DEF Disconnect, Own, Active, TypeOK
    <3> QED BY <3>1, <3>2
  <2>7. replying # Nobody
    BY <1>2
  <2>8. ASSUME NEW t \in Slots, LoginAnswered(t) \/ SelectionFails(t) \/ SelectionSucceeds(t) PROVE FALSE
    BY <2>7, <2>8 DEF LoginAnswered, SelectionFails, SelectionSucceeds, AnswerFor
  <2>9. ASSUME NEW id \in Names, SendLoginInfo(id) PROVE FALSE
    BY <1>2, <2>7, <2>9 DEF SendLoginInfo
  <2>10. ~Crash /\ ~Restart
    BY <1>2, <2>1, <2>7 DEF Crash, Restart
  <2> QED BY <1>2, <2>1, <2>3, <2>4, <2>5, <2>6, <2>8, <2>9, <2>10, OtherSessions DEF SessionSteps
<1>3. \/ replying' = replying \/ replying' = Nobody
      \/ \E s \in Slots : SelectionSucceeds(s)
  BY OtherSessions DEF SessionSteps, Connect, Disconnect, LoginAnswered, SelectionFails,
       Login, SelChar, SendLoginInfo, Restart, Crash
<1> QED BY <1>1, <1>2, <1>3

\* A step that makes a character precious is play, or the answer that starts
\* it.
LEMMA PreciousBefore ==
    ASSUME DInv, Next, NEW s \in Slots, Precious(s)'
    PROVE  /\ data'[s].id = data[s].id /\ Spared(data[s].id)
           /\ \/ Precious(s) \/ Play(s)
              \/ data[s].id \in Names /\ s = replying.slot /\ SendLoginInfo(data[s].id)
<1>0. TypeOK /\ CopyInv /\ SInv /\ \A a : Spared(a)' => Spared(a)
  BY Facts, HarmLasts
<1>1. /\ Spared(data'[s].id) /\ data'[s].id # None
      /\ \/ data'[s].value # saved'[data'[s].id]
         \/ data'[s].id \in current'
         \/ HasInfo(Line', s, data'[s].id)
  BY <1>0 DEF Precious, Spared
<1>2. CASE data'[s] = NoData /\ data'[s].id = None
  BY <1>1, <1>2
<1>3. ASSUME AgentLoad \/ AgentLoadFails, ~LoadedAnywhere(hand.id), s = hand.slot,
             data'[s].id = hand.id, data'[s].value = saved[hand.id]
      PROVE  FALSE
  <2>1. saved' = saved /\ current' = current
    BY <1>3 DEF AgentLoad, AgentLoadFails, database
  <2>2. data'[s].value = saved'[data'[s].id]
    BY <1>3, <2>1
  <2>3. hand.id \notin current
    BY <1>1, <1>3 DEF DInv, CurrentLoaded
  <2>4. HasInfo(Line, s, hand.id)
    <3>1. HasInfo(Line', s, hand.id)
      BY <1>1, <1>3, <2>1, <2>2, <2>3
    <3>2. ~SendLoginInfo(hand.id)
      <4>1. job["reader"] = Idle /\ hand # NoMessage /\ hand' = NoMessage
        BY <1>3 DEF AgentLoad, AgentLoadFails, Serves
      <4> QED BY <4>1 DEF SendLoginInfo, agentVars
    <3> QED BY <1>0, <3>1, <3>2, LineInfos
  <2>5. hand.id \in Accounts
    BY <1>0, <1>3, HandTypes DEF AgentLoad, AgentLoadFails, Serves
  <2> QED BY <1>1, <1>3, <2>4, <2>5 DEF DInv, LoginInfoLoaded, LoadedAnywhere
<1>4. CASE data'[s].id = data[s].id /\ (data'[s] = data[s] \/ Play(s))
  <2>1. Spared(data[s].id) /\ Loaded(s) /\ data[s].id \in Names
    BY <1>0, <1>1, <1>4 DEF Loaded, Spared, TypeOK
  <2>2. CASE data'[s] = data[s] /\ data'[s].value # saved'[data'[s].id]
    <3>1. data[s].value # saved[data[s].id]
      BY <1>0, <2>1, <2>2, SavedOf
    <3> QED BY <1>4, <2>1, <3>1 DEF Precious
  <2>3. CASE data'[s].id \in current'
    <3>1. CASE data[s].id \in current
      BY <1>4, <2>1, <3>1 DEF Precious
    <3>2. CASE data[s].id \notin current
      <4>1. AgentLoginInfo /\ data[s].id = hand.id
        BY <1>4, <2>3, <3>2, CurrentSteps
      <4>2. /\ hand.slot \in Slots /\ data[hand.slot].id = hand.id
            /\ HasInfo(Line, hand.slot, hand.id)
        BY <2>1, <4>1, InfoLoaded
      <4>3. s = hand.slot
        BY <1>0, <2>1, <4>1, <4>2 DEF CopyInv, OneSlotPerCharacter
      <4> QED BY <1>4, <2>1, <4>1, <4>2, <4>3 DEF Precious
    <3> QED BY <3>1, <3>2
  <2>4. CASE HasInfo(Line', s, data'[s].id)
    <3>1. HasInfo(Line, s, data[s].id) \/ (data[s].id \in Names /\ s = replying.slot /\ SendLoginInfo(data[s].id))
      BY <1>0, <1>4, <2>4, LineInfos
    <3> QED BY <1>4, <2>1, <3>1 DEF Precious
  <2> QED BY <1>1, <1>4, <2>1, <2>2, <2>3, <2>4
<1> QED BY <1>0, <1>2, <1>3, <1>4, IdChange

\* A log-out leaves the agent's hand once the slot is empty, once its character
\* needs no log-out any more, or when a fault has touched him.
LEMMA LogoutServed ==
    ASSUME DInv, Next, NEW s \in Slots, HandServed, IsFor(hand, "LOGOUT", s)
    PROVE  ~Precious(s)' \/ ~Spared(data[s].id)
<1>0. /\ TypeOK /\ "reader" \in Workers /\ Line \in Seq(Requests)
      /\ ~Spared(data[s].id)' => ~Precious(s)'
  BY Facts, LineTypes DEF Workers, Precious
<1>1. hand # NoMessage /\ hand' = NoMessage /\ hand.kind = "LOGOUT" /\ hand.slot = s
  BY DEF HandServed, IsFor
<1>2. job["reader"] # Idle => job["reader"].slot = s
  BY <1>1 DEF DInv, ReaderJob, IsFor
<1> DEFINE W == "reader"
<1>3. CASE LogoutOfNobody(W)
  BY <1>2, <1>3, AtWork DEF LogoutOfNobody, Loaded, Spared
<1>4. CASE LogoutSave(W)
  <2>1. job[W] # Idle /\ ~At(W, "save")
    BY <1>1, <1>4, AtWork DEF LogoutSave, Step
  <2>2. job[W].step = "saveOnly"
    BY <1>4, <2>1 DEF LogoutSave, At
  <2>3. /\ Loaded(s) /\ saved' = Saved(s) /\ UNCHANGED <<data, current, harmed>>
    BY <1>2, <1>4, <2>1 DEF LogoutSave, history
  <2> SUFFICES ASSUME Precious(s)', Spared(data[s].id) PROVE FALSE
    OBVIOUS
  <2>4. data[s].id \in Accounts
    BY <1>0, <2>3 DEF TypeOK, Loaded, Names
  <2>5. data[s].id \notin current
    BY <1>0, <1>2, <2>1, <2>2 DEF DInv, JobDone
  <2>6. saved'[data[s].id] = data[s].value
    BY <1>0, <2>3, <2>4 DEF Saved, TypeOK
  <2>7. HasInfo(Line', s, data[s].id)
    BY <2>3, <2>5, <2>6 DEF Precious
  <2>8. HasInfo(Line, s, data[s].id)
    BY <1>0, <2>7, TailInfo DEF HandServed
  <2>9. ClearBefore(Line, s, data[s].id)
    BY <2>4, <2>8 DEF DInv, LoginInfoLoaded
  <2> QED BY <1>0, <2>7, <2>9, TailInfo DEF HandServed
<1>5. CASE LogoutSaveFails(W)
  <2>1. job[W] # Idle /\ data' = data /\ harmed' = harmed \cup {data[job[W].slot].id}
    BY <1>5, AtWork DEF LogoutSaveFails
  <2> QED BY <1>0, <1>2, <2>1 DEF Spared
<1>6. CASE LogoutReset(W)
  <2>1. job[W] # Idle /\ data' = [data EXCEPT ![s] = NoData]
    BY <1>2, <1>6, AtWork DEF LogoutReset
  <2> QED BY <1>0, <2>1 DEF TypeOK, Spared, NoData
<1>7. CASE AgentCrash
  <2>1. \A a \in Accounts : data[s].id = a => a \in harmed'
    BY <1>1, <1>7 DEF AgentCrash
  <2>2. data' = data /\ data[s].id \in Names
    BY <1>0, <1>7 DEF AgentCrash, TypeOK
  <2> QED BY <1>0, <2>1, <2>2 DEF Spared, Names
<1>8. \/ LogoutOfNobody(W) \/ LogoutSave(W) \/ LogoutSaveFails(W) \/ LogoutReset(W) \/ AgentCrash
  <2>1. ASSUME ClientStep \/ AnswerStep PROVE hand' = hand
    BY <2>1 DEF ClientStep, Connect, Play, SaveData, Disconnect, Login, LoginRefused, SelChar, KickOut,
       agentVars, AnswerStep, SendLoginInfo, AnswerDropped, LoginAnswered, SelectionFails,
       SelectionSucceeds, ClosingAnswer
  <2>2. ASSUME NEW w \in Workers, LogoutStep(w) \/ LogoutAccountFails(w) \/ LogoutSaveFails(w), w # W PROVE hand' = hand
    BY <2>2 DEF LogoutStep, LogoutOfNobody, LogoutAccount, LogoutSave, LogoutReset, LogoutAccountFails,
       LogoutSaveFails, Step, EndJob
  <2>3. ASSUME LogoutAccount(W) \/ LogoutAccountFails(W) PROVE hand' = hand
    BY <2>3 DEF LogoutAccount, LogoutAccountFails, Step
  <2>4. ASSUME KeeperStep \/ HeartbeatReceived \/ Restart PROVE hand' = hand
    BY <2>2, <2>4 DEF KeeperStep, Workers, KeeperStart, KeeperVisits, HeartbeatReceived, Restart, agentVars
  <2>5. ASSUME ReaderStep PROVE hand' = hand \/ LogoutStep(W)
    BY <1>1, <2>5 DEF ReaderStep, AgentRead, AgentLoad, AgentLogout, AgentSave, AgentLoginInfo,
       AgentKickOut, AgentLogin, AgentEvict, Serves
  <2>6. ASSUME Fault PROVE hand' = hand \/ AgentCrash \/ LogoutSaveFails(W)
    BY <1>1, <2>2, <2>3, <2>6 DEF Fault, AgentLoadFails, AgentSaveFails, HeartbeatLate, Crash, Serves, agentVars
  <2> QED BY <1>1, <2>1, <2>3, <2>4, <2>5, <2>6 DEF Next, LogoutStep
<1> QED BY <1>3, <1>4, <1>5, <1>6, <1>7, <1>8

\* A player who leaves has his log-out asked for.
LEMMA LeaverLogsOut ==
    ASSUME DInv, NEW s \in Slots, Disconnect(s), stage[s] = "game", Spared(data[s].id)'
    PROVE  Has(Line', "LOGOUT", s)
<1>0. /\ TypeOK /\ AccountInv /\ SessionInv /\ Line \in Seq(Requests)
      /\ data' = data /\ hand' = hand /\ Spared(data[s].id)
  BY Facts, LineTypes DEF Disconnect, agentVars, Spared
<1>1. Playing(s)
  BY <1>0 DEF DInv, EarlyHarmed, Playing, Own, Active
<1>2. data[s].id = account[s] /\ data[s].id \in Accounts
  BY <1>0, <1>1 DEF DInv, HoldsOwn, Spared, TypeOK, Names
<1>3. LogsOut(s)
  <2>1. data[s].account = data[s].id
    BY <1>0 DEF DInv, Filed
  <2> QED BY <1>0, <1>2, <2>1, NoneAssumption
          DEF LogsOut, Loaded, HeldElsewhere, AccountInv, OneSessionPerAccount
<1>4. ~Full(toAgent)
  BY <1>0, <1>3 DEF Disconnect, Spared
<1>5. toAgent' = Append(toAgent, Request("LOGOUT", s, data[s].id))
  BY <1>3, <1>4 DEF Disconnect, Put
<1>6. Line' = Append(Line, Request("LOGOUT", s, data[s].id))
  BY <1>0, <1>2, <1>5, LineAppended, MessageTypes
<1>7. IsFor(Request("LOGOUT", s, data[s].id), "LOGOUT", s)
  BY DEF IsFor, Request
<1> QED BY <1>0, <1>6, <1>7, AppendHas

\* A session leaves the game when it disconnects or the server crashes.
LEMMA GameStays ==
    ASSUME TypeOK, Next, NEW s \in Slots, stage[s] = "game"
    PROVE  stage'[s] = "game" \/ Disconnect(s) \/ Crash
<1>1. ASSUME NEW t \in Slots, Connect(t) \/ LoginAnswered(t) \/ SelectionFails(t) PROVE stage'[s] = "game"
  BY <1>1 DEF Connect, LoginAnswered, SelectionFails, TypeOK
<1>2. ASSUME NEW t \in Slots, SelectionSucceeds(t) PROVE stage'[s] = "game"
  BY <1>2 DEF SelectionSucceeds
<1>3. ASSUME NEW t \in Slots, Disconnect(t) PROVE stage'[s] = "game" \/ s = t
  BY <1>3 DEF Disconnect, TypeOK
<1>4. ASSUME NEW t \in Slots, NEW a \in Accounts, Login(t, a) \/ SelChar(t, a) PROVE stage'[s] = "game"
  BY <1>4 DEF Login, SelChar, TypeOK
<1>5. ASSUME NEW id \in Names, SendLoginInfo(id) PROVE stage'[s] = "game"
  BY <1>5 DEF SendLoginInfo, TypeOK
<1>6. ASSUME Restart PROVE stage'[s] = "game"
  BY <1>6 DEF Restart
<1> QED BY <1>1, <1>2, <1>3, <1>4, <1>5, <1>6, OtherSessions DEF SessionSteps

\* Every step keeps PreciousGuarded.
LEMMA PreciousKept ==
    ASSUME DInv, Next
    PROVE  PreciousGuarded'
<1> SUFFICES ASSUME NEW s \in Slots, Precious(s)'
             PROVE  /\ up' => stage'[s] = "game" \/ Has(Line', "LOGOUT", s)
                    /\ Preceded(Line', s)
  BY DEF PreciousGuarded
<1>0. TypeOK /\ SInv /\ Line \in Seq(Requests) /\ SessionInv
  BY Facts, LineTypes
<1>1. /\ data'[s].id = data[s].id /\ Spared(data[s].id) /\ Spared(data[s].id)'
      /\ \/ Precious(s) \/ Play(s)
         \/ data[s].id \in Names /\ s = replying.slot /\ SendLoginInfo(data[s].id)
  BY PreciousBefore DEF Precious
<1>2. CASE Play(s)
  <2>1. Playing(s)
    BY <1>1, <1>2, PlayerPlays
  <2>2. stage[s] = "game" /\ stage' = stage /\ Line' = Line
    BY <1>2, LineSame DEF Play, gameVars, queues, agentVars
  <2>3. ~Has(Line, "SEL_CHAR", s)
    BY <1>0, <2>1, <2>2 DEF SessionInv, Sound, Playing, NoneOut
  <2> QED BY <2>2, <2>3, NoneThere
<1>3. CASE data[s].id \in Names /\ s = replying.slot /\ SendLoginInfo(data[s].id)
  <2>1. stage[s] = "select" /\ ~Has(Line, "SEL_CHAR", s)
    BY <1>1, <1>3, ReplierPlays DEF SendLoginInfo
  <2>2. stage'[s] = "game"
    BY <1>0, <1>3, <2>1 DEF SendLoginInfo, TypeOK
  <2>3. Line' = Line \/ Line' = Append(Line, Request("LOGIN_INFO", s, data[s].id))
    <3>1. Request("LOGIN_INFO", s, data[s].id) \in Requests
      BY <1>3, MessageTypes
    <3>2. toAgent' = Put(toAgent, Request("LOGIN_INFO", s, data[s].id)) /\ hand' = hand
      BY <1>3 DEF SendLoginInfo, agentVars
    <3> QED BY <1>0, <3>1, <3>2, LinePut
  <2>4. ~IsFor(Request("LOGIN_INFO", s, data[s].id), "SEL_CHAR", s)
    BY DEF IsFor, Request
  <2> QED BY <1>0, <2>1, <2>2, <2>3, <2>4, NoneThere, AppendOrder
<1>4. CASE Precious(s)
  <2>1. /\ up => stage[s] = "game" \/ Has(Line, "LOGOUT", s)
        /\ Preceded(Line, s)
    BY <1>4 DEF DInv, PreciousGuarded
  <2>2. ~Restart
    <3>1. ASSUME Restart PROVE FALSE
      BY <1>1, <3>1 DEF Restart, NoData, Spared
    <3> QED BY <3>1
  <2>3. ~(HandServed /\ IsFor(hand, "LOGOUT", s))
    BY <1>1, LogoutServed
  <2>4. up' => up /\ ~Crash
    <3>1. Crash => ~up'
      BY DEF Crash
    <3> QED BY <2>2, <3>1, OtherSessions DEF SessionSteps, Connect, Disconnect, LoginAnswered, SelectionFails,
       SelectionSucceeds, Login, SelChar, SendLoginInfo
  <2>5. ASSUME up' PROVE stage'[s] = "game" \/ Disconnect(s) \/ Has(Line, "LOGOUT", s)
    BY <1>0, <2>1, <2>4, <2>5, GameStays
  <2>6. CASE /\ Has(Line, "LOGOUT", s) => Has(Line', "LOGOUT", s)
             /\ Preceded(Line, s) => Preceded(Line', s)
    <3>1. ASSUME Disconnect(s), stage[s] = "game" PROVE Has(Line', "LOGOUT", s)
      BY <1>1, <3>1, LeaverLogsOut
    <3>2. ASSUME up' PROVE stage'[s] = "game" \/ Has(Line', "LOGOUT", s)
      BY <2>1, <2>4, <2>5, <2>6, <3>1, <3>2
    <3> QED BY <2>1, <2>6, <3>2
  <2>7. ASSUME NEW a \in Accounts, SelChar(s, a),
               Has(Line, "LOGOUT", s) => Has(Line', "LOGOUT", s),
               Has(Line, "LOGOUT", s) /\ Preceded(Line, s) => Preceded(Line', s)
        PROVE  /\ up' => stage'[s] = "game" \/ Has(Line', "LOGOUT", s)
               /\ Preceded(Line', s)
    <3>1. up /\ stage[s] = "open"
      BY <2>7, Facts DEF SelChar, DownIsEmpty, Active
    <3> QED BY <2>1, <2>7, <3>1
  <2> QED BY <1>0, <2>2, <2>3, <2>6, <2>7, LineLogouts
<1> QED BY <1>1, <1>2, <1>3, <1>4

-----------------------------------------------------------------------------
\* The invariant holds initially,
LEMMA DataInit == Init => DInv
<1> SUFFICES ASSUME Init PROVE DInv
  OBVIOUS
<1>1. SInv
  <2>1. AccountInv
    BY EmptyQueue
       DEF Init, AccountInv, TypeOK, Names, NoData, OneSessionPerAccount, AccountOfActive
  <2>2. DownIsEmpty /\ SessionInv
    BY DEF Init, DownIsEmpty, SessionInv, Own, Active
  <2> QED BY <2>1, <2>2 DEF SInv
<1>2. CopyInv
  BY <1>1, CopyInit DEF CopyInv, SInv, AccountInv
<1>3. EarlyHarmed /\ HoldsOwn
  BY DEF Init, EarlyHarmed, HoldsOwn, Playing, Own, Active
<1>4. ReaderJob /\ KeeperJob /\ JobDone /\ Filed
  BY DEF Init, ReaderJob, KeeperJob, JobDone, Filed, NoData, Workers, Idle
<1>5. Line = <<>>
  BY DEF Init, Line
<1>6. PreciousGuarded /\ LoginInfoLoaded /\ CurrentLoaded
  BY <1>5 DEF Init, PreciousGuarded, Precious, Spared, NoData, LoginInfoLoaded, HasInfo, CurrentLoaded
<1>7. ReplyingSound
  BY DEF Init, ReplyingSound
<1> QED BY <1>1, <1>2, <1>3, <1>4, <1>6, <1>7 DEF DInv

\* stuttering keeps it,
LEMMA DataStutter ==
    ASSUME DInv, UNCHANGED vars
    PROVE  DInv'
<1>1. UNCHANGED <<gameVars, queues, data, agentVars, database, events, history>>
  BY DEF vars
<1>2. Line' = Line
  BY <1>1, LineSame DEF queues, agentVars
<1>3. TypeOK' /\ SInv'
  BY <1>1, <1>2 DEF DInv, SInv, AccountInv, TypeOK, OneSessionPerAccount, AccountOfActive, Active, DownIsEmpty,
                SessionInv, Own, gameVars, queues, agentVars, history, database
<1>4. CopyInv'
  BY <1>1, <1>3 DEF DInv, CopyInv, OneSlotPerCharacter, SavedBehind, Loaded, database
<1>5. (EarlyHarmed /\ HoldsOwn /\ ReplyingSound)'
  BY <1>1, <1>2 DEF DInv, EarlyHarmed, HoldsOwn, ReplyingSound, Playing, Own, Active, Spared, gameVars, queues, history
<1>6. (ReaderJob /\ KeeperJob /\ JobDone /\ Filed)'
  BY <1>1 DEF DInv, ReaderJob, KeeperJob, JobDone, Filed, Spared, gameVars, agentVars, history, database
<1>7. (PreciousGuarded /\ LoginInfoLoaded /\ CurrentLoaded)'
  BY <1>1, <1>2 DEF DInv, PreciousGuarded, Precious, LoginInfoLoaded, CurrentLoaded, LoadedAnywhere, Spared,
     gameVars, agentVars, history, database
<1> QED BY <1>3, <1>4, <1>5, <1>6, <1>7 DEF DInv

\* and it holds in every reachable state.
LEMMA DataSound == Spec => []DInv
<1>1. DInv /\ SInv' /\ CopyInv' /\ [Next]_vars => DInv'
  <2> SUFFICES ASSUME DInv, SInv', CopyInv', Next PROVE DInv'
    BY DataStutter
  <2> QED BY EarlyKept, HoldsKept, ReaderKept, KeeperKept, JobKept, FiledKept, PreciousKept, InfoKept,
             CurrentKept, ReplyingKept DEF DInv
<1> QED BY <1>1, DataInit, SessionsSound, CopiesSound, PTL DEF Spec

\* Theorem: whatever the order of selections, grants, late log-outs and
\* restarts, a session in the game plays the character of its own account, as
\* long as no fault and no reconnection to a slot still in use harmed it.
THEOREM PlaysItsCharacter == Spec => []SessionPlaysItsCharacter
<1>1. DInv => SessionPlaysItsCharacter
  <2> SUFFICES ASSUME DInv, NEW s \in Slots \ early, stage[s] = "game", account[s] \notin harmed
               PROVE  data[s].id = account[s] /\ Loaded(s)
    BY DEF SessionPlaysItsCharacter
  <2>1. Playing(s)
    BY DEF Playing, Own, Active
  <2>2. account[s] # None
    BY <2>1, Facts DEF SessionInv, Sound, Playing
  <2> QED BY <2>1, <2>2 DEF DInv, HoldsOwn, Loaded
<1> QED BY <1>1, DataSound, PTL

\* Theorem: a row of CURRENTUSER whose account was not harmed has an owner:
\* the account is in a session, or its character is in a slot.
THEOREM RecordsOwned == Spec => []LoginRecordHasOwner
<1>1. DInv => LoginRecordHasOwner
  BY NoneAssumption DEF DInv, CurrentLoaded, Spared, LoadedAnywhere, LoginRecordHasOwner
<1> QED BY <1>1, DataSound, PTL

\* The progress of a character is that of its loaded copy, or of its record,
\* and the record is never ahead of it.
LEMMA ProgressOf ==
    ASSUME CopyInv, NEW a \in Accounts
    PROVE  /\ \A t \in Slots : data[t].id = a => Progress(a) = data[t].value
           /\ ~LoadedAnywhere(a) => Progress(a) = saved[a]
           /\ Progress(a) \in Nat /\ saved[a] \in Nat /\ saved[a] <= Progress(a)
<1>0. a # None /\ saved[a] \in Nat /\ data \in [Slots -> [id : Names, account : Names, value : Nat]]
  BY NoneAssumption DEF CopyInv, TypeOK
<1>1. ASSUME NEW t \in Slots, data[t].id = a PROVE Progress(a) = data[t].value
  <2>1. \A u \in Slots : data[u].id = a => u = t
    BY <1>0, <1>1 DEF CopyInv, OneSlotPerCharacter, Loaded
  <2>2. (CHOOSE u \in Slots : data[u].id = a) = t
    BY <1>1, <2>1
  <2> QED BY <1>1, <2>2 DEF Progress, LoadedAnywhere
<1>2. ~LoadedAnywhere(a) => Progress(a) = saved[a]
  BY DEF Progress
<1>3. CASE LoadedAnywhere(a)
  <2>1. PICK t \in Slots : data[t].id = a
    BY <1>3 DEF LoadedAnywhere
  <2>2. saved[a] <= data[t].value /\ data[t].value \in Nat
    BY <1>0, <2>1 DEF CopyInv, SavedBehind, Loaded
  <2> QED BY <1>0, <1>1, <1>2, <2>1, <2>2
<1>4. CASE ~LoadedAnywhere(a)
  BY <1>0, <1>1, <1>2, <1>4
<1> QED BY <1>3, <1>4

\* The same, after a step.
LEMMA ProgressAfter ==
    ASSUME CopyInv', NEW a \in Accounts
    PROVE  /\ \A t \in Slots : data'[t].id = a => Progress(a)' = data'[t].value
           /\ ~LoadedAnywhere(a)' => Progress(a)' = saved'[a]
           /\ Progress(a)' \in Nat /\ saved'[a] \in Nat /\ saved'[a] <= Progress(a)'
<1>0. a # None /\ saved'[a] \in Nat /\ data' \in [Slots -> [id : Names, account : Names, value : Nat]]
  BY NoneAssumption DEF CopyInv, TypeOK
<1>1. ASSUME NEW t \in Slots, data'[t].id = a PROVE Progress(a)' = data'[t].value
  <2>1. \A u \in Slots : data'[u].id = a => u = t
    BY <1>0, <1>1 DEF CopyInv, OneSlotPerCharacter, Loaded
  <2>2. (CHOOSE u \in Slots : data'[u].id = a) = t
    BY <1>1, <2>1
  <2> QED BY <1>1, <2>2 DEF Progress, LoadedAnywhere
<1>2. ~LoadedAnywhere(a)' => Progress(a)' = saved'[a]
  BY DEF Progress
<1>3. CASE LoadedAnywhere(a)'
  <2>1. PICK t \in Slots : data'[t].id = a
    BY <1>3 DEF LoadedAnywhere
  <2>2. saved'[a] <= data'[t].value /\ data'[t].value \in Nat
    BY <1>0, <2>1 DEF CopyInv, SavedBehind, Loaded
  <2> QED BY <1>0, <1>1, <1>2, <2>1, <2>2
<1>4. CASE ~LoadedAnywhere(a)'
  BY <1>0, <1>1, <1>2, <1>4
<1> QED BY <1>3, <1>4

\* No step takes a character's progress back, unless it is harmed.
LEMMA ProgressStep ==
    ASSUME DInv, CopyInv', Next, NEW a \in Accounts \ harmed'
    PROVE  Progress(a)' >= Progress(a)
<1>0. /\ TypeOK /\ CopyInv /\ Spared(a) /\ a \notin harmed' /\ a # None
  BY Facts, HarmLasts, NoneAssumption DEF Spared
<1>1. /\ Progress(a) \in Nat /\ saved[a] \in Nat
      /\ Progress(a)' \in Nat /\ saved'[a] \in Nat /\ saved'[a] <= Progress(a)'
  <2>1. Progress(a) \in Nat /\ saved[a] \in Nat
    BY <1>0, ProgressOf
  <2>2. Progress(a)' \in Nat /\ saved'[a] \in Nat /\ saved'[a] <= Progress(a)'
    BY ProgressAfter
  <2> QED BY <2>1, <2>2
<1>2. saved'[a] >= saved[a]
  BY <1>0, CopyStep
<1>3. CASE Progress(a) = saved[a]
  BY <1>1, <1>2, <1>3
<1>4. CASE LoadedAnywhere(a)
  <2>1. PICK t \in Slots : data[t].id = a
    BY <1>4 DEF LoadedAnywhere
  <2>2. Progress(a) = data[t].value
    BY <1>0, <2>1, ProgressOf
  <2>3. CASE data'[t].id = data[t].id /\ (data'[t] = data[t] \/ Play(t))
    <3>1. Progress(a)' = data'[t].value
      BY <2>1, <2>3, ProgressAfter
    <3>2. data'[t].value = data[t].value \/ data'[t].value = data[t].value + 1
      BY <1>0, <2>3 DEF Play, TypeOK
    <3> QED BY <1>1, <2>2, <3>1, <3>2
  <2>4. ASSUME Restart PROVE FALSE
    BY <1>0, <2>1, <2>4 DEF Restart
  <2>5. ASSUME NEW w \in Workers, LogoutReset(w), t = job[w].slot PROVE Progress(a) = saved[a]
    <3>1. job[w] # Idle /\ job[w].step = "reset"
      BY <2>5, AtWork DEF LogoutReset, At
    <3>2. Spared(data[job[w].slot].id)
      BY <1>0, <2>1, <2>5
    <3> QED BY <2>1, <2>2, <2>5, <3>1, <3>2 DEF DInv, JobDone
  <2>6. ASSUME AgentLoad \/ AgentLoadFails, t = hand.slot PROVE Progress(a) = saved[a]
    <3>1. ~Precious(t)
      BY <2>6, LoadHand, LoadSpares
    <3> QED BY <1>0, <2>1, <2>2, <3>1 DEF Precious
  <2> QED BY <1>0, <1>3, <2>3, <2>4, <2>5, <2>6, IdChange
<1>5. CASE ~LoadedAnywhere(a)
  BY <1>0, <1>3, <1>5, ProgressOf
<1> QED BY <1>4, <1>5

\* Neither does stuttering.
LEMMA ProgressStutter ==
    ASSUME DInv, UNCHANGED vars, NEW a \in Accounts
    PROVE  Progress(a)' >= Progress(a)
<1>1. data' = data /\ saved' = saved
  BY DEF vars, database
<1>2. Progress(a)' = Progress(a)
  BY <1>1 DEF Progress, LoadedAnywhere
<1>3. Progress(a) \in Nat
  BY Facts, ProgressOf
<1> QED BY <1>2, <1>3

\* Theorem: evictions, log-outs, loads and saves lose none of the progress of
\* a character that no fault harmed.
THEOREM ProgressSafe == Spec => ProgressKept
<1>1. DInv /\ CopyInv' /\ [Next]_vars => [\A a \in Accounts \ harmed' : Progress(a)' >= Progress(a)]_vars
  BY ProgressStep
<1> QED BY <1>1, DataSound, CopiesSound, PTL DEF Spec, ProgressKept
=============================================================================
