---------------------------- MODULE Telnet_proofs ----------------------------
(***************************************************************************)
(* A server process and its telnet console, for any number of clients, of  *)
(* signals and of "/exit" commands: what the process does is what module   *)
(* AppThread says, its exit code tells whether start-up succeeded, and no  *)
(* client calls a server that is gone.                                     *)
(***************************************************************************)
EXTENDS Telnet, TLAPS

\* The program counters of an application thread that has not been left.
Running == {"config", "starting", "started", "loop", "locking", "waiting"}

\* The inductive invariant of the process: the thread is told to stop only
\* while it runs, and what it has returned tells success from failure.
AppInv ==
    /\ TypeOK
    /\ canTick => app \in Running
    /\ app = "none" <=> main \in {"installed", "constructed", "refused"}
    /\ app = "exited" => exitCode = IF failed THEN 1 ELSE 0
    /\ main = "returned" => app = "exited"

LEMMA AppInvInit == Init => AppInv
<1> SUFFICES ASSUME Init PROVE AppInv
  OBVIOUS
<1>1. TypeOK
  <2>1. stops \in 0 .. MaxStops
    BY BoundAssumption DEF Init
  <2> QED
    BY <2>1, Zenon DEF Init, TypeOK
<1>2. app # "exited" /\ main = "installed" /\ app = "none" /\ ~canTick
  BY DEF Init
<1> QED
  BY <1>1, <1>2 DEF AppInv

\* No step of the process breaks it.
LEMMA AppInvNext == AppInv /\ [Next]_vars => AppInv'
<1> SUFFICES ASSUME AppInv, [Next]_vars PROVE AppInv'
  OBVIOUS
<1> USE BoundAssumption, TelnetAssumption DEF AppInv, TypeOK, Running
<1>1. CASE MainStep
  <2>1. CASE Construct
    BY <2>1 DEF Construct, threadVars, askVars
  <2>2. CASE ParseFails
    BY <2>2 DEF ParseFails, askVars
  <2>3. CASE Start
    BY <2>3 DEF Start, askVars
  <2>4. CASE Join
    BY <2>4 DEF Join, threadVars, askVars
  <2> QED
    BY <1>1, <2>1, <2>2, <2>3, <2>4 DEF MainStep
<1>2. CASE AppStep
  <2>1. CASE LoadConfig
    BY <2>1 DEF LoadConfig, askVars
  <2>2. CASE StartupFails
    BY <2>2 DEF StartupFails, Shutdown, askVars
  <2>3. CASE OnStartReturns \/ BecomeReady \/ LoopTest \/ Wait
    BY <2>3 DEF OnStartReturns, BecomeReady, LoopTest, Wait, askVars
  <2>4. CASE Leave
    BY <2>4 DEF Leave, askVars
  <2> QED
    BY <1>2, <2>1, <2>2, <2>3, <2>4 DEF AppStep
<1>3. CASE HandlerStep
  <2>1. CASE SignalShutdown /\ canTick
    BY <2>1 DEF SignalShutdown, Shutdown
  <2>2. CASE SignalShutdown /\ ~canTick
    BY <2>2, ZenonT(30) DEF SignalShutdown, Shutdown
  <2>3. CASE SignalMarks
    BY <2>3, ZenonT(30) DEF SignalMarks, threadVars
  <2> QED
    BY <1>3, <2>1, <2>2, <2>3 DEF HandlerStep
<1>4. CASE TelnetThrows
  <2>1. main' = "terminated" /\ main = "joining" /\ telnetUp' \in BOOLEAN
    BY <1>4 DEF TelnetThrows
  <2>2. UNCHANGED <<threadVars, askVars>>
    BY <1>4 DEF TelnetThrows
  <2> QED
    BY <2>1, <2>2, ZenonT(30) DEF threadVars, askVars
<1>5. CASE SpuriousWakeup
  BY <1>5, ZenonT(30) DEF SpuriousWakeup, askVars
<1>6. CASE SignalArrives
  <2>1. stops' \in 0 .. MaxStops
    BY <1>6 DEF SignalArrives
  <2> QED
    BY <1>6, <2>1 DEF SignalArrives, threadVars
<1>7. CASE ExitCommand
  <2>1. stops' \in 0 .. MaxStops
    BY <1>7 DEF ExitCommand
  <2>2. CASE canTick
    BY <1>7, <2>1, <2>2 DEF ExitCommand, Shutdown
  <2>3. CASE ~canTick
    BY <1>7, <2>1, <2>3, ZenonT(30) DEF ExitCommand, Shutdown
  <2> QED
    BY <2>2, <2>3
<1>8. CASE UNCHANGED vars
  BY <1>8, ZenonT(30) DEF vars, threadVars, askVars
<1> QED
  BY <1>1, <1>2, <1>3, <1>4, <1>5, <1>6, <1>7, <1>8 DEF Next, Ended

\* Every variable of the process keeps to its values (Thread, AppThread).
THEOREM TypeCorrect == Spec => []TypeOK
<1>1. AppInv => TypeOK
  BY DEF AppInv
<1> QED
  BY AppInvInit, AppInvNext, <1>1, PTL DEF Spec

\* When main returns, the thread has ended and the exit code says whether its
\* start-up failed (thread_loop, ExitCode).
THEOREM ExitCodeSound == Spec => []ExitCodeTellsStartup
<1>1. AppInv => ExitCodeTellsStartup
  BY DEF AppInv, ExitCodeTellsStartup, Running
<1> QED
  BY AppInvInit, AppInvNext, <1>1, PTL DEF Spec

-----------------------------------------------------------------------------
\* Every step of the console is a step of the process or does not touch it.
LEMMA ConsoleStepRefines == ConsoleNext => [Next]_vars
<1> SUFFICES ASSUME ConsoleNext PROVE Next \/ UNCHANGED vars
  OBVIOUS
<1>1. CASE StartTelnet
  BY <1>1 DEF StartTelnet, Next, AppStep
<1>2. CASE OtherAppSteps
  BY <1>2 DEF OtherAppSteps, Next, AppStep, MainStep
<1>3. CASE ClosingStep
  <2>1. CASE \/ BeginClose \/ JoinClients \/ JoinClient \/ JoinLoop \/ LoopJoined
             \/ ClientDestroyed \/ PoolJoined
    BY <2>1 DEF BeginClose, JoinClients, JoinClient, JoinLoop, LoopJoined,
                ClientDestroyed, PoolJoined
  <2>2. CASE Return
    BY <2>2 DEF Return, Next, MainStep
  <2>3. CASE \E c \in Clients : \/ DisconnectClient(c) \/ DisconnectThrows(c)
                                \/ PickClient(c) \/ LetGo(c) \/ DestroyClient(c)
    BY <2>3 DEF DisconnectClient, DisconnectThrows, PickClient, LetGo, DestroyClient, Next
  <2> QED
    BY <1>3, <2>1, <2>2, <2>3 DEF ClosingStep
<1>4. CASE PoolStep
  BY <1>4 DEF PoolStep, InsertClient, StartClient, HandlerDone, HandlerDrops,
              DropClient, TestTick, PostAccept, Accepted
<1>5. CASE LoopStep
  BY <1>5 DEF LoopStep, Listen, Reap, LoopLeaves, FindEnded
<1>6. CASE \E c \in Clients : ClientStep(c)
  BY <1>6 DEF ClientStep, Writes, WriteFails, Command, ReadFails, Next
<1>7. CASE SpuriousWakeup \/ HandlerStep \/ Ended \/ LookupThrows
  BY <1>7 DEF LookupThrows, Next
<1>8. CASE SignalArrives
  BY <1>8 DEF Next
<1>9. CASE Peers \/ Refuse \/ ListenFails \/ \E c \in Clients : AcceptFails(c)
  BY <1>9 DEF Peers, Knock, ReadCommand, Quit, PeerResets, Refuse, ListenFails, AcceptFails
<1>10. CASE Stuck
  BY <1>10 DEF Stuck, allVars
<1> QED
  BY <1>1, <1>2, <1>3, <1>4, <1>5, <1>6, <1>7, <1>8, <1>9, <1>10 DEF ConsoleNext

LEMMA ConsoleRefines == [ConsoleNext]_allVars => [Next]_vars
BY ConsoleStepRefines DEF allVars

\* The console does nothing to the process that module AppThread does not say:
\* its threads, its clients and its shutdown are an environment of AppThread.
THEOREM ConsoleImplementsProcess == ConsoleSpec => ImplementsAppThread
<1>1. ConsoleInit => Init
  BY DEF ConsoleInit
<1> QED
  BY <1>1, ConsoleRefines, PTL DEF ConsoleSpec, ImplementsAppThread, Spec

-----------------------------------------------------------------------------
\* No client has come as far as a thread of its own.
NoneYet == \A c \in Clients : client[c] = "away"

\* The clients that shutting down must account for.
Met == Clients \ missed

\* What holds of the acceptor's handlers and of the console's start.
ChainInv ==
    /\ app \in {"none", "config"} => loop = "none"
    /\ loop \in {"none", "listen"} => accept = "none" /\ NoneYet
    /\ closer = "none" /\ ~tick => NoneYet
    /\ closer = "none" /\ loop \in {"listen", "running"} => tick
    /\ closer # "none" => app = "exited" /\ loop # "none"
    /\ closer \in {"destroy", "done"} => loop = "left"
    /\ accept \in {"raw", "listed", "started", "dropping"} => accepting \in Clients
    /\ accept = "raw" => client[accepting] = "knocking"
    /\ accept = "listed" => client[accepting] = "listed"
    /\ accept = "started" => client[accepting] \notin {"away", "knocking", "listed"}

\* What holds of the map and of the walks that before_shutdown takes over it: a
\* client it has met is disconnected, and then joined, and one that is not in
\* the map has no thread.
CloseInv ==
    /\ \A c \in listed \cup visited : client[c] \notin {"away", "knocking"}
    /\ \A c \in Met \ listed : client[c] \in {"away", "knocking", "ended"}
    /\ closer = "none" => visited = {}
    /\ closer \in {"disconnect", "pick", "join"} => \A c \in visited \ missed : socket[c] # "open"
    /\ closer \in {"pick", "join"} => \A c \in listed \ missed : socket[c] # "open"
    /\ closer \in {"pick", "join"} =>
         \A c \in visited \ missed :
             client[c] = "commanding" => closer = "join" /\ joining = c
    /\ closer \in {"loop", "destroy", "done"} =>
         \A c \in Met : /\ client[c] # "commanding"
                        /\ client[c] \in {"listed", "writing", "talking"} =>
                               socket[c] # "open"
    /\ main = "returned" => loop = "none" \/ closer = "done"

\* The values the console's own variables keep to.
ConsoleTypes ==
    /\ loop \in {"none", "listen", "running", "left"} /\ tick \in BOOLEAN
    /\ accept \in {"none", "armed", "raw", "listed", "started", "dropping", "test", "post",
                   "ended"}
    /\ accepting \in Clients \cup {NoClient}
    /\ client \in [Clients -> {"away", "knocking", "listed", "writing", "talking",
                               "commanding", "ended"}]
    /\ socket \in [Clients -> {"open", "reset", "closed"}]
    /\ closer \in {"none", "disconnect", "pick", "join", "loop", "destroy", "done"}
    /\ listed \subseteq Clients /\ visited \subseteq Clients /\ missed \subseteq Clients
    /\ sweeping \in Clients \cup {NoClient} /\ joining \in Clients \cup {NoClient}
    /\ refused \in BOOLEAN

LEMMA ConsoleTypesOK == TypeOK /\ ConsoleTypes <=> ConsoleTypeOK
BY DEF ConsoleTypes, ConsoleTypeOK

ConsoleInv == AppInv /\ ConsoleTypes /\ ChainInv /\ CloseInv

LEMMA NoClientIsNone == NoClient \notin Clients
BY DEF NoClient, Clients

LEMMA ConsoleInvInit == ConsoleInit => ConsoleInv
<1> SUFFICES ASSUME ConsoleInit PROVE ConsoleInv
  OBVIOUS
<1>1. AppInv
  BY AppInvInit DEF ConsoleInit
<1>2. app = "none" /\ main = "installed"
  BY DEF ConsoleInit, Init
<1>3. ConsoleTypes
  BY DEF ConsoleInit, ConsoleTypes
<1>4. ChainInv
  BY <1>2 DEF ConsoleInit, ChainInv, NoneYet
<1>5. CloseInv
  BY <1>2 DEF ConsoleInit, CloseInv, Met
<1> QED
  BY <1>1, <1>3, <1>4, <1>5 DEF ConsoleInv

\* A thread that is past its start does not go back, and main returns by Join.
LEMMA AppMoves ==
    ASSUME AppInv, Next \/ UNCHANGED vars
    PROVE  /\ app' \in {"none", "config"} => app \in {"none", "config"}
           /\ app = "exited" => app' = "exited"
           /\ main' = "returned" => main = "returned" \/ Join
<1> USE DEF AppInv, Running
<1>1. CASE MainStep
  BY <1>1 DEF MainStep, Construct, ParseFails, Start, Join, threadVars
<1>2. CASE AppStep
  BY <1>2 DEF AppStep, LoadConfig, StartupFails, OnStartReturns, BecomeReady, LoopTest,
              Wait,
              Leave, Shutdown
<1>3. CASE HandlerStep
  BY <1>3 DEF HandlerStep, SignalShutdown, SignalMarks, Shutdown, threadVars
<1>4. CASE TelnetThrows \/ SpuriousWakeup \/ SignalArrives \/ ExitCommand
  BY <1>4 DEF TelnetThrows, SpuriousWakeup, SignalArrives, ExitCommand, Shutdown,
              threadVars
<1>5. CASE UNCHANGED vars
  BY <1>5 DEF vars, threadVars
<1> QED
  BY <1>1, <1>2, <1>3, <1>4, <1>5 DEF Next, Ended

-----------------------------------------------------------------------------
\* A step of the acceptor's chain keeps the invariant.
LEMMA ChainSteps ==
    ASSUME ConsoleInv, NEW c,
           \/ Refuse \/ InsertClient \/ StartClient \/ HandlerDone \/ HandlerDrops
           \/ DropClient \/ TestTick \/ PostAccept
           \/ c \in Clients /\ (Knock(c) \/ Accepted(c) \/ AcceptFails(c))
    PROVE  ConsoleTypes' /\ ChainInv' /\ CloseInv'
<1> USE NoClientIsNone DEF ConsoleInv
<1>1. CASE c \in Clients /\ Knock(c)
  <2>1. ConsoleTypes'
    BY <1>1 DEF ConsoleTypes, Knock, Becomes, chainVars, clientVars, closeVars
  <2>2. ChainInv'
    BY <1>1 DEF ConsoleTypes, ChainInv, NoneYet, Knock, Becomes, vars, threadVars,
                chainVars, clientVars, closeVars
  <2>3. CloseInv'
    BY <1>1 DEF ConsoleTypes, ChainInv, NoneYet, CloseInv, Met, Knock, Becomes, vars,
                threadVars, chainVars, clientVars, closeVars
  <2> QED
    BY <2>1, <2>2, <2>3
<1>2. CASE c \in Clients /\ Accepted(c)
  <2>1. ConsoleTypes'
    BY <1>2 DEF ConsoleTypes, Accepted, First, chainVars, clientVars, closeVars
  <2>2. ChainInv'
    BY <1>2 DEF ConsoleTypes, ChainInv, NoneYet, Accepted, First, vars, threadVars,
                chainVars, clientVars, closeVars
  <2>3. CloseInv'
    BY <1>2 DEF ConsoleTypes, ChainInv, NoneYet, CloseInv, Met, Accepted, First, vars,
                threadVars, chainVars, clientVars, closeVars
  <2> QED
    BY <2>1, <2>2, <2>3
<1>3. CASE c \in Clients /\ AcceptFails(c)
  <2>1. ConsoleTypes'
    BY <1>3 DEF ConsoleTypes, AcceptFails, First, Becomes, chainVars, clientVars, closeVars
  <2>2. ChainInv'
    BY <1>3 DEF ConsoleTypes, ChainInv, NoneYet, AcceptFails, First, Becomes, vars,
                threadVars, chainVars, clientVars, closeVars
  <2>3. CloseInv'
    BY <1>3 DEF ConsoleTypes, ChainInv, NoneYet, CloseInv, Met, AcceptFails, First, Becomes,
                vars, threadVars, chainVars, clientVars, closeVars
  <2> QED
    BY <2>1, <2>2, <2>3
<1>4. CASE Refuse
  <2>1. ConsoleTypes'
    BY <1>4 DEF ConsoleTypes, Refuse, Becomes, chainVars, clientVars, closeVars
  <2>2. ChainInv'
    BY <1>4 DEF ConsoleTypes, ChainInv, NoneYet, Refuse, Becomes, vars, threadVars,
                chainVars, clientVars, closeVars
  <2>3. CloseInv'
    BY <1>4 DEF ConsoleTypes, ChainInv, NoneYet, CloseInv, Met, Refuse, Becomes, vars,
                threadVars, chainVars, clientVars, closeVars
  <2> QED
    BY <2>1, <2>2, <2>3
<1>5. CASE InsertClient
  <2>1. ConsoleTypes'
    BY <1>5 DEF ConsoleTypes, ChainInv, InsertClient, Becomes, chainVars, clientVars,
                closeVars
  <2>2. ChainInv'
    BY <1>5 DEF ConsoleTypes, ChainInv, NoneYet, InsertClient, Becomes, vars, threadVars,
                chainVars, clientVars, closeVars
  <2>3. CloseInv'
    BY <1>5 DEF ConsoleTypes, ChainInv, NoneYet, CloseInv, Met, InsertClient, Becomes, vars,
                threadVars, chainVars, clientVars, closeVars
  <2> QED
    BY <2>1, <2>2, <2>3
<1>6. CASE StartClient
  <2>1. ConsoleTypes'
    BY <1>6 DEF ConsoleTypes, ChainInv, StartClient, Becomes, chainVars, clientVars,
                closeVars
  <2>2. ChainInv'
    BY <1>6 DEF ConsoleTypes, ChainInv, NoneYet, StartClient, Becomes, vars, threadVars,
                chainVars, clientVars, closeVars
  <2>3. CloseInv'
    BY <1>6 DEF ConsoleTypes, ChainInv, NoneYet, CloseInv, Met, StartClient, Becomes, vars,
                threadVars, chainVars, clientVars, closeVars
  <2> QED
    BY <2>1, <2>2, <2>3
<1>7. CASE DropClient
  <2>1. ConsoleTypes'
    BY <1>7 DEF ConsoleTypes, DropClient, chainVars, clientVars, closeVars
  <2>2. ChainInv'
    BY <1>7 DEF ConsoleTypes, ChainInv, NoneYet, DropClient, vars, threadVars, chainVars,
                clientVars, closeVars
  <2>3. CloseInv'
    BY <1>7 DEF ConsoleTypes, ChainInv, NoneYet, CloseInv, Met, DropClient, vars,
                threadVars, chainVars, clientVars, closeVars
  <2> QED
    BY <2>1, <2>2, <2>3
<1>8. CASE TestTick
  <2>1. ConsoleTypes'
    BY <1>8 DEF ConsoleTypes, TestTick, chainVars, clientVars, closeVars
  <2>2. ChainInv'
    BY <1>8 DEF ConsoleTypes, ChainInv, NoneYet, TestTick, vars, threadVars, chainVars,
                clientVars, closeVars
  <2>3. CloseInv'
    BY <1>8 DEF ConsoleTypes, ChainInv, NoneYet, CloseInv, Met, TestTick, vars, threadVars,
                chainVars, clientVars, closeVars
  <2> QED
    BY <2>1, <2>2, <2>3
<1>9. CASE PostAccept
  <2>1. ConsoleTypes'
    BY <1>9 DEF ConsoleTypes, PostAccept, chainVars, clientVars, closeVars
  <2>2. ChainInv'
    BY <1>9 DEF ConsoleTypes, ChainInv, NoneYet, PostAccept, vars, threadVars, chainVars,
                clientVars, closeVars
  <2>3. CloseInv'
    BY <1>9 DEF ConsoleTypes, ChainInv, NoneYet, CloseInv, Met, PostAccept, vars,
                threadVars, chainVars, clientVars, closeVars
  <2> QED
    BY <2>1, <2>2, <2>3
<1>10. CASE HandlerDone
  <2>1. ConsoleTypes'
    BY <1>10 DEF ConsoleTypes, ChainInv, HandlerDone, chainVars, clientVars, closeVars
  <2>2. ChainInv'
    BY <1>10 DEF ConsoleTypes, ChainInv, NoneYet, HandlerDone, vars, threadVars,
                chainVars, clientVars, closeVars
  <2>3. CloseInv'
    BY <1>10 DEF ConsoleTypes, ChainInv, NoneYet, CloseInv, Met, HandlerDone, vars,
                threadVars, chainVars, clientVars, closeVars
  <2> QED
    BY <2>1, <2>2, <2>3
<1>11. CASE HandlerDrops
  <2>1. ConsoleTypes'
    BY <1>11 DEF ConsoleTypes, ChainInv, HandlerDrops, chainVars, clientVars, closeVars
  <2>2. ChainInv'
    BY <1>11 DEF ConsoleTypes, ChainInv, NoneYet, HandlerDrops, vars, threadVars,
                chainVars, clientVars, closeVars
  <2>3. CloseInv'
    BY <1>11 DEF ConsoleTypes, ChainInv, NoneYet, CloseInv, Met, HandlerDrops, vars,
                threadVars, chainVars, clientVars, closeVars
  <2> QED
    BY <2>1, <2>2, <2>3
<1> QED
  BY <1>1, <1>2, <1>3, <1>4, <1>5, <1>6, <1>7, <1>8, <1>9, <1>10, <1>11

\* So does a step of a client or of its thread.
LEMMA ClientSteps ==
    ASSUME ConsoleInv, NEW c,
           c \in Clients /\ (ReadCommand(c) \/ Command(c) \/ Quit(c) \/ PeerResets(c)
                             \/ ReadFails(c) \/ Writes(c) \/ WriteFails(c))
    PROVE  ConsoleTypes' /\ ChainInv' /\ CloseInv'
<1> USE NoClientIsNone DEF ConsoleInv
<1>1. CASE c \in Clients /\ ReadCommand(c)
  <2>1. ConsoleTypes'
    BY <1>1 DEF ConsoleTypes, ReadCommand, Becomes, chainVars, clientVars, closeVars
  <2>2. ChainInv'
    BY <1>1 DEF ConsoleTypes, ChainInv, NoneYet, ReadCommand, Becomes, vars, threadVars,
                chainVars, clientVars, closeVars
  <2>3. CloseInv'
    BY <1>1 DEF ConsoleTypes, ChainInv, NoneYet, CloseInv, Met, ReadCommand, Becomes, vars,
                threadVars, chainVars, clientVars, closeVars
  <2> QED
    BY <2>1, <2>2, <2>3
<1>2. CASE c \in Clients /\ Command(c)
  <2>1. ConsoleTypes'
    BY <1>2 DEF ConsoleTypes, Command, Becomes, ExitCommand, Shutdown, chainVars,
                clientVars, closeVars
  <2>2. ChainInv'
    BY <1>2 DEF ConsoleTypes, ChainInv, NoneYet, Command, Becomes, ExitCommand, Shutdown,
                chainVars, clientVars, closeVars
  <2>3. CloseInv'
    BY <1>2 DEF ConsoleTypes, ChainInv, NoneYet, CloseInv, Met, Command, Becomes,
                ExitCommand, Shutdown, chainVars, clientVars, closeVars
  <2> QED
    BY <2>1, <2>2, <2>3
<1>3. CASE c \in Clients /\ Quit(c)
  <2>1. ConsoleTypes'
    BY <1>3 DEF ConsoleTypes, Quit, Becomes, chainVars, clientVars, closeVars
  <2>2. ChainInv'
    BY <1>3 DEF ConsoleTypes, ChainInv, NoneYet, Quit, Becomes, vars, threadVars, chainVars,
                clientVars, closeVars
  <2>3. CloseInv'
    BY <1>3 DEF ConsoleTypes, ChainInv, NoneYet, CloseInv, Met, Quit, Becomes, vars,
                threadVars, chainVars, clientVars, closeVars
  <2> QED
    BY <2>1, <2>2, <2>3
<1>4. CASE c \in Clients /\ PeerResets(c)
  <2>1. ConsoleTypes'
    BY <1>4 DEF ConsoleTypes, PeerResets, chainVars, clientVars, closeVars
  <2>2. ChainInv'
    BY <1>4 DEF ConsoleTypes, ChainInv, NoneYet, PeerResets, vars, threadVars, chainVars,
                clientVars, closeVars
  <2>3. CloseInv'
    BY <1>4 DEF ConsoleTypes, ChainInv, NoneYet, CloseInv, Met, PeerResets, vars,
                threadVars, chainVars, clientVars, closeVars
  <2> QED
    BY <2>1, <2>2, <2>3
<1>5. CASE c \in Clients /\ ReadFails(c)
  <2>1. ConsoleTypes'
    BY <1>5 DEF ConsoleTypes, ReadFails, Becomes, chainVars, clientVars, closeVars
  <2>2. ChainInv'
    BY <1>5 DEF ConsoleTypes, ChainInv, NoneYet, ReadFails, Becomes, vars, threadVars,
                chainVars, clientVars, closeVars
  <2>3. CloseInv'
    BY <1>5 DEF ConsoleTypes, ChainInv, NoneYet, CloseInv, Met, ReadFails, Becomes, vars,
                threadVars, chainVars, clientVars, closeVars
  <2> QED
    BY <2>1, <2>2, <2>3
<1>6. CASE c \in Clients /\ Writes(c)
  <2>1. ConsoleTypes'
    BY <1>6 DEF ConsoleTypes, ChainInv, Writes, Becomes, chainVars, clientVars, closeVars
  <2>2. ChainInv'
    BY <1>6 DEF ConsoleTypes, ChainInv, NoneYet, Writes, Becomes, vars, threadVars,
                chainVars, clientVars, closeVars
  <2>3. CloseInv'
    BY <1>6 DEF ConsoleTypes, ChainInv, NoneYet, CloseInv, Met, Writes, Becomes, vars,
                threadVars, chainVars, clientVars, closeVars
  <2> QED
    BY <2>1, <2>2, <2>3
<1>7. CASE c \in Clients /\ WriteFails(c)
  <2>1. ConsoleTypes'
    BY <1>7 DEF ConsoleTypes, ChainInv, WriteFails, Becomes, chainVars, clientVars, closeVars
  <2>2. ChainInv'
    BY <1>7 DEF ConsoleTypes, ChainInv, NoneYet, WriteFails, Becomes, vars, threadVars,
                chainVars, clientVars, closeVars
  <2>3. CloseInv'
    BY <1>7 DEF ConsoleTypes, ChainInv, NoneYet, CloseInv, Met, WriteFails, Becomes, vars,
                threadVars, chainVars, clientVars, closeVars
  <2> QED
    BY <2>1, <2>2, <2>3
<1> QED
  BY <1>1, <1>2, <1>3, <1>4, <1>5, <1>6, <1>7

\* So does a step of the telnet thread.
LEMMA LoopSteps ==
    ASSUME ConsoleInv, NEW c,
           \/ Listen \/ ListenFails \/ Reap \/ LoopLeaves
           \/ c \in Clients /\ (FindEnded(c))
    PROVE  ConsoleTypes' /\ ChainInv' /\ CloseInv'
<1> USE NoClientIsNone DEF ConsoleInv
<1>1. CASE Listen
  <2>1. ConsoleTypes'
    BY <1>1 DEF ConsoleTypes, Listen, chainVars, clientVars, closeVars
  <2>2. ChainInv'
    BY <1>1 DEF ConsoleTypes, ChainInv, NoneYet, Listen, vars, threadVars, chainVars,
                clientVars, closeVars
  <2>3. CloseInv'
    BY <1>1 DEF ConsoleTypes, ChainInv, NoneYet, CloseInv, Met, Listen, vars, threadVars,
                chainVars, clientVars, closeVars
  <2> QED
    BY <2>1, <2>2, <2>3
<1>2. CASE ListenFails
  <2>1. ConsoleTypes'
    BY <1>2 DEF ConsoleTypes, ListenFails, chainVars, clientVars, closeVars
  <2>2. ChainInv'
    BY <1>2 DEF ConsoleTypes, ChainInv, NoneYet, ListenFails, vars, threadVars, chainVars,
                clientVars, closeVars
  <2>3. CloseInv'
    BY <1>2 DEF ConsoleTypes, ChainInv, NoneYet, CloseInv, Met, ListenFails, vars,
                threadVars, chainVars, clientVars, closeVars
  <2> QED
    BY <2>1, <2>2, <2>3
<1>3. CASE c \in Clients /\ FindEnded(c)
  <2>1. ConsoleTypes'
    BY <1>3 DEF ConsoleTypes, FindEnded, IsShutdown, chainVars, clientVars, closeVars
  <2>2. ChainInv'
    BY <1>3 DEF ConsoleTypes, ChainInv, NoneYet, FindEnded, IsShutdown, vars, threadVars,
                chainVars, clientVars, closeVars
  <2>3. CloseInv'
    BY <1>3 DEF ConsoleTypes, ChainInv, NoneYet, CloseInv, Met, FindEnded, IsShutdown, vars,
                threadVars, chainVars, clientVars, closeVars
  <2> QED
    BY <2>1, <2>2, <2>3
<1>4. CASE Reap
  <2>1. ConsoleTypes'
    BY <1>4 DEF ConsoleTypes, Reap, IsShutdown, chainVars, clientVars, closeVars
  <2>2. ChainInv'
    BY <1>4 DEF ConsoleTypes, ChainInv, NoneYet, Reap, IsShutdown, vars, threadVars,
                chainVars, clientVars, closeVars
  <2>3. CloseInv'
    BY <1>4 DEF ConsoleTypes, ChainInv, NoneYet, CloseInv, Met, Reap, IsShutdown, vars,
                threadVars, chainVars, clientVars, closeVars
  <2> QED
    BY <2>1, <2>2, <2>3
<1>5. CASE LoopLeaves
  <2>1. ConsoleTypes'
    BY <1>5 DEF ConsoleTypes, LoopLeaves, chainVars, clientVars, closeVars
  <2>2. ChainInv'
    BY <1>5 DEF ConsoleTypes, ChainInv, NoneYet, LoopLeaves, vars, threadVars, chainVars,
                clientVars, closeVars
  <2>3. CloseInv'
    BY <1>5 DEF ConsoleTypes, ChainInv, NoneYet, CloseInv, Met, LoopLeaves, vars,
                threadVars, chainVars, clientVars, closeVars
  <2> QED
    BY <2>1, <2>2, <2>3
<1> QED
  BY <1>1, <1>2, <1>3, <1>4, <1>5

-----------------------------------------------------------------------------
\* So does a step of main, which stops the console, and the start of it.
LEMMA ClosingSteps ==
    ASSUME ConsoleInv, NEW c,
           \/ BeginClose \/ JoinClients \/ JoinClient \/ JoinLoop \/ LoopJoined
           \/ ClientDestroyed \/ PoolJoined \/ StartTelnet \/ Return
           \/ c \in Clients /\ (\/ DisconnectClient(c) \/ DisconnectThrows(c)
                                \/ PickClient(c) \/ LetGo(c) \/ DestroyClient(c))
    PROVE  ConsoleTypes' /\ ChainInv' /\ CloseInv'
<1> USE NoClientIsNone DEF ConsoleInv
<1>1. CASE BeginClose
  <2> USE DEF BeginClose, Stopping, vars, threadVars, clientVars
  <2>1. ConsoleTypes'
    BY <1>1 DEF ConsoleTypes
  <2>2. ChainInv'
    BY <1>1 DEF ConsoleTypes, ChainInv, NoneYet
  <2>3. CASE tick
    <3>1. CloseInv'
      BY <1>1, <2>3 DEF CloseInv, Met
    <3> QED
      BY <2>1, <2>2, <3>1
  <2>4. CASE ~tick
    <3>1. NoneYet
      BY <1>1, <2>4 DEF ChainInv
    <3>2. CloseInv'
      BY <1>1, <2>4, <3>1 DEF CloseInv, Met, NoneYet
    <3> QED
      BY <2>1, <2>2, <3>2
  <2> QED
    BY <2>3, <2>4
<1>2. CASE c \in Clients /\ DisconnectClient(c)
  <2>1. ConsoleTypes'
    BY <1>2 DEF ConsoleTypes, DisconnectClient, Stopping, chainVars, clientVars, closeVars
  <2>2. ChainInv'
    BY <1>2 DEF ConsoleTypes, ChainInv, NoneYet, DisconnectClient, Stopping, vars,
                threadVars, chainVars, clientVars, closeVars
  <2>3. CloseInv'
    BY <1>2 DEF ConsoleTypes, ChainInv, NoneYet, CloseInv, Met, DisconnectClient, Stopping,
                vars, threadVars, chainVars, clientVars, closeVars
  <2> QED
    BY <2>1, <2>2, <2>3
<1>3. CASE c \in Clients /\ DisconnectThrows(c)
  <2>1. ConsoleTypes'
    BY <1>3 DEF ConsoleTypes, DisconnectThrows, Stopping, TelnetThrows, consoleVars,
                chainVars, clientVars, closeVars
  <2>2. ChainInv'
    BY <1>3 DEF ConsoleTypes, ChainInv, NoneYet, DisconnectThrows, Stopping,
                TelnetThrows, threadVars, consoleVars, chainVars, clientVars, closeVars
  <2>3. CloseInv'
    BY <1>3 DEF ConsoleTypes, ChainInv, NoneYet, CloseInv, Met, DisconnectThrows, Stopping,
                TelnetThrows, threadVars, consoleVars, chainVars, clientVars, closeVars
  <2> QED
    BY <2>1, <2>2, <2>3
<1>4. CASE JoinClients
  <2>1. ConsoleTypes'
    BY <1>4 DEF ConsoleTypes, JoinClients, WalkEnds, Stopping, chainVars, clientVars,
                closeVars
  <2>2. ChainInv'
    BY <1>4 DEF ConsoleTypes, ChainInv, NoneYet, JoinClients, WalkEnds, Stopping, vars,
                threadVars, chainVars, clientVars, closeVars
  <2>3. CloseInv'
    BY <1>4 DEF ConsoleTypes, ChainInv, NoneYet, CloseInv, Met, JoinClients, WalkEnds,
                Stopping, vars, threadVars, chainVars, clientVars, closeVars
  <2> QED
    BY <2>1, <2>2, <2>3
<1>5. CASE c \in Clients /\ PickClient(c)
  <2>1. ConsoleTypes'
    BY <1>5 DEF ConsoleTypes, PickClient, Stopping, chainVars, clientVars, closeVars
  <2>2. ChainInv'
    BY <1>5 DEF ConsoleTypes, ChainInv, NoneYet, PickClient, Stopping, vars, threadVars,
                chainVars, clientVars, closeVars
  <2>3. CloseInv'
    BY <1>5 DEF ConsoleTypes, ChainInv, NoneYet, CloseInv, Met, PickClient, Stopping, vars,
                threadVars, chainVars, clientVars, closeVars
  <2> QED
    BY <2>1, <2>2, <2>3
<1>6. CASE JoinClient
  <2>1. ConsoleTypes'
    BY <1>6 DEF ConsoleTypes, JoinClient, IsShutdown, Stopping, chainVars, clientVars,
                closeVars
  <2>2. ChainInv'
    BY <1>6 DEF ConsoleTypes, ChainInv, NoneYet, JoinClient, IsShutdown, Stopping, vars,
                threadVars, chainVars, clientVars, closeVars
  <2>3. CloseInv'
    BY <1>6 DEF ConsoleTypes, ChainInv, NoneYet, CloseInv, Met, JoinClient, IsShutdown,
                Stopping, vars, threadVars, chainVars, clientVars, closeVars
  <2> QED
    BY <2>1, <2>2, <2>3
<1>7. CASE JoinLoop
  <2>1. ConsoleTypes'
    BY <1>7 DEF ConsoleTypes, JoinLoop, WalkEnds, Stopping, chainVars, clientVars, closeVars
  <2>2. ChainInv'
    BY <1>7 DEF ConsoleTypes, ChainInv, NoneYet, JoinLoop, WalkEnds, Stopping, vars,
                threadVars, chainVars, clientVars, closeVars
  <2>3. CloseInv'
    BY <1>7 DEF ConsoleTypes, ChainInv, NoneYet, CloseInv, Met, JoinLoop, WalkEnds,
                Stopping, vars, threadVars, chainVars, clientVars, closeVars
  <2> QED
    BY <2>1, <2>2, <2>3
<1>8. CASE LoopJoined
  <2>1. ConsoleTypes'
    BY <1>8 DEF ConsoleTypes, LoopJoined, Stopping, chainVars, clientVars, closeVars
  <2>2. ChainInv'
    BY <1>8 DEF ConsoleTypes, ChainInv, NoneYet, LoopJoined, Stopping, vars, threadVars,
                chainVars, clientVars, closeVars
  <2>3. CloseInv'
    BY <1>8 DEF ConsoleTypes, ChainInv, NoneYet, CloseInv, Met, LoopJoined, Stopping, vars,
                threadVars, chainVars, clientVars, closeVars
  <2> QED
    BY <2>1, <2>2, <2>3
<1>9. CASE StartTelnet
  <2>1. app = "config" /\ loop = "none" /\ main # "returned" /\ telnetUp' \in BOOLEAN
    BY <1>9, TelnetAssumption DEF ChainInv, AppInv, StartTelnet, LoadConfig
  <2>2. ConsoleTypes'
    BY <1>9, <2>1 DEF ConsoleTypes, StartTelnet, chainVars, clientVars, closeVars
  <2>3. ChainInv'
    BY <1>9 DEF ConsoleTypes, ChainInv, NoneYet, StartTelnet, LoadConfig, chainVars,
                clientVars, closeVars
  <2>4. CloseInv'
    BY <1>9, <2>1 DEF ChainInv, CloseInv, Met, StartTelnet, LoadConfig, chainVars,
                      clientVars,
                      closeVars
  <2> QED
    BY <2>2, <2>3, <2>4
<1>10. CASE Return
  <2>1. ConsoleTypes'
    BY <1>10 DEF ConsoleTypes, Return, Join, consoleVars, chainVars, clientVars, closeVars
  <2>2. ChainInv'
    BY <1>10 DEF ConsoleTypes, ChainInv, NoneYet, Return, Join, threadVars, consoleVars,
                 chainVars, clientVars, closeVars
  <2>3. CloseInv'
    BY <1>10 DEF ConsoleTypes, ChainInv, NoneYet, CloseInv, Met, Return, Join, threadVars,
                 consoleVars, chainVars, clientVars, closeVars
  <2> QED
    BY <2>1, <2>2, <2>3
<1>11. CASE ClientDestroyed
  <2>1. ConsoleTypes'
    BY <1>11 DEF ConsoleTypes, ChainInv, ClientDestroyed, Stopping, chainVars, clientVars, closeVars
  <2>2. ChainInv'
    BY <1>11 DEF ConsoleTypes, ChainInv, NoneYet, ClientDestroyed, Stopping, vars, threadVars,
                chainVars, clientVars, closeVars
  <2>3. CloseInv'
    BY <1>11 DEF ConsoleTypes, ChainInv, NoneYet, CloseInv, Met, ClientDestroyed, Stopping, vars,
                threadVars, chainVars, clientVars, closeVars
  <2> QED
    BY <2>1, <2>2, <2>3
<1>12. CASE PoolJoined
  <2>1. ConsoleTypes'
    BY <1>12 DEF ConsoleTypes, ChainInv, PoolJoined, Stopping, chainVars, clientVars, closeVars
  <2>2. ChainInv'
    BY <1>12 DEF ConsoleTypes, ChainInv, NoneYet, PoolJoined, Stopping, vars, threadVars,
                chainVars, clientVars, closeVars
  <2>3. CloseInv'
    BY <1>12 DEF ConsoleTypes, ChainInv, NoneYet, CloseInv, Met, PoolJoined, Stopping, vars,
                threadVars, chainVars, clientVars, closeVars
  <2> QED
    BY <2>1, <2>2, <2>3
<1>13. CASE c \in Clients /\ LetGo(c)
  <2>1. ConsoleTypes'
    BY <1>13 DEF ConsoleTypes, ChainInv, LetGo, Held, Stopping, chainVars, clientVars, closeVars
  <2>2. ChainInv'
    BY <1>13 DEF ConsoleTypes, ChainInv, NoneYet, LetGo, Held, Stopping, vars, threadVars,
                chainVars, clientVars, closeVars
  <2>3. CloseInv'
    BY <1>13 DEF ConsoleTypes, ChainInv, NoneYet, CloseInv, Met, LetGo, Held, Stopping, vars,
                threadVars, chainVars, clientVars, closeVars
  <2> QED
    BY <2>1, <2>2, <2>3
<1>14. CASE c \in Clients /\ DestroyClient(c)
  <2>1. ConsoleTypes'
    BY <1>14 DEF ConsoleTypes, ChainInv, DestroyClient, Held, Stopping, chainVars, clientVars, closeVars
  <2>2. ChainInv'
    BY <1>14 DEF ConsoleTypes, ChainInv, NoneYet, DestroyClient, Held, Stopping, vars, threadVars,
                chainVars, clientVars, closeVars
  <2>3. CloseInv'
    BY <1>14 DEF ConsoleTypes, ChainInv, NoneYet, CloseInv, Met, DestroyClient, Held, Stopping, vars,
                threadVars, chainVars, clientVars, closeVars
  <2> QED
    BY <2>1, <2>2, <2>3
<1> QED
  BY <1>1, <1>2, <1>3, <1>4, <1>5, <1>6, <1>7, <1>8, <1>9, <1>10, <1>11, <1>12, <1>13, <1>14

\* A step of the process alone, other than the return of main, keeps it too.
LEMMA QuietSteps ==
    ASSUME ConsoleInv, UNCHANGED consoleVars, Next \/ UNCHANGED vars,
           main' = "returned" => main = "returned"
    PROVE  ConsoleTypes' /\ ChainInv' /\ CloseInv'
<1> USE DEF ConsoleInv, consoleVars, chainVars, clientVars, closeVars
<1>1. /\ app' \in {"none", "config"} => app \in {"none", "config"}
      /\ app = "exited" => app' = "exited"
  BY AppMoves
<1>2. ConsoleTypes'
  BY DEF ConsoleTypes
<1>3. ChainInv'
  BY <1>1 DEF ChainInv, NoneYet
<1>4. CloseInv'
  BY DEF CloseInv, Met
<1> QED
  BY <1>2, <1>3, <1>4

LEMMA ConsoleInvNext == ConsoleInv /\ [ConsoleNext]_allVars => ConsoleInv'
<1> SUFFICES ASSUME ConsoleInv, [ConsoleNext]_allVars PROVE ConsoleInv'
  OBVIOUS
<1>1. [Next]_vars /\ AppInv'
  BY ConsoleRefines, AppInvNext DEF ConsoleInv
<1> SUFFICES ConsoleTypes' /\ ChainInv' /\ CloseInv'
  BY <1>1 DEF ConsoleInv
<1>2. CASE StartTelnet \/ ClosingStep
  <2>1. CASE \E c \in Clients : \/ DisconnectClient(c) \/ DisconnectThrows(c)
                                \/ PickClient(c) \/ LetGo(c) \/ DestroyClient(c)
    BY <2>1, ClosingSteps
  <2>2. CASE \/ BeginClose \/ JoinClients \/ JoinClient \/ JoinLoop \/ LoopJoined
             \/ ClientDestroyed \/ PoolJoined \/ Return \/ StartTelnet
    BY <2>2, ClosingSteps
  <2> QED
    BY <1>2, <2>1, <2>2 DEF ClosingStep
<1>3. CASE PoolStep \/ Refuse \/ \E c \in Clients : AcceptFails(c)
  BY <1>3, ChainSteps DEF PoolStep
<1>4. CASE LoopStep \/ ListenFails
  BY <1>4, LoopSteps DEF LoopStep
<1>5. CASE Peers \/ \E c \in Clients : ClientStep(c)
  BY <1>5, ChainSteps, ClientSteps DEF Peers, ClientStep
<1>6. CASE UNCHANGED consoleVars /\ (\/ OtherAppSteps \/ SpuriousWakeup \/ HandlerStep
                                     \/ SignalArrives \/ LookupThrows)
  <2>1. main' = "returned" => main = "returned"
    BY <1>6 DEF OtherAppSteps, Construct, ParseFails, Start, StartupFails, OnStartReturns,
                BecomeReady, LoopTest, Wait, Leave, SpuriousWakeup, HandlerStep,
                SignalShutdown, SignalMarks, SignalArrives, LookupThrows, TelnetThrows
  <2> QED
    BY <1>1, <1>6, <2>1, QuietSteps
<1>7. CASE UNCHANGED consoleVars /\ UNCHANGED vars
  <2>1. main' = main
    BY <1>7 DEF vars
  <2> QED
    BY <1>7, <2>1, QuietSteps
<1> QED
  BY <1>2, <1>3, <1>4, <1>5, <1>6, <1>7
     DEF ConsoleNext, OtherAppSteps, LookupThrows, Ended, Stuck, allVars

\* Every variable of the console keeps to its values, and the clients its
\* variables name exist (TelnetThread, TelnetClientThread).
THEOREM ConsoleTypeCorrect == ConsoleSpec => []ConsoleTypeOK
<1>1. ConsoleInv => ConsoleTypeOK
  BY ConsoleTypesOK DEF ConsoleInv, AppInv
<1> QED
  BY ConsoleInvInit, ConsoleInvNext, <1>1, PTL DEF ConsoleSpec

\* No client calls the server, or can, once s_instance is cleared and when main
\* returns, whatever clients come and go while the console is being stopped, but
\* for those the property names (before_shutdown, ~AppThread).
THEOREM ClientsGone == ConsoleSpec => []ClientsEndBeforeServer
<1>1. ConsoleInv => ClientsEndBeforeServer
  <2> SUFFICES ASSUME ConsoleInv, InstanceCleared \/ main = "returned", NEW c \in Met
               PROVE  /\ client[c] # "commanding"
                      /\ client[c] \in {"listed", "writing", "talking"} => socket[c] # "open"
    BY DEF ClientsEndBeforeServer, Met
  <2>1. loop = "none" \/ closer \in {"destroy", "done"}
    BY DEF ConsoleInv, CloseInv, InstanceCleared
  <2>2. CASE loop = "none"
    BY <2>2 DEF ConsoleInv, ChainInv, NoneYet, Met
  <2>3. CASE closer \in {"destroy", "done"}
    BY <2>3 DEF ConsoleInv, CloseInv
  <2> QED
    BY <2>1, <2>2, <2>3
<1> QED
  BY ConsoleInvInit, ConsoleInvNext, <1>1, PTL DEF ConsoleSpec
=============================================================================
