-------------------------------- MODULE Telnet --------------------------------
(***************************************************************************)
(* The telnet console (TelnetThread, TelnetClientThread) and the process   *)
(* that starts and stops it.  Five kinds of threads: main, which stops the *)
(* console in ~AppThread; the application thread; the telnet thread, which *)
(* reaps clients that have ended; the one pool thread that runs the        *)
(* acceptor's handlers; and a thread for each client.                      *)
(*                                                                         *)
(* The pool thread fills the map of clients, the telnet thread empties it  *)
(* and main walks over it, without a lock.  A walk may or may not meet     *)
(* what is put in meanwhile; damage to the container itself, and a client  *)
(* joined by two threads at once, are not modelled.                        *)
(***************************************************************************)
EXTENDS AppThread, FiniteSets

CONSTANT MaxClients      \* bound: connections made in a run

ASSUME ClientAssumption == MaxClients \in Nat

\* Connections are numbered in the order they are made.
Clients  == 1 .. MaxClients
NoClient == 0

VARIABLES
    loop,       \* the telnet thread: none, listen, running, left
    tick,       \* its _canTick
    accept,     \* the accept chain: none, armed, raw, listed, started, dropping, test, post, ended
    accepting,  \* the client whose handler runs
    client,     \* away, knocking, listed, writing, talking, commanding, ended
    socket,     \* of a client: open, reset by its peer, closed by the server
    listed,     \* _telnetThreadMap
    sweeping,   \* the client the telnet thread has found to be shut down
    closer,     \* ~AppThread on main: none, disconnect, pick, join, loop, destroy, done
    visited,    \* clients its present walk has met
    joining,    \* the client it joins
    refused,    \* history: a client was refused
    missed      \* history: clients before_shutdown need not meet

chainVars   == <<accept, accepting, refused>>
clientVars  == <<client, socket, listed>>
closeVars   == <<closer, visited, joining>>
consoleVars == <<loop, tick, chainVars, clientVars, sweeping, closeVars, missed>>
allVars     == <<vars, consoleVars>>

ConsoleInit ==
    /\ Init
    /\ loop = "none" /\ tick = FALSE
    /\ accept = "none" /\ accepting = NoClient
    /\ client = [c \in Clients |-> "away"]
    /\ socket = [c \in Clients |-> "closed"]
    /\ listed = {} /\ sweeping = NoClient
    /\ closer = "none" /\ visited = {} /\ joining = NoClient
    /\ refused = FALSE /\ missed = {}

Becomes(c, state) == client' = [client EXCEPT ![c] = state]

\* ~AppThread has cleared s_instance.
InstanceCleared == closer \in {"destroy", "done"}

\* The one pool thread is not running the acceptor's handler, nor has it ended.
\* It also runs what completes a client's read.
PoolFree == accept \notin {"listed", "started", "dropping"} /\ closer # "done"

\* IsShutdown() of a client's thread, which is TRUE until it is started.
IsShutdown(c) == client[c] \in {"listed", "ended"}

-----------------------------------------------------------------------------
(***************************************************************************)
(* The acceptor's handlers, on the pool thread.                            *)
(***************************************************************************)
Knock(c) ==
    /\ Alive /\ loop = "running" /\ client[c] = "away"
    /\ \A d \in Clients : d < c => client[d] # "away"
    /\ Becomes(c, "knocking")
    /\ UNCHANGED <<vars, loop, tick, chainVars, socket, listed, sweeping, closeVars, missed>>

\* The connection that has waited longest.
First(c) == client[c] = "knocking" /\ \A d \in Clients : d < c => client[d] # "knocking"

\* An accept completes; its handler is queued.
Accepted(c) ==
    /\ Alive /\ accept = "armed" /\ First(c)
    /\ accept' = "raw" /\ accepting' = c
    /\ UNCHANGED <<vars, loop, tick, refused, clientVars, sweeping, closeVars, missed>>

\* An accept fails, and the connection with it.
AcceptFails(c) ==
    /\ Alive /\ accept = "armed" /\ First(c)
    /\ accept' = "test"
    /\ Becomes(c, "ended")
    /\ UNCHANGED <<vars, loop, tick, accepting, refused, socket, listed, sweeping,
                   closeVars, missed>>

\* remote_endpoint() throws when the peer has reset the connection by now.
LookupThrows ==
    /\ accept = "raw"
    /\ TelnetThrows
    /\ UNCHANGED consoleVars

\* An address that is not on the whitelist: the handler returns, and no accept
\* is posted again.
Refuse ==
    /\ Alive /\ accept = "raw"
    /\ accept' = "ended" /\ accepting' = NoClient /\ refused' = TRUE
    /\ Becomes(accepting, "ended")
    /\ UNCHANGED <<vars, loop, tick, socket, listed, sweeping, closeVars, missed>>

\* A client enters the map before its thread is started.
InsertClient ==
    /\ Alive /\ accept = "raw"
    /\ accept' = "listed"
    /\ Becomes(accepting, "listed")
    /\ socket' = [socket EXCEPT ![accepting] = "open"]
    /\ listed' = listed \cup {accepting}
    /\ missed' = IF closer = "none" THEN missed ELSE missed \cup {accepting}
    /\ UNCHANGED <<vars, loop, tick, accepting, refused, sweeping, closeVars>>

\* The thread starts, and greets its peer.
StartClient ==
    /\ Alive /\ accept = "listed"
    /\ accept' = "started"
    /\ Becomes(accepting, "writing")
    /\ UNCHANGED <<vars, loop, tick, accepting, refused, socket, listed, sweeping,
                   closeVars, missed>>

\* Faulty variant: no accept is posted again.
HandlerDone_NoAccept ==
    /\ Alive /\ accept = "started" /\ accepting \in listed
    /\ accept' = "ended" /\ accepting' = NoClient
    /\ UNCHANGED <<vars, loop, tick, refused, clientVars, sweeping, closeVars, missed>>

\* The handler lets go of the client, ...
HandlerDone ==
    /\ Alive /\ accept = "started" /\ accepting \in listed
    /\ accept' = "test" /\ accepting' = NoClient
    /\ UNCHANGED <<vars, loop, tick, refused, clientVars, sweeping, closeVars, missed>>

\* ... which nobody else holds if it has been erased meanwhile: its destructor
\* closes the socket and joins its thread, on the pool thread.
HandlerDrops ==
    /\ Alive /\ accept = "started" /\ accepting \notin listed
    /\ accept' = "dropping"
    /\ socket' = [socket EXCEPT ![accepting] = "closed"]
    /\ UNCHANGED <<vars, loop, tick, accepting, refused, client, listed, sweeping,
                   closeVars, missed>>

DropClient ==
    /\ Alive /\ accept = "dropping" /\ client[accepting] = "ended"
    /\ accept' = "test" /\ accepting' = NoClient
    /\ UNCHANGED <<vars, loop, tick, refused, clientVars, sweeping, closeVars, missed>>

\* AsyncAccept tests CanTick, and then posts: a stop may come in between.
TestTick ==
    /\ Alive /\ accept = "test"
    /\ accept' = IF tick THEN "post" ELSE "ended"
    /\ UNCHANGED <<vars, loop, tick, accepting, refused, clientVars, sweeping, closeVars,
                   missed>>

PostAccept ==
    /\ Alive /\ accept = "post" /\ ~InstanceCleared
    /\ accept' = "armed"
    /\ UNCHANGED <<vars, loop, tick, accepting, refused, clientVars, sweeping, closeVars,
                   missed>>

-----------------------------------------------------------------------------
(***************************************************************************)
(* A client and its thread.  A peer sends lines, or does not, as it likes. *)
(* A write is synchronous; a read is completed by the pool thread.         *)
(***************************************************************************)

Writes(c) ==
    /\ Alive /\ client[c] = "writing" /\ socket[c] = "open"
    /\ Becomes(c, "talking")
    /\ UNCHANGED <<vars, loop, tick, chainVars, socket, listed, sweeping, closeVars, missed>>

\* A write fails, which ends the thread.
WriteFails(c) ==
    /\ Alive /\ client[c] = "writing" /\ socket[c] # "open"
    /\ Becomes(c, "ended")
    /\ UNCHANGED <<vars, loop, tick, chainVars, socket, listed, sweeping, closeVars, missed>>

\* The bound leaves a stop for every command that has been read.
StopsLeft == stops + Cardinality({c \in Clients : client[c] = "commanding"}) < MaxStops

\* A command line has been read and the server's instance found.  A line that asks
\* nothing of the server, or an answer to it, leaves the client where it was.
ReadCommand(c) ==
    /\ Alive /\ client[c] = "talking" /\ socket[c] = "open" /\ PoolFree
    /\ StopsLeft /\ InstanceSet /\ ~InstanceCleared
    /\ Becomes(c, "commanding")
    /\ UNCHANGED <<vars, loop, tick, chainVars, socket, listed, sweeping, closeVars, missed>>

\* HandleCommand("/exit") of the instance found.
Command(c) ==
    /\ Alive /\ client[c] = "commanding"
    /\ ExitCommand
    /\ Becomes(c, "writing")
    /\ UNCHANGED <<loop, tick, chainVars, socket, listed, sweeping, closeVars, missed>>

\* "quit", a login that is refused, or a command when there is no instance.
Quit(c) ==
    /\ Alive /\ client[c] = "talking" /\ socket[c] = "open" /\ PoolFree
    /\ Becomes(c, "ended")
    /\ socket' = [socket EXCEPT ![c] = "closed"]
    /\ UNCHANGED <<vars, loop, tick, chainVars, listed, sweeping, closeVars, missed>>

PeerResets(c) ==
    /\ Alive /\ socket[c] = "open"
    /\ client[c] \in {"listed", "writing", "talking", "commanding"}
    /\ socket' = [socket EXCEPT ![c] = "reset"]
    /\ UNCHANGED <<vars, loop, tick, chainVars, client, listed, sweeping, closeVars, missed>>

\* The pool thread completes a read that failed, which ends the client's thread.
ReadFails(c) ==
    /\ Alive /\ client[c] = "talking" /\ socket[c] # "open" /\ PoolFree
    /\ Becomes(c, "ended")
    /\ UNCHANGED <<vars, loop, tick, chainVars, socket, listed, sweeping, closeVars, missed>>

-----------------------------------------------------------------------------
(***************************************************************************)
(* The telnet thread.                                                      *)
(***************************************************************************)
Listen ==
    /\ Alive /\ loop = "listen"
    /\ loop' = "running"
    /\ accept' = "test"
    /\ UNCHANGED <<vars, tick, accepting, refused, clientVars, sweeping, closeVars, missed>>

\* Faulty variant: a console that cannot listen counts as a failed start-up.
ListenFails_FailsStartup ==
    /\ Alive /\ loop = "listen"
    /\ loop' = "left" /\ tick' = FALSE
    /\ accept' = "ended"
    /\ failed' = TRUE /\ app' = "loop"
    /\ UNCHANGED <<main, canTick, isShutdown, appStatus, exitCode, stoppedAt, askVars,
                   telnetUp, accepting, refused, clientVars, sweeping, closeVars, missed>>

\* The thread stops itself; AsyncAccept posts nothing then.
ListenFails ==
    /\ Alive /\ loop = "listen"
    /\ loop' = "left" /\ tick' = FALSE
    /\ accept' = "ended"
    /\ UNCHANGED <<vars, accepting, refused, clientVars, sweeping, closeVars, missed>>

\* A client that has ended, or is not started yet, is found in the map, ...
FindEnded(c) ==
    /\ Alive /\ loop = "running" /\ sweeping = NoClient
    /\ c \in listed /\ IsShutdown(c)
    /\ sweeping' = c
    /\ UNCHANGED <<vars, loop, tick, chainVars, clientVars, closeVars, missed>>

\* ... joined, if it has been started by now, and erased, which closes the
\* socket of one that nobody else holds.
Reap ==
    /\ Alive /\ sweeping # NoClient /\ IsShutdown(sweeping)
    /\ listed' = listed \ {sweeping}
    /\ missed' = IF client[sweeping] = "listed" THEN missed \cup {sweeping} ELSE missed
    /\ socket' = IF client[sweeping] = "ended" THEN [socket EXCEPT ![sweeping] = "closed"]
                                               ELSE socket
    /\ sweeping' = NoClient
    /\ UNCHANGED <<vars, loop, tick, chainVars, client, closeVars>>

LoopLeaves ==
    /\ Alive /\ loop = "running" /\ ~tick /\ sweeping = NoClient
    /\ loop' = "left"
    /\ UNCHANGED <<vars, tick, chainVars, clientVars, sweeping, closeVars, missed>>

-----------------------------------------------------------------------------
(***************************************************************************)
(* ~AppThread on main: _telnetThread->shutdown(), whose before_shutdown    *)
(* disconnects every client of the map and then joins every one.  Then     *)
(* s_instance is cleared and TelnetThread's members are destroyed: the map *)
(* with the clients in it, and the pool, whose destructor stops and joins  *)
(* its thread.                                                             *)
(***************************************************************************)
Stopping == main = "joining" /\ handler = "none" /\ app = "exited"

\* _canTick is cleared and a pending accept cancelled, unless the thread has
\* stopped itself.
BeginClose ==
    /\ Stopping /\ loop # "none" /\ closer = "none"
    /\ tick' = FALSE
    /\ closer' = IF tick THEN "disconnect" ELSE "loop"
    /\ accept' = IF tick /\ accept = "armed" THEN "test" ELSE accept
    /\ UNCHANGED <<vars, loop, accepting, refused, clientVars, sweeping, visited, joining,
                   missed>>

\* Faulty variant: the client's thread is told to stop, its socket stays open.
DisconnectClient_KeepsSocket(c) ==
    /\ Stopping /\ closer = "disconnect" /\ c \in listed \ visited /\ socket[c] # "reset"
    /\ visited' = visited \cup {c}
    /\ UNCHANGED <<vars, loop, tick, chainVars, clientVars, sweeping, closer, joining,
                   missed>>

\* Disconnect: shutdown of a socket that its peer has reset throws.
DisconnectClient(c) ==
    /\ Stopping /\ closer = "disconnect" /\ c \in listed \ visited /\ socket[c] # "reset"
    /\ socket' = [socket EXCEPT ![c] = "closed"]
    /\ visited' = visited \cup {c}
    /\ UNCHANGED <<vars, loop, tick, chainVars, client, listed, sweeping, closer, joining,
                   missed>>

DisconnectThrows(c) ==
    /\ Stopping /\ closer = "disconnect" /\ c \in listed \ visited /\ socket[c] = "reset"
    /\ TelnetThrows
    /\ UNCHANGED consoleVars

\* The walk has met everything that was in the map when it began.
WalkEnds == listed \ missed \subseteq visited

JoinClients ==
    /\ Stopping /\ closer = "disconnect" /\ WalkEnds
    /\ closer' = "pick" /\ visited' = {}
    /\ UNCHANGED <<vars, loop, tick, chainVars, clientVars, sweeping, joining, missed>>

\* Faulty variant: the clients are not joined.
PickClient_NoJoin(c) ==
    /\ Stopping /\ closer = "pick" /\ c \in listed \ visited
    /\ visited' = visited \cup {c}
    /\ UNCHANGED <<vars, loop, tick, chainVars, clientVars, sweeping, closer, joining, missed>>

PickClient(c) ==
    /\ Stopping /\ closer = "pick" /\ c \in listed \ visited
    /\ visited' = visited \cup {c}
    /\ joining' = c /\ closer' = "join"
    /\ UNCHANGED <<vars, loop, tick, chainVars, clientVars, sweeping, missed>>

JoinClient ==
    /\ Stopping /\ closer = "join" /\ IsShutdown(joining)
    /\ joining' = NoClient /\ closer' = "pick"
    /\ UNCHANGED <<vars, loop, tick, chainVars, clientVars, sweeping, visited, missed>>

JoinLoop ==
    /\ Stopping /\ closer = "pick" /\ WalkEnds
    /\ closer' = "loop" /\ visited' = {}
    /\ UNCHANGED <<vars, loop, tick, chainVars, clientVars, sweeping, joining, missed>>

LoopJoined ==
    /\ Stopping /\ closer = "loop" /\ loop = "left"
    /\ closer' = "destroy"
    /\ accept' = IF accept = "armed" THEN "test" ELSE accept
    /\ UNCHANGED <<vars, loop, tick, accepting, refused, clientVars, sweeping, visited,
                   joining, missed>>

Held(c) == accept \in {"listed", "started"} /\ accepting = c

\* A client that the acceptor's handler holds is left to it; ...
LetGo(c) ==
    /\ Stopping /\ closer = "destroy" /\ joining = NoClient
    /\ c \in listed /\ Held(c)
    /\ listed' = listed \ {c} /\ missed' = missed \cup {c}
    /\ UNCHANGED <<vars, loop, tick, chainVars, client, socket, sweeping, closeVars>>

\* ... the destructor of another closes its socket ...
DestroyClient(c) ==
    /\ Stopping /\ closer = "destroy" /\ joining = NoClient
    /\ c \in listed /\ ~Held(c)
    /\ socket' = [socket EXCEPT ![c] = "closed"]
    /\ joining' = c
    /\ UNCHANGED <<vars, loop, tick, chainVars, client, listed, sweeping, closer, visited,
                   missed>>

\* ... and joins its thread.
ClientDestroyed ==
    /\ Stopping /\ closer = "destroy" /\ joining # NoClient /\ client[joining] = "ended"
    /\ listed' = listed \ {joining} /\ joining' = NoClient
    /\ UNCHANGED <<vars, loop, tick, chainVars, client, socket, sweeping, closer, visited,
                   missed>>

PoolJoined ==
    /\ Stopping /\ closer = "destroy" /\ joining = NoClient /\ listed = {} /\ PoolFree
    /\ closer' = "done"
    /\ accept' = "ended"
    /\ UNCHANGED <<vars, loop, tick, accepting, refused, clientVars, sweeping, visited,
                   joining, missed>>

-----------------------------------------------------------------------------
\* The application's own steps: start-up may start the telnet thread, and main
\* returns when it is stopped.
StartTelnet ==
    /\ Alive /\ LoadConfig
    /\ loop' = IF telnetUp' THEN "listen" ELSE loop
    /\ tick' = telnetUp'
    /\ UNCHANGED <<chainVars, clientVars, sweeping, closeVars, missed>>

Return ==
    /\ Join /\ (loop = "none" \/ closer = "done")
    /\ UNCHANGED consoleVars

OtherAppSteps ==
    /\ Alive
    /\ Construct \/ ParseFails \/ Start \/ StartupFails \/ OnStartReturns \/ BecomeReady
       \/ LoopTest \/ Wait \/ Leave
    /\ UNCHANGED consoleVars

ClosingStep == \/ BeginClose \/ JoinClients \/ JoinClient \/ JoinLoop \/ LoopJoined
               \/ ClientDestroyed \/ PoolJoined \/ Return
               \/ \E c \in Clients : \/ DisconnectClient(c) \/ DisconnectThrows(c)
                                     \/ PickClient(c) \/ LetGo(c) \/ DestroyClient(c)

PoolStep == \/ InsertClient \/ StartClient \/ HandlerDone \/ HandlerDrops \/ DropClient
            \/ TestTick \/ PostAccept
            \/ \E c \in Clients : Accepted(c)

LoopStep == Listen \/ Reap \/ LoopLeaves \/ \E c \in Clients : FindEnded(c)

ClientStep(c) == Writes(c) \/ WriteFails(c) \/ Command(c) \/ ReadFails(c)

Peers == \E c \in Clients : Knock(c) \/ ReadCommand(c) \/ Quit(c) \/ PeerResets(c)

\* The pool thread joins a client in the handler that let go of it, and the
\* client waits for its read, which only the pool thread can complete.  The
\* process may stop for good then.
PoolDeadlock == accept = "dropping" /\ client[accepting] = "talking"

Stuck == PoolDeadlock /\ UNCHANGED allVars

ConsoleNext ==
    \/ StartTelnet \/ OtherAppSteps \/ ClosingStep \/ PoolStep \/ LoopStep
    \/ \E c \in Clients : ClientStep(c)
    \/ (SpuriousWakeup \/ HandlerStep \/ Ended) /\ UNCHANGED consoleVars
    \/ StopsLeft /\ SignalArrives /\ UNCHANGED consoleVars
    \/ Peers \/ LookupThrows \/ Refuse \/ ListenFails
    \/ \E c \in Clients : AcceptFails(c)
    \/ Stuck

ConsoleSpec == ConsoleInit /\ [][ConsoleNext]_allVars

\* Threads that can run do.  Those of the console and the signal handler have a
\* finite number of steps to take with a finite number of clients and stops, so one
\* condition does for them all.  Nothing is assumed of peers, signals, failures
\* and spurious wakeups.
FairConsoleSpec ==
    /\ ConsoleSpec
    /\ WF_allVars(StartTelnet \/ OtherAppSteps)
    /\ WF_allVars(\/ ClosingStep \/ PoolStep \/ LoopStep
                  \/ HandlerStep /\ UNCHANGED consoleVars
                  \/ \E c \in Clients : ClientStep(c))
-----------------------------------------------------------------------------
ConsoleTypeOK ==
    /\ TypeOK
    /\ loop \in {"none", "listen", "running", "left"} /\ tick \in BOOLEAN
    /\ accept \in {"none", "armed", "raw", "listed", "started", "dropping", "test", "post",
                   "ended"}
    /\ accepting \in Clients \cup {NoClient}
    /\ client \in [Clients -> {"away", "knocking", "listed", "writing", "talking",
                               "commanding", "ended"}]
    /\ socket \in [Clients -> {"open", "reset", "closed"}]
    /\ closer \in {"none", "disconnect", "pick", "join", "loop", "destroy", "done"}
    /\ {listed, visited, missed} \subseteq SUBSET Clients
    /\ {sweeping, joining} \subseteq Clients \cup {NoClient}
    /\ refused \in BOOLEAN

\* The console is an environment of AppThread: whatever its threads do, the
\* process starts, stops and answers as module AppThread says.
ImplementsAppThread == Spec

\* No client calls the server, or can, once s_instance is cleared and when main
\* returns, but one that was accepted while the console was being stopped or was
\* reaped before it had been started.
ClientsEndBeforeServer ==
    InstanceCleared \/ main = "returned" =>
        \A c \in Clients \ missed :
            /\ client[c] # "commanding"
            /\ client[c] \in {"listed", "writing", "talking"} => socket[c] # "open"

\* The process ends once the application thread has, whatever clients say or do
\* not say, unless the pool thread and a client wait for each other, or main or the
\* telnet thread joins a client that was accepted too late to be disconnected: the
\* process then waits for that client's peer.
StopEndsProcess ==
    app = "exited" ~> \/ main \in {"returned", "terminated"}
                      \/ closer = "join" /\ joining \in missed
                      \/ sweeping \in missed
                      \/ PoolDeadlock

\* Who connects is served while the console runs, until an address that is not on
\* the whitelist has been refused, when AsyncAccept is not called again, or the
\* pool thread and a client wait for each other.
EveryClientIsServed ==
    (\E c \in Clients : client[c] = "knocking") ~>
        \/ \A c \in Clients : client[c] # "knocking"
        \/ refused \/ PoolDeadlock
        \/ ~tick \/ main = "terminated"
=============================================================================
