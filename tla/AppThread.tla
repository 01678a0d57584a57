------------------------------ MODULE AppThread ------------------------------
(***************************************************************************)
(* shared/Thread.cpp and shared-server/AppThread.cpp: how a server process *)
(* starts and stops.  The main thread builds the server, starts the        *)
(* application thread and joins it; the signal handler, which interrupts   *)
(* the main thread, and telnet's "/exit" ask it to stop.                   *)
(*                                                                         *)
(* A block under _mutex is one step.  The loop of the application thread   *)
(* tests CanTick before it takes _mutex and waits without a predicate, so  *)
(* test and wait are two steps.                                            *)
(***************************************************************************)
EXTENDS Naturals

CONSTANTS MaxStops,      \* bound: signals and "/exit" commands in a run
          EnableTelnet   \* whether the telnet thread is started

ASSUME BoundAssumption == MaxStops \in Nat
ASSUME TelnetAssumption == EnableTelnet \in BOOLEAN

VARIABLES
    main,        \* program counter of AppThread::main
    app,         \* program counter of the application thread
    handler,     \* the signal handler on the main thread
    canTick,     \* _canTick
    isShutdown,  \* _isShutdown
    appStatus,   \* _appStatus
    sShutdown,   \* s_shutdown
    telnetUp,    \* whether telnet clients can issue commands
    failed,      \* exitCode of thread_loop_impl is EXIT_FAILURE
    exitCode,    \* _exitCode, and then what main returns
    stops,       \* signals delivered and commands issued so far
    stoppedAt    \* history, until the application thread ends: where it was when it
                 \* was told to stop

\* The process has not ended.
Alive == main \notin {"refused", "returned", "terminated"}

threadVars == <<app, canTick, isShutdown, appStatus, failed, exitCode, stoppedAt>>
askVars    == <<handler, sShutdown, stops>>
vars == <<main, threadVars, askVars, telnetUp>>

Init ==
    /\ main = "installed"
    /\ app = "none"
    /\ handler = "none"
    /\ canTick = FALSE
    /\ isShutdown = TRUE
    /\ appStatus = "INITIALIZING"
    /\ sShutdown = FALSE
    /\ telnetUp = FALSE
    /\ failed = FALSE
    /\ exitCode = 0
    /\ stops = 0
    /\ stoppedAt = "none"

-----------------------------------------------------------------------------
(***************************************************************************)
(* Thread::shutdown(false), by whichever thread calls it.                  *)
(***************************************************************************)

\* Faulty variant: the waiting thread is not notified.
Shutdown_NoNotify(from) ==
    /\ IF canTick
       THEN canTick' = FALSE /\ appStatus' = "STOPPING" /\ stoppedAt' = from
       ELSE UNCHANGED <<canTick, appStatus, stoppedAt>>
    /\ app' = from

\* Faulty variant: a thread that is stopping already is told to stop again.
Shutdown_Always(from) ==
    /\ canTick' = FALSE
    /\ appStatus' = "STOPPING"
    /\ stoppedAt' = from
    /\ app' = IF from = "waiting" THEN "loop" ELSE from

\* Under _mutex: clear _canTick, run before_shutdown, and notify_one, which
\* wakes the application thread only if it is waiting at this moment.  The
\* application thread is at "from".
Shutdown(from) ==
    /\ IF canTick
       THEN /\ canTick' = FALSE
            /\ appStatus' = "STOPPING"
            /\ stoppedAt' = from
       ELSE UNCHANGED <<canTick, appStatus, stoppedAt>>
    /\ app' = IF canTick /\ from = "waiting" THEN "loop" ELSE from

-----------------------------------------------------------------------------
(***************************************************************************)
(* The main thread.  While it runs the signal handler it does nothing else.*)
(***************************************************************************)
Construct ==
    /\ main = "installed" /\ handler = "none"
    /\ main' = "constructed"
    /\ UNCHANGED <<threadVars, askVars, telnetUp>>

\* parse_commandline fails, or --help was asked for.
ParseFails ==
    /\ main = "constructed" /\ handler = "none"
    /\ main' = "refused"
    /\ exitCode' = 1
    /\ UNCHANGED <<app, canTick, isShutdown, appStatus, failed, stoppedAt, askVars,
                   telnetUp>>

Start ==
    /\ main = "constructed" /\ handler = "none"
    /\ main' = "joining"
    /\ canTick' = TRUE
    /\ isShutdown' = FALSE
    /\ app' = "config"
    /\ UNCHANGED <<appStatus, failed, exitCode, stoppedAt, askVars, telnetUp>>

\* The application thread has ended: main returns ExitCode(), after the
\* destructor has stopped telnet (module Telnet) and cleared s_instance.
Join ==
    /\ main = "joining" /\ handler = "none"
    /\ app = "exited"
    /\ main' = "returned"
    /\ telnetUp' = FALSE
    /\ UNCHANGED <<threadVars, askVars>>

\* An exception that nobody catches, in a handler of the telnet console or in
\* the destructor that stops it, ends the process (module Telnet).
TelnetThrows ==
    /\ main = "joining" /\ telnetUp
    /\ main' = "terminated"
    /\ telnetUp' = FALSE
    /\ UNCHANGED <<threadVars, askVars>>

-----------------------------------------------------------------------------
(***************************************************************************)
(* The application thread: thread_loop_impl, StartupImpl.                  *)
(***************************************************************************)

\* Configuration loaded, telnet started, OnStart about to run.
LoadConfig ==
    /\ app = "config"
    /\ app' = "starting"
    /\ telnetUp' = EnableTelnet
    /\ appStatus' = "STARTING"
    /\ UNCHANGED <<main, canTick, isShutdown, failed, exitCode, stoppedAt, askVars>>

\* LoadConfig or OnStart returns false or throws.
StartupFails ==
    /\ app \in {"config", "starting"}
    /\ failed' = TRUE
    /\ Shutdown("loop")
    /\ UNCHANGED <<main, isShutdown, exitCode, askVars, telnetUp>>

OnStartReturns ==
    /\ app = "starting"
    /\ app' = "started"
    /\ UNCHANGED <<main, canTick, isShutdown, appStatus, failed, exitCode, stoppedAt,
                   askVars, telnetUp>>

BecomeReady ==
    /\ app = "started"
    /\ app' = "loop"
    /\ appStatus' = "READY"
    /\ UNCHANGED <<main, canTick, isShutdown, failed, exitCode, stoppedAt, askVars,
                   telnetUp>>

\* while (CanTick()), outside _mutex.
LoopTest ==
    /\ app = "loop"
    /\ app' = IF canTick THEN "locking" ELSE "leaving"
    /\ UNCHANGED <<main, canTick, isShutdown, appStatus, failed, exitCode, stoppedAt,
                   askVars, telnetUp>>

\* Lock _mutex and wait on the condition variable, which releases it.
Wait ==
    /\ app = "locking"
    /\ app' = "waiting"
    /\ UNCHANGED <<main, canTick, isShutdown, appStatus, failed, exitCode, stoppedAt,
                   askVars, telnetUp>>

\* The condition variable may wake its waiter for no reason.
SpuriousWakeup ==
    /\ Alive /\ app = "waiting"
    /\ app' = "loop"
    /\ UNCHANGED <<main, canTick, isShutdown, appStatus, failed, exitCode, stoppedAt,
                   askVars, telnetUp>>

\* Faulty variant: thread_loop drops what thread_loop_impl returned.
Leave_DropsExitCode ==
    /\ app = "leaving"
    /\ app' = "exited"
    /\ canTick' = FALSE
    /\ isShutdown' = TRUE
    /\ stoppedAt' = "none"
    /\ UNCHANGED <<main, appStatus, failed, exitCode, askVars, telnetUp>>

\* thread_loop stores the exit code, thread_loop_wrapper ends the thread.
Leave ==
    /\ app = "leaving"
    /\ app' = "exited"
    /\ exitCode' = IF failed THEN 1 ELSE 0
    /\ canTick' = FALSE
    /\ isShutdown' = TRUE
    /\ stoppedAt' = "none"
    /\ UNCHANGED <<main, appStatus, failed, askVars, telnetUp>>

-----------------------------------------------------------------------------
(***************************************************************************)
(* Those who ask it to stop.                                               *)
(***************************************************************************)

\* s_instance points at the server from its construction to its destruction.
InstanceSet == main \in {"constructed", "joining"}

\* SIGINT, SIGTERM or SIGABRT: ignored once s_shutdown is set or when there is
\* no server object.
SignalArrives ==
    /\ stops < MaxStops /\ handler = "none"
    /\ Alive
    /\ stops' = stops + 1
    /\ handler' = IF ~sShutdown /\ InstanceSet THEN "calling" ELSE "none"
    /\ UNCHANGED <<main, threadVars, sShutdown, telnetUp>>

SignalShutdown ==
    /\ handler = "calling"
    /\ handler' = "marking"
    /\ Shutdown(app)
    /\ UNCHANGED <<main, isShutdown, failed, exitCode, sShutdown, stops, telnetUp>>

\* s_shutdown is set whether or not shutdown found a thread to stop.
SignalMarks ==
    /\ handler = "marking"
    /\ handler' = "none"
    /\ sShutdown' = TRUE
    /\ UNCHANGED <<main, threadVars, stops, telnetUp>>

\* HandleCommand("/exit") on a telnet client's thread.
ExitCommand ==
    /\ telnetUp /\ stops < MaxStops
    /\ stops' = stops + 1
    /\ Shutdown(app)
    /\ UNCHANGED <<main, isShutdown, failed, exitCode, handler, sShutdown, telnetUp>>

-----------------------------------------------------------------------------
MainStep == Construct \/ ParseFails \/ Start \/ Join
AppStep  == Alive /\ (LoadConfig \/ StartupFails \/ OnStartReturns \/ BecomeReady
                      \/ LoopTest \/ Wait \/ Leave)
HandlerStep == Alive /\ (SignalShutdown \/ SignalMarks)

\* The process has ended and nothing is left to happen.
Ended == ~Alive /\ UNCHANGED vars

Next == \/ MainStep \/ AppStep \/ HandlerStep
        \/ TelnetThrows \/ SpuriousWakeup \/ SignalArrives \/ ExitCommand
        \/ Ended

Spec == Init /\ [][Next]_vars

\* Every thread that can run does: OnStart and the handlers return.  Nothing
\* is assumed of the askers, nor of spurious wakeups.
FairSpec == Spec /\ WF_vars(MainStep) /\ WF_vars(AppStep) /\ WF_vars(HandlerStep)
-----------------------------------------------------------------------------
TypeOK ==
    /\ main \in {"installed", "constructed", "refused", "joining", "returned",
                 "terminated"}
    /\ app \in {"none", "config", "starting", "started", "loop", "locking", "waiting",
                "leaving", "exited"}
    /\ handler \in {"none", "calling", "marking"}
    /\ appStatus \in {"INITIALIZING", "STARTING", "READY", "STOPPING"}
    /\ {canTick, isShutdown, sShutdown, telnetUp, failed} \subseteq BOOLEAN
    /\ exitCode \in {0, 1}
    /\ stops \in 0 .. MaxStops
    /\ stoppedAt \in {"none", "config", "starting", "started", "loop", "locking",
                      "waiting"}

\* A failed startup ends the application thread, however many stops are asked for
\* meanwhile, and so does a stop asked for anywhere but between the loop's test
\* and its wait: during startup, at the test, or while it waits.  Only an exception
\* of the telnet console ends the whole process before that.
StopOutsideGapExits ==
    (failed \/ stoppedAt \notin {"none", "locking"}) ~>
        app = "exited" \/ main = "terminated"

\* main returns only after the thread has run to its end, telling success from
\* failure of the startup.
ExitCodeTellsStartup ==
    main = "returned" => app = "exited" /\ ~canTick /\ (exitCode = 1 <=> failed)

-----------------------------------------------------------------------------
(***************************************************************************)
(* What a comment says, and the code does not.                             *)
(***************************************************************************)

\* AppThread.h:127, "We keep the main() thread alive to catch interrupt signals
\* and call shutdown": a stop that was accepted ends the server.
StopExits == (stoppedAt # "none") ~> app = "exited" \/ main = "terminated"
=============================================================================
