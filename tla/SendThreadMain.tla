---------------------------- MODULE SendThreadMain ----------------------------
(***************************************************************************)
(* AIServer/SendThreadMain.cpp over shared/Thread.cpp: the thread that     *)
(* sends what the NPC, zone-event and worker threads have for the game     *)
(* server, over whichever of its sockets takes it, in a round robin.       *)
(* A block under the thread's mutex is one step.                           *)
(***************************************************************************)
EXTENDS Integers, Sequences, FiniteSets, SequencesExt

CONSTANTS SocketCount,   \* GetSocketCount(): MAX_SOCKET
          MaxPackets     \* bound: packets queued in a run

ASSUME SocketAssumption == SocketCount \in Nat \ {0}
ASSUME PacketAssumption == MaxPackets \in Nat

VARIABLES
    owner,            \* who calls start, shutdown and clear: its progress
    thread,           \* program counter of thread_loop
    canTick,          \* _canTick
    insertionQueue,   \* _insertionQueue
    processing,       \* thread_loop's processingQueue
    next,             \* _nextRoundRobinSocketId
    checked,          \* tick's checkedSockets
    usable,           \* sockets present in the array on which Send succeeds
    notifies,         \* queue() calls that have yet to notify
    queued,           \* packets given to queue(): they are 1 .. queued
    sent, skipped,    \* packets sent, packets tick() gave up, in this order
    deleted           \* packets deleted unsent by queue() or clear()

packetVars == <<insertionQueue, processing, queued, sent, skipped, deleted>>
scanVars   == <<next, checked>>
vars == <<owner, thread, canTick, packetVars, scanVars, usable, notifies>>

Sockets == 0 .. SocketCount - 1

Init ==
    /\ owner = "idle"
    /\ thread = "none"
    /\ canTick = FALSE
    /\ insertionQueue = <<>>
    /\ processing = <<>>
    /\ next = 0
    /\ checked = 0
    /\ usable = {}
    /\ notifies = 0
    /\ queued = 0
    /\ sent = <<>>
    /\ skipped = <<>>
    /\ deleted = {}

\* notify_one: the thread re-evaluates its predicate if it is waiting now.
Notified(pc) == IF pc = "waiting" THEN "locking" ELSE pc

-----------------------------------------------------------------------------
(***************************************************************************)
(* queue(), from any thread: push under the lock, notify after it.         *)
(***************************************************************************)

\* Faulty variant: pushes whether or not the thread still runs.
Queue_NoTest ==
    /\ queued < MaxPackets
    /\ queued' = queued + 1
    /\ insertionQueue' = Append(insertionQueue, queued + 1)
    /\ notifies' = notifies + 1
    /\ UNCHANGED <<owner, thread, canTick, processing, sent, skipped, deleted,
                   scanVars, usable>>

\* Faulty variant: pushes without notifying.
Queue_NoNotify ==
    /\ queued < MaxPackets
    /\ queued' = queued + 1
    /\ IF canTick
       THEN insertionQueue' = Append(insertionQueue, queued + 1) /\ UNCHANGED deleted
       ELSE deleted' = deleted \cup {queued + 1} /\ UNCHANGED insertionQueue
    /\ UNCHANGED <<owner, thread, canTick, processing, sent, skipped, scanVars, usable,
                   notifies>>

Queue ==
    /\ queued < MaxPackets
    /\ queued' = queued + 1
    /\ IF canTick
       THEN /\ insertionQueue' = Append(insertionQueue, queued + 1)
            /\ notifies' = notifies + 1
            /\ UNCHANGED deleted
       ELSE /\ deleted' = deleted \cup {queued + 1}
            /\ UNCHANGED <<insertionQueue, notifies>>
    /\ UNCHANGED <<owner, thread, canTick, processing, sent, skipped, scanVars, usable>>

Notify ==
    /\ notifies > 0
    /\ notifies' = notifies - 1
    /\ thread' = Notified(thread)
    /\ UNCHANGED <<owner, canTick, packetVars, scanVars, usable>>

-----------------------------------------------------------------------------
(***************************************************************************)
(* The socket manager starts the thread, shuts it down and joins it, and   *)
(* then clear() deletes what is left.                                      *)
(***************************************************************************)
Start ==
    /\ owner = "idle"
    /\ owner' = "started"
    /\ canTick' = TRUE
    /\ thread' = "loop"
    /\ UNCHANGED <<packetVars, scanVars, usable, notifies>>

Shutdown ==
    /\ owner = "started"
    /\ owner' = "joining"
    /\ canTick' = FALSE
    /\ thread' = Notified(thread)
    /\ UNCHANGED <<packetVars, scanVars, usable, notifies>>

Clear ==
    /\ owner = "joining" /\ thread = "exited"
    /\ owner' = "cleared"
    /\ deleted' = deleted \cup ToSet(insertionQueue)
    /\ insertionQueue' = <<>>
    /\ UNCHANGED <<thread, canTick, processing, queued, sent, skipped, scanVars, usable,
                   notifies>>

-----------------------------------------------------------------------------
(***************************************************************************)
(* thread_loop: test, wait under the lock until there is a packet or the   *)
(* thread is to stop, swap the queues, send everything.                    *)
(***************************************************************************)
LoopTest ==
    /\ thread = "loop"
    /\ thread' = IF canTick THEN "locking" ELSE "exited"
    /\ UNCHANGED <<owner, canTick, packetVars, scanVars, usable, notifies>>

WaitPredicate == ~canTick \/ insertionQueue # <<>>

WaitOrSwap ==
    /\ thread = "locking"
    /\ thread' = IF ~WaitPredicate THEN "waiting"
                 ELSE IF canTick THEN "ticking" ELSE "exited"
    /\ IF WaitPredicate /\ canTick
       THEN insertionQueue' = processing /\ processing' = insertionQueue
       ELSE UNCHANGED <<insertionQueue, processing>>
    /\ UNCHANGED <<owner, canTick, queued, sent, skipped, deleted, scanVars, usable,
                   notifies>>

SpuriousWakeup ==
    /\ thread = "waiting"
    /\ thread' = "locking"
    /\ UNCHANGED <<owner, canTick, packetVars, scanVars, usable, notifies>>

Scanning == thread = "ticking" /\ processing # <<>> /\ checked < SocketCount

\* Faulty variant: the counter is not wrapped.
SocketId_NoWrap == next

\* The round-robin counter indexes the socket and is incremented at once ...
SocketId == next % SocketCount

\* ... a packet that was taken leaves it there ...
SendPacket ==
    /\ Scanning /\ SocketId \in usable
    /\ sent' = Append(sent, Head(processing))
    /\ processing' = Tail(processing)
    /\ next' = SocketId + 1
    /\ checked' = 0
    /\ UNCHANGED <<owner, thread, canTick, insertionQueue, queued, skipped, deleted,
                   usable, notifies>>

\* ... and the loop's own increment follows when the socket is absent or its
\* Send fails.
TryNextSocket ==
    /\ Scanning /\ SocketId \notin usable
    /\ next' = SocketId + 2
    /\ checked' = checked + 1
    /\ UNCHANGED <<owner, thread, canTick, packetVars, usable, notifies>>

\* Faulty variant: the packet is put back to be tried later.
SkipPacket_Requeues ==
    /\ thread = "ticking" /\ processing # <<>> /\ checked = SocketCount
    /\ insertionQueue' = Append(insertionQueue, Head(processing))
    /\ processing' = Tail(processing)
    /\ checked' = 0
    /\ UNCHANGED <<owner, thread, canTick, queued, sent, skipped, deleted, next, usable,
                   notifies>>

SkipPacket ==
    /\ thread = "ticking" /\ processing # <<>> /\ checked = SocketCount
    /\ skipped' = Append(skipped, Head(processing))
    /\ processing' = Tail(processing)
    /\ checked' = 0
    /\ UNCHANGED <<owner, thread, canTick, insertionQueue, queued, sent, deleted, next,
                   usable, notifies>>

TickReturns ==
    /\ thread = "ticking" /\ processing = <<>>
    /\ thread' = "loop"
    /\ UNCHANGED <<owner, canTick, packetVars, scanVars, usable, notifies>>

\* A game server socket connects, or fails.
SocketChanges(id) ==
    /\ usable' = IF id \in usable THEN usable \ {id} ELSE usable \cup {id}
    /\ UNCHANGED <<owner, thread, canTick, packetVars, scanVars, notifies>>

-----------------------------------------------------------------------------
ThreadStep == LoopTest \/ WaitOrSwap \/ SendPacket \/ TryNextSocket \/ SkipPacket
              \/ TickReturns

Next == \/ Queue \/ Notify
        \/ Start \/ Shutdown \/ Clear
        \/ ThreadStep \/ SpuriousWakeup
        \/ \E id \in Sockets : SocketChanges(id)

Spec == Init /\ [][Next]_vars

\* The thread runs when it can, a queue() that has pushed goes on to notify,
\* and a shutdown that has begun goes on to clear.  No shutdown is assumed.
FairSpec == Spec /\ WF_vars(ThreadStep) /\ WF_vars(Notify) /\ WF_vars(Clear)
-----------------------------------------------------------------------------
Packets == 1 .. MaxPackets

TypeOK ==
    /\ owner \in {"idle", "started", "joining", "cleared"}
    /\ thread \in {"none", "loop", "locking", "waiting", "ticking", "exited"}
    /\ canTick \in BOOLEAN
    /\ {insertionQueue, processing, sent, skipped} \subseteq Seq(Packets)
    /\ deleted \subseteq Packets
    /\ queued \in 0 .. MaxPackets
    /\ next \in 0 .. SocketCount + 1
    /\ checked \in 0 .. SocketCount
    /\ usable \subseteq Sockets
    /\ notifies \in 0 .. MaxPackets

\* Every packet given to queue() is in one place: waiting, being processed,
\* sent once, skipped, or deleted; and nothing is left behind by the shutdown
\* (the queues hold owning pointers).
PacketsAccountedFor ==
    LET held == insertionQueue \o processing \o sent \o skipped
    IN  /\ ToSet(held) \cup deleted = 1 .. queued
        /\ ToSet(held) \cap deleted = {}
        /\ \A i, j \in DOMAIN held : held[i] = held[j] => i = j
        /\ owner = "cleared" => insertionQueue \o processing = <<>>

\* Packets are handed to the sockets in the order they were queued, whichever
\* thread queued them and whichever packets are skipped; what ten connections
\* then make of that order is another matter.
SentInOrder ==
    LET order == sent \o processing \o insertionQueue
    IN  \A i, j \in DOMAIN order : i < j => order[i] < order[j]

\* Every queued packet is sent, skipped or deleted, and a shutdown joins the
\* thread: it never sleeps on a non-empty queue, nor through its shutdown.
EveryPacketSettles ==
    /\ \A p \in Packets :
          (queued >= p) ~> p \in ToSet(sent) \cup ToSet(skipped) \cup deleted
    /\ (owner = "joining") ~> (owner = "cleared")
=============================================================================
