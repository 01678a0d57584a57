---------------------------- MODULE TcpServerSocket ----------------------------
(***************************************************************************)
(* shared-server TcpSocket, TcpSocketManager and TcpServerSocketManager:   *)
(* the pool of session slots every server accepts its peers into.  A slot  *)
(* is one TcpSocket object with a fixed id; it is acquired for an accepted *)
(* connection, used by many threads at once, closed, and reused.           *)
(*                                                                         *)
(* The worker threads run completion handlers in any order; a handler is   *)
(* split where it holds no lock.  _mutex is the manager's lock, _sendMutex *)
(* the slot's: a block under either is one step, except that the close     *)
(* procedure closes the raw socket first and takes _sendMutex afterwards.  *)
(* _sendMutex guards short blocks only and needs no variable.              *)
(***************************************************************************)
EXTENDS RingOps, Sequences, FiniteSets, SequencesExt

CONSTANTS
    Ids,              \* the session slots
    NoId,             \* not a slot
    SendBufferSize,   \* bytes in each slot's _sendCircularBuffer
    PacketLengths,    \* lengths passed to QueueAndSend
    MaxConnections,   \* bound: connections accepted in a run
    MaxPackets,       \* bound: packets queued in a run
    PartialWrites,    \* may async_write_some take a prefix of the span?
    LateCompletions,  \* may a slot be reinitialised before the handlers and
                      \* calls of its former connection have all run?
    Shutdowns         \* may the manager shut down?

ASSUME SlotAssumption == IsFiniteSet(Ids) /\ NoId \notin Ids
ASSUME LengthAssumption ==
    /\ SendBufferSize \in Nat \ {0}
    /\ PacketLengths \subseteq Nat \ {0}
ASSUME EnvironmentAssumption == {PartialWrites, LateCompletions, Shutdowns} \subseteq BOOLEAN

VARIABLES
    idQueue,            \* _socketIdQueue
    active,             \* ids with an entry in _socketArray
    closing,            \* holder of _mutex inside ProcessClose, or NoId
    accept,             \* the accept chain: [stage, id]
    phase,              \* "running", "stopping", "released", "stopped"
    state,              \* _state, CONNECTED standing for GAMESTART too
    pendingDisconnect,  \* _pendingDisconnect
    errorCount,         \* _socketErrorCount
    sendInProgress,     \* _sendInProgress
    sendQueue,          \* _sendQueue: spans [off, len, conn]
    head, tail,         \* cursors of _sendCircularBuffer
    conn,               \* how many connections the slot has served
    isOpen,             \* whether the raw socket is open
    writes,             \* outstanding async_write_some operations
    reads,              \* outstanding async_read_some operations
    closePosts,         \* OnPostClose calls posted to the worker pool
    closeCalls,         \* threads about to enter Close()
    closeLocks,         \* threads in Close() between its test and its lock
    packets,            \* packets queued so far (for MaxPackets)
    unsent,             \* bytes in the ring that short writes left behind
    overlapped          \* history: slots whose connection began with a write
                        \* under way

poolVars == <<idQueue, active, closing, accept, phase>>
sendVars == <<sendInProgress, sendQueue, head, tail>>
opVars   == <<writes, reads>>
callVars == <<closePosts, closeCalls, closeLocks>>
linkVars == <<conn, isOpen, overlapped>>
vars == <<poolVars, state, pendingDisconnect, errorCount, sendVars, linkVars,
          opVars, callVars, packets, unsent>>

Connected(id) == state[id] = "CONNECTED"

\* InitSockets pushes the ids, and ShutdownImpl walks the sockets, in some order.
Orders(set) == Bijection(1 .. Cardinality(set), set)

NoAccept == [stage |-> "armed", id |-> NoId]

Init ==
    /\ idQueue \in Orders(Ids)
    /\ active = {}
    /\ closing = NoId
    /\ accept = NoAccept
    /\ phase = "running"
    /\ state = [id \in Ids |-> "DISCONNECTED"]
    /\ pendingDisconnect = [id \in Ids |-> FALSE]
    /\ errorCount = [id \in Ids |-> 0]
    /\ sendInProgress = [id \in Ids |-> FALSE]
    /\ sendQueue = [id \in Ids |-> <<>>]
    /\ head = [id \in Ids |-> 0]
    /\ tail = [id \in Ids |-> 0]
    /\ conn = [id \in Ids |-> 0]
    /\ isOpen = [id \in Ids |-> FALSE]
    /\ writes = {}
    /\ reads = {}
    /\ closePosts = [id \in Ids |-> 0]
    /\ closeCalls = [id \in Ids |-> 0]
    /\ closeLocks = [id \in Ids |-> 0]
    /\ packets = 0
    /\ unsent = [id \in Ids |-> 0]
    /\ overlapped = {}

\* Operations and calls on a slot that have not finished.
Busy(id) ==
    \/ \E op \in writes \cup reads : op.id = id
    \/ closePosts[id] + closeCalls[id] + closeLocks[id] > 0

\* Worker threads start handlers until the pool is stopped.
PoolRuns == phase # "stopped"

MutexFree == closing = NoId

-----------------------------------------------------------------------------
(***************************************************************************)
(* Accepting: AsyncAccept's handler, OnAccept and InitSocket.  The chain   *)
(* re-arms itself, so one accept is in progress at a time.                 *)
(***************************************************************************)

\* Faulty variant: accepts without reading _acceptingConnections.
AcceptArrives_Always ==
    /\ accept = NoAccept
    /\ FoldFunction(+, 0, conn) < MaxConnections
    /\ accept' = [stage |-> "arrived", id |-> NoId]
    /\ UNCHANGED <<idQueue, active, closing, phase, state, pendingDisconnect,
                   errorCount, sendVars, linkVars, opVars, callVars, packets, unsent>>

\* A connection arrives and _acceptingConnections is still set.
AcceptArrives ==
    /\ accept = NoAccept /\ phase = "running"
    /\ FoldFunction(+, 0, conn) < MaxConnections
    /\ accept' = [stage |-> "arrived", id |-> NoId]
    /\ UNCHANGED <<idQueue, active, closing, phase, state, pendingDisconnect,
                   errorCount, sendVars, linkVars, opVars, callVars, packets, unsent>>

\* AcquireSocket under _mutex; with no free id the connection is dropped.
AcceptAcquire ==
    /\ accept.stage = "arrived" /\ MutexFree
    /\ IF idQueue = <<>>
       THEN accept' = NoAccept /\ UNCHANGED <<idQueue, active>>
       ELSE /\ LateCompletions \/ ~Busy(Head(idQueue))
            /\ accept' = [stage |-> "acquired", id |-> Head(idQueue)]
            /\ idQueue' = Tail(idQueue)
            /\ active' = active \cup {Head(idQueue)}
    /\ UNCHANGED <<closing, phase, state, pendingDisconnect, errorCount, sendVars,
                   linkVars, opVars, callVars, packets, unsent>>

\* The slot is in _socketArray by now.  SetSocket moves the accepted raw socket
\* into it, under no lock ...
SetSocket ==
    /\ accept.stage = "acquired"
    /\ accept' = [accept EXCEPT !.stage = "set"]
    /\ conn' = [conn EXCEPT ![accept.id] = @ + 1]
    /\ isOpen' = [isOpen EXCEPT ![accept.id] = TRUE]
    /\ UNCHANGED <<idQueue, active, closing, phase, state, pendingDisconnect,
                   errorCount, sendVars, overlapped, opVars, callVars, packets, unsent>>

\* The slots with a write under way.
Writing == {op.id : op \in writes}

\* ... and then InitSocket makes it a connection, under no lock either.
\* _sendQueue is not cleared, and a write posted since AcquireSocket goes on.
AcceptInit ==
    LET id == accept.id IN
    /\ accept.stage = "set"
    /\ accept' = [accept EXCEPT !.stage = "initialised"]
    /\ state' = [state EXCEPT ![id] = "CONNECTED"]
    /\ head' = [head EXCEPT ![id] = 0]
    /\ tail' = [tail EXCEPT ![id] = 0]
    /\ errorCount' = [errorCount EXCEPT ![id] = 0]
    /\ sendInProgress' = [sendInProgress EXCEPT ![id] = FALSE]
    /\ pendingDisconnect' = [pendingDisconnect EXCEPT ![id] = FALSE]
    /\ unsent' = [unsent EXCEPT ![id] = 0]
    /\ overlapped' = (overlapped \ {id}) \cup ({id} \cap Writing)
    /\ UNCHANGED <<idQueue, active, closing, phase, conn, isOpen, sendQueue, opVars,
                   callVars, packets>>

\* AsyncReceive posts a read unless a close is pending.
ReadsAfterPost(id, rest) ==
    IF pendingDisconnect[id] THEN rest
    ELSE rest \cup {[id |-> id, conn |-> conn[id], onOpen |-> isOpen[id]]}

AcceptReceive ==
    /\ accept.stage = "initialised"
    /\ reads' = ReadsAfterPost(accept.id, reads)
    /\ accept' = NoAccept
    /\ UNCHANGED <<idQueue, active, closing, phase, state, pendingDisconnect,
                   errorCount, sendVars, linkVars, writes, callVars, packets, unsent>>

-----------------------------------------------------------------------------
(***************************************************************************)
(* Sending: QueueAndSend from any thread, the OnPostSend handler, and      *)
(* AsyncSend called from both.                                             *)
(***************************************************************************)

Write(id, span) ==
    [id |-> id, conn |-> conn[id], onOpen |-> isOpen[id], span |-> span,
     stage |-> "posted", sent |-> 0]

Call(counter, id) == counter' = [counter EXCEPT ![id] = @ + 1]

\* A slot that callers can reach: in _socketArray, connected or not
\* (GetSocketUnchecked), or known to them from a connection it has served.
Reachable(id) == id \in active \/ conn[id] > 0

\* Faulty variant: writes at once even when a write is in progress.
QueueAndSend_AlwaysWrites(id, len) ==
    LET span == [off |-> tail[id], len |-> len, conn |-> conn[id]]
    IN
    /\ Reachable(id) /\ packets < MaxPackets /\ PoolRuns
    /\ ~pendingDisconnect[id]
    /\ ~IsOverFlowCondition(SendBufferSize, head[id], tail[id], len)
    /\ tail' = [tail EXCEPT ![id] = TailAfter(SendBufferSize, @, len)]
    /\ sendQueue' = [sendQueue EXCEPT ![id] = Append(@, span)]
    /\ sendInProgress' = [sendInProgress EXCEPT ![id] = TRUE]
    /\ writes' = writes \cup {Write(id, span)}
    /\ packets' = packets + 1
    /\ UNCHANGED <<poolVars, state, pendingDisconnect, errorCount, head, linkVars,
                   reads, callVars, unsent>>

\* Faulty variant: writes nothing to a closed raw socket, and leaves the packet
\* in the queue.
QueueAndSend_SkipsClosed(id, len) ==
    LET span  == [off |-> tail[id], len |-> len, conn |-> conn[id]]
        queue == Append(sendQueue[id], span)
    IN
    /\ Reachable(id) /\ packets < MaxPackets /\ PoolRuns
    /\ ~pendingDisconnect[id]
    /\ ~IsOverFlowCondition(SendBufferSize, head[id], tail[id], len)
    /\ tail' = [tail EXCEPT ![id] = TailAfter(SendBufferSize, @, len)]
    /\ sendQueue' = [sendQueue EXCEPT ![id] = queue]
    /\ sendInProgress' = [sendInProgress EXCEPT ![id] = @ \/ isOpen[id]]
    /\ writes' = IF sendInProgress[id] \/ ~isOpen[id] THEN writes
                 ELSE writes \cup {Write(id, Head(queue))}
    /\ packets' = packets + 1
    /\ UNCHANGED <<poolVars, state, pendingDisconnect, errorCount, head, linkVars,
                   reads, callVars, unsent>>

\* There is room: the packet becomes the newest span and, when no write is in
\* progress, the oldest span is handed to the raw socket, open or not.
QueueAndSend(id, len) ==
    LET span  == [off |-> tail[id], len |-> len, conn |-> conn[id]]
        queue == Append(sendQueue[id], span)
    IN
    /\ Reachable(id) /\ packets < MaxPackets /\ PoolRuns
    /\ ~pendingDisconnect[id]
    /\ ~IsOverFlowCondition(SendBufferSize, head[id], tail[id], len)
    /\ tail' = [tail EXCEPT ![id] = TailAfter(SendBufferSize, @, len)]
    /\ sendQueue' = [sendQueue EXCEPT ![id] = queue]
    /\ sendInProgress' = [sendInProgress EXCEPT ![id] = TRUE]
    /\ writes' = IF sendInProgress[id] THEN writes
                 ELSE writes \cup {Write(id, Head(queue))}
    /\ packets' = packets + 1
    /\ UNCHANGED <<poolVars, state, pendingDisconnect, errorCount, head, linkVars,
                   reads, callVars, unsent>>

\* No room: QueueAndSend unlocks and calls Close().
QueueOverflow(id, len) ==
    /\ Reachable(id) /\ packets < MaxPackets /\ PoolRuns
    /\ ~pendingDisconnect[id]
    /\ IsOverFlowCondition(SendBufferSize, head[id], tail[id], len)
    /\ Call(closeCalls, id)
    /\ packets' = packets + 1
    /\ UNCHANGED <<poolVars, state, pendingDisconnect, errorCount, sendVars, linkVars,
                   opVars, closePosts, closeLocks, unsent>>

\* OnPostSend without an error clears the error count under _mutex.  A write
\* posted on an open socket may have succeeded even if the socket has been
\* closed since.
SendSucceeds(op) ==
    /\ op \in writes /\ op.stage = "posted" /\ op.onOpen
    /\ PoolRuns /\ MutexFree
    /\ \E n \in IF PartialWrites THEN 1 .. op.span.len ELSE {op.span.len} :
         writes' = (writes \ {op}) \cup {[op EXCEPT !.stage = "cleared", !.sent = n]}
    /\ errorCount' = [errorCount EXCEPT ![op.id] = 0]
    /\ UNCHANGED <<poolVars, state, pendingDisconnect, sendVars, linkVars, reads,
                   callVars, packets, unsent>>

\* Faulty variant: the end of the chain does not re-queue a pending disconnect.
SendChain_NoRequeue(op) ==
    LET id   == op.id
        rest == IF sendQueue[id] = <<>> THEN <<>> ELSE Tail(sendQueue[id])
    IN
    /\ op \in writes /\ op.stage = "cleared"
    /\ sendQueue' = [sendQueue EXCEPT ![id] = rest]
    /\ head' = [head EXCEPT ![id] = HeadAfter(SendBufferSize, @, op.sent)]
    /\ sendInProgress' = [sendInProgress EXCEPT ![id] = rest # <<>>]
    /\ writes' = IF rest = <<>> THEN writes \ {op}
                 ELSE (writes \ {op}) \cup {Write(id, Head(rest))}
    /\ UNCHANGED <<poolVars, state, pendingDisconnect, errorCount, tail, linkVars,
                   reads, callVars, packets, unsent>>

\* ... and then AsyncSend(true, n) pops the span, writes the next one, or
\* re-queues the disconnect when nothing is left.
SendChain(op) ==
    LET id   == op.id
        rest == IF sendQueue[id] = <<>> THEN <<>> ELSE Tail(sendQueue[id])
    IN
    /\ op \in writes /\ op.stage = "cleared"
    /\ sendQueue' = [sendQueue EXCEPT ![id] = rest]
    /\ IF sendQueue[id] = <<>>
       THEN UNCHANGED <<head, unsent>>
       ELSE /\ head' = [head EXCEPT ![id] = HeadAfter(SendBufferSize, @, op.sent)]
            /\ unsent' = [unsent EXCEPT ![id] = @ + op.span.len - op.sent]
    /\ sendInProgress' = [sendInProgress EXCEPT ![id] = rest # <<>>]
    /\ writes' = IF rest = <<>> THEN writes \ {op}
                 ELSE (writes \ {op}) \cup {Write(id, Head(rest))}
    /\ IF rest = <<>> /\ pendingDisconnect[id]
       THEN Call(closeCalls, id)
       ELSE UNCHANGED closeCalls
    /\ UNCHANGED <<poolVars, state, pendingDisconnect, errorCount, tail, linkVars,
                   reads, closePosts, closeLocks, packets>>

\* OnPostSend with an error: AbortSend, then Close().
SendFails(op) ==
    LET id == op.id IN
    /\ op \in writes /\ op.stage = "posted" /\ PoolRuns
    /\ writes' = writes \ {op}
    /\ sendQueue' = [sendQueue EXCEPT ![id] = <<>>]
    /\ head' = [head EXCEPT ![id] = 0]
    /\ tail' = [tail EXCEPT ![id] = 0]
    /\ sendInProgress' = [sendInProgress EXCEPT ![id] = FALSE]
    /\ unsent' = [unsent EXCEPT ![id] = 0]
    /\ Call(closeCalls, id)
    /\ UNCHANGED <<poolVars, state, pendingDisconnect, errorCount, linkVars, reads,
                   closePosts, closeLocks, packets>>

-----------------------------------------------------------------------------
(***************************************************************************)
(* Closing: Close() from any thread, the posted OnPostClose handler, and   *)
(* ProcessClose / CloseProcess / ReleaseSocketImpl under _mutex.           *)
(***************************************************************************)

\* The server logic or a timer asks for a disconnect.
RequestClose(id) ==
    /\ Connected(id) /\ PoolRuns
    /\ closeCalls[id] + closeLocks[id] + closePosts[id] = 0
    /\ Call(closeCalls, id)
    /\ UNCHANGED <<poolVars, state, pendingDisconnect, errorCount, sendVars, linkVars,
                   opVars, closePosts, closeLocks, packets, unsent>>

\* Close() reads the state without a lock.
CloseTest(id) ==
    /\ closeCalls[id] > 0
    /\ closeCalls' = [closeCalls EXCEPT ![id] = @ - 1]
    /\ IF Connected(id) THEN Call(closeLocks, id) ELSE UNCHANGED closeLocks
    /\ UNCHANGED <<poolVars, state, pendingDisconnect, errorCount, sendVars, linkVars,
                   opVars, closePosts, packets, unsent>>

\* Faulty variant: posts the close without waiting for the send chain.
CloseLocked_NoWait(id) ==
    /\ closeLocks[id] > 0
    /\ closeLocks' = [closeLocks EXCEPT ![id] = @ - 1]
    /\ pendingDisconnect' = [pendingDisconnect EXCEPT ![id] = TRUE]
    /\ Call(closePosts, id)
    /\ UNCHANGED <<poolVars, state, errorCount, sendVars, linkVars, opVars,
                   closeCalls, packets, unsent>>

\* Close() under _sendMutex: refuse new packets, and unless the send chain has
\* work left post OnPostClose.
CloseLocked(id) ==
    /\ closeLocks[id] > 0
    /\ closeLocks' = [closeLocks EXCEPT ![id] = @ - 1]
    /\ pendingDisconnect' = [pendingDisconnect EXCEPT ![id] = TRUE]
    /\ IF sendInProgress[id] \/ sendQueue[id] # <<>>
       THEN UNCHANGED closePosts
       ELSE Call(closePosts, id)
    /\ UNCHANGED <<poolVars, state, errorCount, sendVars, linkVars, opVars,
                   closeCalls, packets, unsent>>

\* Faulty variant: closes without looking at the state.
ProcessClose_NoTest(id) ==
    /\ MutexFree
    /\ closing' = id
    /\ state' = [state EXCEPT ![id] = "DISCONNECTED"]
    /\ isOpen' = [isOpen EXCEPT ![id] = FALSE]
    /\ UNCHANGED <<idQueue, active, accept, phase, pendingDisconnect, sendVars, conn,
                   overlapped, packets, unsent>>

\* Faulty variant: CloseProcess forgets SetState.
ProcessClose_KeepsState(id) ==
    /\ MutexFree
    /\ IF Connected(id)
       THEN closing' = id /\ isOpen' = [isOpen EXCEPT ![id] = FALSE]
       ELSE UNCHANGED <<closing, isOpen>>
    /\ UNCHANGED <<idQueue, active, accept, phase, state, pendingDisconnect, sendVars,
                   conn, overlapped, packets, unsent>>

\* ProcessClose takes _mutex: nothing to do on a disconnected slot, otherwise
\* CloseProcess marks it disconnected and closes the raw socket.
ProcessClose(id) ==
    /\ MutexFree
    /\ IF Connected(id)
       THEN /\ closing' = id
            /\ state' = [state EXCEPT ![id] = "DISCONNECTED"]
            /\ isOpen' = [isOpen EXCEPT ![id] = FALSE]
       ELSE UNCHANGED <<closing, state, isOpen>>
    /\ UNCHANGED <<idQueue, active, accept, phase, pendingDisconnect, sendVars, conn,
                   overlapped, packets, unsent>>

\* std::swap moves the slot between the two socket arrays, whichever holds it.
Swapped(set, id) == IF id \in set THEN set \ {id} ELSE set \cup {id}

\* The rest of CloseProcess, under _sendMutex, and ReleaseSocketImpl; _mutex
\* is released.
FinishClose ==
    LET id == closing IN
    /\ closing # NoId
    /\ sendInProgress' = [sendInProgress EXCEPT ![id] = FALSE]
    /\ sendQueue' = [sendQueue EXCEPT ![id] = <<>>]
    /\ idQueue' = Append(idQueue, id)
    /\ active' = Swapped(active, id)
    /\ closing' = NoId
    /\ UNCHANGED <<accept, phase, state, pendingDisconnect, errorCount, head, tail,
                   linkVars, opVars, callVars, packets, unsent>>

OnPostClose(id) ==
    /\ closePosts[id] > 0 /\ PoolRuns
    /\ closePosts' = [closePosts EXCEPT ![id] = @ - 1]
    /\ ProcessClose(id)
    /\ UNCHANGED <<errorCount, opVars, closeCalls, closeLocks>>

-----------------------------------------------------------------------------
(***************************************************************************)
(* Receiving: the OnPostReceive handler.  What the packets make the server *)
(* do to slots are the QueueAndSend and RequestClose actions.              *)
(***************************************************************************)

\* Data: ReceivedData and AsyncReceive, under _mutex.
ReceiveData(op) ==
    /\ op \in reads /\ op.onOpen /\ PoolRuns /\ MutexFree
    /\ reads' = ReadsAfterPost(op.id, reads \ {op})
    /\ UNCHANGED <<poolVars, state, pendingDisconnect, errorCount, sendVars, linkVars,
                   writes, callVars, packets, unsent>>

\* The peer closed the connection, or a read of no bytes.
ReceiveEnd(op) ==
    /\ op \in reads /\ op.onOpen /\ PoolRuns
    /\ reads' = reads \ {op}
    /\ ProcessClose(op.id)
    /\ UNCHANGED <<errorCount, writes, callVars>>

\* Another error is forgiven once: the handler returns and posts no read.
ReceiveForgiven(op) ==
    /\ op \in reads /\ PoolRuns
    /\ errorCount[op.id] + 1 < 2
    /\ errorCount' = [errorCount EXCEPT ![op.id] = @ + 1]
    /\ reads' = reads \ {op}
    /\ UNCHANGED <<poolVars, state, pendingDisconnect, sendVars, linkVars, writes,
                   callVars, packets, unsent>>

ReceiveFails(op) ==
    /\ op \in reads /\ PoolRuns
    /\ errorCount[op.id] + 1 >= 2
    /\ errorCount' = [errorCount EXCEPT ![op.id] = @ + 1]
    /\ reads' = reads \ {op}
    /\ ProcessClose(op.id)
    /\ UNCHANGED <<writes, callVars>>

-----------------------------------------------------------------------------
(***************************************************************************)
(* Shutdown: StopAccept, then ShutdownImpl disconnects every slot under    *)
(* _mutex and stops the worker pool.                                       *)
(***************************************************************************)
StopAccept ==
    /\ Shutdowns /\ phase = "running"
    /\ phase' = "stopping"
    /\ UNCHANGED <<idQueue, active, closing, accept, state, pendingDisconnect,
                   errorCount, sendVars, linkVars, opVars, callVars, packets, unsent>>

ShutdownRelease ==
    /\ phase = "stopping" /\ MutexFree
    /\ phase' = "released"
    /\ state' = [id \in Ids |-> IF id \in active THEN "DISCONNECTED" ELSE state[id]]
    /\ isOpen' = [id \in Ids |-> isOpen[id] /\ id \notin active]
    /\ sendInProgress' = [id \in Ids |-> sendInProgress[id] /\ id \notin active]
    /\ sendQueue' = [id \in Ids |-> IF id \in active THEN <<>> ELSE sendQueue[id]]
    /\ \E released \in Orders(active) : idQueue' = idQueue \o released
    /\ active' = {}
    /\ UNCHANGED <<closing, accept, pendingDisconnect, errorCount, head, tail, conn,
                   overlapped, opVars, callVars, packets, unsent>>

PoolStop ==
    /\ phase = "released"
    /\ phase' = "stopped"
    /\ UNCHANGED <<idQueue, active, closing, accept, state, pendingDisconnect,
                   errorCount, sendVars, linkVars, opVars, callVars, packets, unsent>>

-----------------------------------------------------------------------------
Accepting == AcceptArrives \/ AcceptAcquire \/ SetSocket \/ AcceptInit \/ AcceptReceive

Sending(op) == SendSucceeds(op) \/ SendChain(op) \/ SendFails(op)

Receiving(op) ==
    ReceiveData(op) \/ ReceiveEnd(op) \/ ReceiveForgiven(op) \/ ReceiveFails(op)

CloseStep(id) == CloseTest(id) \/ CloseLocked(id) \/ OnPostClose(id)

Next ==
    \/ Accepting
    \/ \E id \in Ids :
         \/ \E len \in PacketLengths : QueueAndSend(id, len) \/ QueueOverflow(id, len)
         \/ RequestClose(id)
         \/ CloseStep(id)
    \/ FinishClose
    \/ \E op \in writes : Sending(op)
    \/ \E op \in reads : Receiving(op)
    \/ StopAccept \/ ShutdownRelease \/ PoolStop

Spec == Init /\ [][Next]_vars

\* The kernel completes every write, the pool runs every handler, and a thread
\* inside Close() or ProcessClose gets on with it.
Fairness ==
    /\ \A id \in Ids :
         /\ WF_vars(\E op \in writes : op.id = id /\ Sending(op))
         /\ WF_vars(CloseTest(id))
         /\ WF_vars(CloseLocked(id))
         /\ WF_vars(OnPostClose(id))
    /\ WF_vars(FinishClose)

FairSpec == Spec /\ Fairness
-----------------------------------------------------------------------------
Ops == [id : Ids, conn : Nat, onOpen : BOOLEAN]

TypeOK ==
    /\ idQueue \in Seq(Ids)
    /\ active \subseteq Ids
    /\ closing \in Ids \cup {NoId}
    /\ accept \in [stage : {"armed", "arrived", "acquired", "set", "initialised"},
                   id : Ids \cup {NoId}]
    /\ phase \in {"running", "stopping", "released", "stopped"}
    /\ state \in [Ids -> {"CONNECTED", "DISCONNECTED"}]
    /\ pendingDisconnect \in [Ids -> BOOLEAN]
    /\ errorCount \in [Ids -> Nat]
    /\ sendInProgress \in [Ids -> BOOLEAN]
    /\ \A id \in Ids : \A i \in DOMAIN sendQueue[id] :
         sendQueue[id][i] \in [off : 0 .. SendBufferSize - 1, len : PacketLengths,
                               conn : Nat]
    /\ head \in [Ids -> 0 .. SendBufferSize - 1]
    /\ tail \in [Ids -> 0 .. SendBufferSize - 1]
    /\ conn \in [Ids -> Nat]
    /\ isOpen \in [Ids -> BOOLEAN]
    /\ \A op \in writes : op.id \in Ids /\ op.stage \in {"posted", "cleared"}
    /\ reads \subseteq Ops
    /\ closePosts \in [Ids -> Nat]
    /\ closeCalls \in [Ids -> Nat]
    /\ closeLocks \in [Ids -> Nat]
    /\ unsent \in [Ids -> Nat]
    /\ overlapped \subseteq Ids

\* ShutdownImpl has not disconnected the slots yet.
Serving == phase \in {"running", "stopping"}

\* Until shutdown releases them all, every slot is in exactly one place: waiting
\* in the id queue once, or active under one connection, whatever handlers of
\* former connections still run (AcquireSocket, ReleaseSocketImpl).
SlotPartition ==
    Serving =>
        /\ IsInjective(idQueue)
        /\ \A id \in Ids : id \in active <=> id \notin ToSet(idQueue)

\* Until then a slot that serves a connection is not free, so no second one can
\* be given its id and its state, and an unfinished close or accept owns its
\* slot too (ProcessClose, OnAccept).
ConnectedIsActive ==
  Serving =>
    /\ \A id \in Ids : Connected(id) => id \in active
    /\ closing # NoId => closing \in active /\ ~Connected(closing)
    /\ accept.stage \in {"acquired", "set"} =>
         accept.id \in active /\ ~Connected(accept.id)

\* The writes outstanding on the slot's current connection.
CurrentWrites(id) == {op \in writes : op.id = id /\ op.conn = conn[id]}

\* Where the i-th queued packet starts in the ring, counted from the head; the
\* tail stands for the packet after the newest one.
Start(id, i) ==
    ValidCount(SendBufferSize, head[id],
               IF i <= Len(sendQueue[id]) THEN sendQueue[id][i].off ELSE tail[id])

\* The queued packets lie end to end in the ring up to the tail, inside the
\* region the next put may not overwrite, behind what short writes have left
\* there.
QueueMatchesRing(id) ==
    /\ Start(id, 1) = unsent[id]
    /\ \A i \in DOMAIN sendQueue[id] :
         Start(id, i + 1) = Start(id, i) + sendQueue[id][i].len

\* The connection began with no write under way on its slot.  Otherwise
\* InitSocket resets _sendInProgress and the ring under that write and the queue
\* it came from, and the next packet starts a second write beside it.
CleanStart(id) == id \notin overlapped

\* On a live connection that began with no write under way, one write is
\* outstanding exactly when _sendInProgress says so, and it reads the oldest of
\* the queued packets, none of which the next put overwrites: packets are never
\* written twice, interleaved or damaged, and a queued packet always has a write
\* that will pick it up (QueueAndSend, AsyncSend's three early returns,
\* AbortSend).
SendChainIntact ==
    \A id \in Ids : Connected(id) /\ CleanStart(id) =>
        /\ Cardinality(CurrentWrites(id)) = IF sendInProgress[id] THEN 1 ELSE 0
        /\ sendInProgress[id] <=> sendQueue[id] # <<>>
        /\ \A op \in CurrentWrites(id) : op.span = Head(sendQueue[id])
        /\ QueueMatchesRing(id)

\* What is queued for such a connection, and what is being written to it, was
\* queued by that connection and not by the one the slot served before.
NoForeignBytes ==
    \A id \in Ids : Connected(id) /\ CleanStart(id) =>
        /\ \A i \in DOMAIN sendQueue[id] : sendQueue[id][i].conn = conn[id]
        /\ \A op \in CurrentWrites(id) : op.span.conn = conn[id]

\* A posted close ends the connection only when every packet accepted for it
\* has left the queue (Close waits for the send chain).
CloseFlushesQueue ==
    [][\A id \in Ids : OnPostClose(id) /\ closing' = id => sendQueue[id] = <<>>]_vars

\* After ShutdownImpl has disconnected the slots, at most the one connection
\* whose accept was already past StopAccept is left standing.
ShutdownLeavesAtMostOne ==
    phase \in {"released", "stopped"} => Cardinality({id \in Ids : Connected(id)}) <= 1

\* Once a disconnect is pending, the connection ends.
CloseCompletes ==
    \A id \in Ids : (Connected(id) /\ pendingDisconnect[id]) ~> ~Connected(id)
=============================================================================
