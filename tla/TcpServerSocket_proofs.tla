------------------------ MODULE TcpServerSocket_proofs ------------------------
(***************************************************************************)
(* For any number of slots, any packet lengths, with short writes and with *)
(* completions of an old connection running after the slot is reused:      *)
(* until a shutdown disconnects them all, every slot is in exactly one     *)
(* place and a connected slot is never free; and the shutdown leaves one   *)
(* connection standing at most.                                            *)
(*                                                                         *)
(* The facts about the id queue as a sequence are proved apart, and the    *)
(* rest of the proof sees the queue only through QueueSound and ToSet.     *)
(***************************************************************************)
EXTENDS TcpServerSocket, FiniteSetTheorems, TLAPS

QueueSound == idQueue \in Seq(Ids) /\ IsInjective(idQueue)

Free == ToSet(idQueue)

AcceptStates == [stage : {"armed", "arrived", "acquired", "set", "initialised"},
                 id : Ids \cup {NoId}]

\* The inductive invariant of a pool that still serves: the slots the id queue
\* holds and the active ones are complementary; connections, a close under way
\* and an accept under way each own a different active slot.
PoolInv ==
    /\ QueueSound
    /\ active = Ids \ Free
    /\ closing \in Ids \cup {NoId}
    /\ state \in [Ids -> {"CONNECTED", "DISCONNECTED"}]
    /\ \A op \in reads : op.id \in Ids
    /\ accept \in AcceptStates
    /\ \A id \in Ids : Connected(id) => id \in active
    /\ closing # NoId => closing \in active /\ ~Connected(closing)
    /\ accept.stage \in {"acquired", "set", "initialised"} => accept.id \in Ids
    /\ accept.stage \in {"acquired", "set"} =>
         accept.id \in active /\ ~Connected(accept.id) /\ accept.id # closing

-----------------------------------------------------------------------------
\* Releasing appends an id the queue does not hold.
LEMMA ReleaseQueue ==
    ASSUME NEW S, NEW q \in Seq(S), NEW x \in S, IsInjective(q), x \notin ToSet(q)
    PROVE  /\ Append(q, x) \in Seq(S)
           /\ IsInjective(Append(q, x))
           /\ ToSet(Append(q, x)) = ToSet(q) \cup {x}
BY DEF IsInjective, ToSet

\* Acquiring takes the front id, which occurs nowhere else in the queue.
LEMMA AcquireQueue ==
    ASSUME NEW S, NEW q \in Seq(S), IsInjective(q), q # <<>>
    PROVE  /\ Head(q) \in S
           /\ Tail(q) \in Seq(S)
           /\ IsInjective(Tail(q))
           /\ ToSet(Tail(q)) = ToSet(q) \ {Head(q)}
           /\ Head(q) \in ToSet(q)
<1>1. Len(q) \in Nat /\ Len(q) > 0 /\ DOMAIN q = 1 .. Len(q)
  OBVIOUS
<1>2. /\ Tail(q) \in Seq(S)
      /\ DOMAIN Tail(q) = 1 .. Len(q) - 1
      /\ \A i \in 1 .. Len(q) - 1 : Tail(q)[i] = q[i + 1]
  BY <1>1
<1>3. Head(q) = q[1] /\ Head(q) \in S /\ Head(q) \in ToSet(q)
  BY <1>1 DEF ToSet
<1>4. IsInjective(Tail(q))
  BY <1>1, <1>2 DEF IsInjective
<1>5. ASSUME NEW x
      PROVE  x \in ToSet(Tail(q)) <=> x \in ToSet(q) /\ x # Head(q)
  <2>1. ASSUME x \in ToSet(Tail(q)) PROVE x \in ToSet(q) /\ x # Head(q)
    <3>1. PICK i \in 1 .. Len(q) - 1 : x = q[i + 1]
      BY <2>1, <1>2 DEF ToSet
    <3>2. i + 1 \in 1 .. Len(q) /\ 1 \in 1 .. Len(q) /\ i + 1 # 1
      BY <1>1
    <3> QED BY <3>1, <3>2, <1>1, <1>3 DEF ToSet, IsInjective
  <2>2. ASSUME x \in ToSet(q), x # Head(q) PROVE x \in ToSet(Tail(q))
    <3>1. PICK i \in 1 .. Len(q) : x = q[i]
      BY <2>2, <1>1 DEF ToSet
    <3>2. i # 1 /\ i - 1 \in 1 .. Len(q) - 1
      BY <3>1, <2>2, <1>1, <1>3
    <3>3. Tail(q)[i - 1] = x
      BY <3>1, <3>2, <1>1, <1>2
    <3> QED BY <3>2, <3>3, <1>2 DEF ToSet
  <2> QED BY <2>1, <2>2
<1> QED BY <1>2, <1>3, <1>4, <1>5

\* The id queue starts as some order of all the slots.
LEMMA InitialQueue ==
    ASSUME idQueue \in Orders(Ids)
    PROVE  QueueSound /\ Free = Ids
<1> DEFINE n == Cardinality(Ids)
<1>1. n \in Nat
  BY SlotAssumption, FS_CardinalityType
<1>2. /\ idQueue \in [1 .. n -> Ids]
      /\ IsInjective(idQueue)
      /\ \A id \in Ids : \E i \in 1 .. n : idQueue[i] = id
  BY DEF Orders, Bijection, Injection, Surjection
<1> HIDE DEF n
<1>3. idQueue \in Seq(Ids) /\ DOMAIN idQueue = 1 .. n
  BY <1>1, <1>2
<1>4. ToSet(idQueue) = Ids
  BY <1>2, <1>3 DEF ToSet
<1> QED BY <1>2, <1>3, <1>4 DEF QueueSound, Free

-----------------------------------------------------------------------------
LEMMA InitPool == Init => PoolInv
<1> SUFFICES ASSUME Init PROVE PoolInv
  OBVIOUS
<1>1. QueueSound /\ Free = Ids
  BY InitialQueue DEF Init
<1>2. accept.stage = "armed" /\ accept \in AcceptStates
  BY DEF Init, NoAccept, AcceptStates
<1> QED BY <1>1, <1>2 DEF Init, PoolInv, Connected

\* ProcessClose, whoever calls it, keeps the invariant on a slot.
LEMMA ProcessClosePool ==
    ASSUME PoolInv, NEW id \in Ids, ProcessClose(id),
           \A op \in reads' : op.id \in Ids
    PROVE  PoolInv'
<1>1. QueueSound' /\ Free' = Free
  BY DEF PoolInv, ProcessClose, QueueSound, Free
<1>2. CASE Connected(id)
  <2>1. /\ closing' = id /\ state' = [state EXCEPT ![id] = "DISCONNECTED"]
        /\ active' = active /\ accept' = accept
    BY <1>2 DEF ProcessClose
  <2> QED BY <1>1, <1>2, <2>1 DEF PoolInv, Connected
<1>3. CASE ~Connected(id)
  <2>1. /\ closing' = closing /\ state' = state
        /\ active' = active /\ accept' = accept
    BY <1>3 DEF ProcessClose
  <2> QED BY <1>1, <2>1 DEF PoolInv, Connected
<1> QED BY <1>2, <1>3

\* A step that changes none of the pool's variables, the phase aside, keeps the
\* invariant if the reads it posts are reads on slots.
LEMMA FramePool ==
    ASSUME PoolInv, UNCHANGED <<idQueue, active, closing, accept, state>>,
           \A op \in reads' : op.id \in Ids
    PROVE  PoolInv'
BY DEF PoolInv, QueueSound, Free, Connected

LEMMA AcquirePool ==
    ASSUME PoolInv, AcceptAcquire
    PROVE  PoolInv'
<1>1. CASE idQueue = <<>>
  <2>1. accept' = NoAccept /\ UNCHANGED <<idQueue, active, closing, state, reads>>
    BY <1>1 DEF AcceptAcquire, opVars
  <2>2. accept'.stage = "armed" /\ accept' \in AcceptStates
    BY <2>1 DEF NoAccept, AcceptStates
  <2>3. QueueSound' /\ Free' = Free
    BY <2>1 DEF PoolInv, QueueSound, Free
  <2> QED BY <2>1, <2>2, <2>3 DEF PoolInv, Connected
<1>2. CASE idQueue # <<>>
  <2> DEFINE id == Head(idQueue)
  <2>1. id \in Ids /\ id \in Free /\ QueueSound' /\ Free' = Free \ {id}
    <3>1. idQueue \in Seq(Ids) /\ IsInjective(idQueue)
      BY DEF PoolInv, QueueSound
    <3>2. idQueue' = Tail(idQueue)
      BY <1>2 DEF AcceptAcquire
    <3> QED BY <1>2, <3>1, <3>2, AcquireQueue DEF QueueSound, Free
  <2>2. /\ accept' = [stage |-> "acquired", id |-> id]
        /\ active' = active \cup {id}
        /\ UNCHANGED <<closing, state, reads>>
    BY <1>2 DEF AcceptAcquire, opVars
  <2> HIDE DEF id
  <2>3. accept'.stage = "acquired" /\ accept'.id = id /\ accept' \in AcceptStates
    BY <2>1, <2>2 DEF AcceptStates
  <2>4. id \notin active /\ ~Connected(id) /\ id # closing
    BY <2>1, SlotAssumption DEF PoolInv
  <2> QED BY <2>1, <2>2, <2>3, <2>4 DEF PoolInv, Connected
<1> QED BY <1>1, <1>2

\* The accepted raw socket is put into the slot that was acquired.
LEMMA SetSocketPool ==
    ASSUME PoolInv, SetSocket
    PROVE  PoolInv'
<1>1. /\ accept' = [accept EXCEPT !.stage = "set"]
      /\ UNCHANGED <<idQueue, active, closing, state, reads>>
  BY DEF SetSocket, opVars
<1>2. accept' \in AcceptStates /\ accept'.stage = "set" /\ accept'.id = accept.id
  BY <1>1 DEF PoolInv, AcceptStates
<1>3. QueueSound' /\ Free' = Free
  BY <1>1 DEF PoolInv, QueueSound, Free
<1> QED BY <1>1, <1>2, <1>3 DEF PoolInv, SetSocket, Connected

LEMMA InitSocketPool ==
    ASSUME PoolInv, AcceptInit
    PROVE  PoolInv'
<1> DEFINE id == accept.id
<1>1. id \in Ids /\ id \in active /\ id # closing
  BY DEF PoolInv, AcceptInit
<1>2. /\ state' = [state EXCEPT ![id] = "CONNECTED"]
      /\ accept' = [accept EXCEPT !.stage = "initialised"]
      /\ UNCHANGED <<idQueue, active, closing, reads>>
  BY DEF AcceptInit, opVars
<1>3. QueueSound' /\ Free' = Free
  BY <1>2 DEF PoolInv, QueueSound, Free
<1>4. accept' \in AcceptStates /\ accept'.stage = "initialised" /\ accept'.id = id
  BY <1>2 DEF PoolInv, AcceptStates
<1> QED BY <1>1, <1>2, <1>3, <1>4 DEF PoolInv, Connected

LEMMA FinishClosePool ==
    ASSUME PoolInv, FinishClose
    PROVE  PoolInv'
<1> DEFINE id == closing
<1>1. id \in Ids /\ id \in active /\ ~Connected(id) /\ id \notin Free
  BY DEF PoolInv, FinishClose
<1>2. /\ idQueue' = Append(idQueue, id)
      /\ active' = active \ {id}
      /\ closing' = NoId
      /\ UNCHANGED <<accept, state, reads>>
  BY <1>1 DEF FinishClose, Swapped, opVars
<1> HIDE DEF id
<1>3. QueueSound' /\ Free' = Free \cup {id}
  <2>1. idQueue \in Seq(Ids) /\ IsInjective(idQueue) /\ id \notin ToSet(idQueue)
    BY <1>1 DEF PoolInv, QueueSound, Free
  <2> QED BY <1>1, <1>2, <2>1, ReleaseQueue DEF QueueSound, Free
<1>4. active' = Ids \ Free'
  BY <1>2, <1>3 DEF PoolInv
<1>5. accept.stage \in {"acquired", "set"} => accept.id # id
  BY DEF PoolInv, id
<1> QED BY <1>1, <1>2, <1>3, <1>4, <1>5, SlotAssumption DEF PoolInv, Connected

\* Posting a read adds at most one read, on the given slot.
LEMMA PostedRead ==
    ASSUME NEW id \in Ids, NEW rest, \A op \in rest : op.id \in Ids
    PROVE  \A op \in ReadsAfterPost(id, rest) : op.id \in Ids
BY DEF ReadsAfterPost

\* One step per action: those that only touch a slot's send state, counters
\* and calls leave the pool alone.
LEMMA NextPool ==
    ASSUME PoolInv, [Next]_vars, Serving'
    PROVE  PoolInv'
<1>0. \A op \in reads : op.id \in Ids
  BY DEF PoolInv
<1>1. CASE AcceptArrives
  <2>1. QueueSound' /\ Free' = Free
    BY <1>1 DEF PoolInv, AcceptArrives, QueueSound, Free
  <2>2. accept'.stage = "arrived" /\ accept' \in AcceptStates
    BY <1>1 DEF AcceptArrives, AcceptStates
  <2> QED BY <1>1, <2>1, <2>2 DEF PoolInv, AcceptArrives, opVars, Connected
<1>2. CASE AcceptAcquire
  BY <1>2, AcquirePool
<1>3. CASE SetSocket \/ AcceptInit
  BY <1>3, SetSocketPool, InitSocketPool
<1>4. CASE AcceptReceive
  <2>1. accept.id \in Ids
    BY <1>4 DEF PoolInv, AcceptReceive
  <2>2. reads' = ReadsAfterPost(accept.id, reads)
    BY <1>4 DEF AcceptReceive
  <2>3. \A op \in reads' : op.id \in Ids
    BY <1>0, <2>1, <2>2, PostedRead
  <2>4. QueueSound' /\ Free' = Free
    BY <1>4 DEF PoolInv, AcceptReceive, QueueSound, Free
  <2>5. accept'.stage = "armed" /\ accept' \in AcceptStates
    BY <1>4 DEF AcceptReceive, NoAccept, AcceptStates
  <2>6. UNCHANGED <<active, closing, state>>
    BY <1>4 DEF AcceptReceive
  <2> QED BY <2>3, <2>4, <2>5, <2>6 DEF PoolInv, Connected
<1>5. ASSUME NEW id \in Ids, NEW len \in PacketLengths,
             QueueAndSend(id, len) \/ QueueOverflow(id, len)
      PROVE  PoolInv'
  BY <1>0, <1>5, FramePool DEF QueueAndSend, QueueOverflow, poolVars, opVars
<1>6. ASSUME NEW id \in Ids, RequestClose(id) \/ CloseTest(id) \/ CloseLocked(id)
      PROVE  PoolInv'
  BY <1>0, <1>6, FramePool DEF RequestClose, CloseTest, CloseLocked, poolVars, opVars
<1>7. ASSUME NEW id \in Ids, OnPostClose(id)
      PROVE  PoolInv'
  BY <1>0, <1>7, ProcessClosePool DEF OnPostClose, opVars
<1>8. CASE FinishClose
  BY <1>8, FinishClosePool
<1>9. ASSUME NEW op \in writes, Sending(op)
      PROVE  PoolInv'
  BY <1>0, <1>9, FramePool DEF Sending, SendSucceeds, SendChain, SendFails, poolVars
<1>10. ASSUME NEW op \in reads, Receiving(op)
       PROVE  PoolInv'
  <2>1. op.id \in Ids /\ \A o \in reads \ {op} : o.id \in Ids
    BY <1>0
  <2>2. CASE ReceiveData(op)
    <3>1. \A o \in reads' : o.id \in Ids
      BY <2>1, <2>2, PostedRead DEF ReceiveData
    <3> QED BY <2>2, <3>1, FramePool DEF ReceiveData, poolVars
  <2>3. CASE ReceiveEnd(op)
    BY <2>1, <2>3, ProcessClosePool DEF ReceiveEnd
  <2>4. CASE ReceiveForgiven(op)
    BY <2>1, <2>4, FramePool DEF ReceiveForgiven, poolVars
  <2>5. CASE ReceiveFails(op)
    BY <2>1, <2>5, ProcessClosePool DEF ReceiveFails
  <2> QED BY <1>10, <2>2, <2>3, <2>4, <2>5 DEF Receiving
<1>11. CASE StopAccept
  BY <1>0, <1>11, FramePool DEF StopAccept, opVars
<1>12. ~ShutdownRelease /\ ~PoolStop
  BY DEF Serving, ShutdownRelease, PoolStop
<1>13. CASE UNCHANGED vars
  BY <1>0, <1>13, FramePool DEF vars, poolVars, opVars
<1> QED
  BY <1>1, <1>2, <1>3, <1>4, <1>5, <1>6, <1>7, <1>8, <1>9, <1>10, <1>11, <1>12,
     <1>13 DEF Next, Accepting, CloseStep

\* A pool that has stopped serving never serves again.
LEMMA ReleasedForGood ==
    ASSUME [Next]_vars, Serving'
    PROVE  Serving
<1>1. CASE phase' = phase
  BY <1>1 DEF Serving
<1>2. CASE StopAccept \/ ShutdownRelease \/ PoolStop
  BY <1>2 DEF Serving, StopAccept, ShutdownRelease, PoolStop
<1>3. CASE Accepting \/ FinishClose
  BY <1>1, <1>3 DEF Accepting, AcceptArrives, AcceptAcquire, SetSocket, AcceptInit,
     AcceptReceive, FinishClose
<1>4. ASSUME NEW id \in Ids,
             \/ \E len \in PacketLengths : QueueAndSend(id, len) \/ QueueOverflow(id, len)
             \/ RequestClose(id)
             \/ CloseStep(id)
      PROVE  Serving
  BY <1>1, <1>4 DEF QueueAndSend, QueueOverflow, RequestClose, CloseStep, CloseTest,
     CloseLocked, OnPostClose, ProcessClose, poolVars
<1>5. ASSUME NEW op \in writes, Sending(op)
      PROVE  Serving
  BY <1>1, <1>5 DEF Sending, SendSucceeds, SendChain, SendFails, poolVars
<1>6. ASSUME NEW op \in reads, Receiving(op)
      PROVE  Serving
  BY <1>1, <1>6 DEF Receiving, ReceiveData, ReceiveEnd, ReceiveForgiven, ReceiveFails,
     ProcessClose, poolVars
<1>7. CASE UNCHANGED vars
  BY <1>1, <1>7 DEF vars, poolVars
<1> QED BY <1>2, <1>3, <1>4, <1>5, <1>6, <1>7 DEF Next

-----------------------------------------------------------------------------
(***************************************************************************)
(* After the slots have been released.                                     *)
(***************************************************************************)

\* The inductive invariant of a pool that serves no more.  The id queue holds
\* ids twice by then; what counts is that an accept still under way is the only
\* one that can connect a slot, and that nothing is connected before it does.
ReleasedInv ==
    /\ idQueue \in Seq(Ids)
    /\ active \subseteq Ids
    /\ closing \in Ids \cup {NoId}
    /\ state \in [Ids -> {"CONNECTED", "DISCONNECTED"}]
    /\ \A op \in reads : op.id \in Ids
    /\ accept \in AcceptStates
    /\ accept.stage \in {"acquired", "set", "initialised"} => accept.id \in Ids
    /\ closing # NoId => ~Connected(closing)
    /\ accept.stage \in {"arrived", "acquired", "set"} =>
         closing = NoId /\ \A id \in Ids : ~Connected(id)
    /\ \A a, b \in Ids : Connected(a) /\ Connected(b) => a = b

\* A slot that is in use or free, whatever the phase.
Accounted == (Serving => PoolInv) /\ (~Serving => ReleasedInv)

\* Any order of a set of slots can follow the id queue.
LEMMA ReleaseAll ==
    ASSUME NEW q \in Seq(Ids), NEW set \in SUBSET Ids, NEW released \in Orders(set)
    PROVE  q \o released \in Seq(Ids)
<1>1. Cardinality(set) \in Nat
  BY SlotAssumption, FS_Subset, FS_CardinalityType
<1> DEFINE n == Cardinality(set)
<1>2. released \in [1 .. n -> Ids]
  BY DEF Orders, Bijection, Injection
<1> HIDE DEF n
<1>3. released \in Seq(Ids)
  BY <1>1, <1>2 DEF n
<1> QED BY <1>3

\* The release disconnects every slot that was connected.
LEMMA ReleaseStep ==
    ASSUME PoolInv, ShutdownRelease
    PROVE  ReleasedInv'
<1>1. /\ closing = NoId
      /\ state' = [id \in Ids |-> IF id \in active THEN "DISCONNECTED" ELSE state[id]]
      /\ active' = {}
      /\ UNCHANGED <<closing, accept, reads>>
  BY DEF ShutdownRelease, MutexFree, opVars
<1>2. idQueue' \in Seq(Ids)
  <2>1. PICK released \in Orders(active) : idQueue' = idQueue \o released
    BY DEF ShutdownRelease
  <2>2. idQueue \in Seq(Ids) /\ active \in SUBSET Ids
    BY DEF PoolInv, QueueSound
  <2> QED BY <2>1, <2>2, ReleaseAll
<1>3. \A id \in Ids : ~Connected(id)'
  BY <1>1 DEF PoolInv, Connected
<1> QED BY <1>1, <1>2, <1>3 DEF PoolInv, ReleasedInv

\* ProcessClose of the one connection left, or of none.
LEMMA ProcessCloseReleased ==
    ASSUME ReleasedInv, NEW id \in Ids, ProcessClose(id),
           \A op \in reads' : op.id \in Ids
    PROVE  ReleasedInv'
<1>1. idQueue' = idQueue /\ active' = active /\ accept' = accept
  BY DEF ProcessClose
<1>2. CASE Connected(id)
  <2>1. closing' = id /\ state' = [state EXCEPT ![id] = "DISCONNECTED"]
    BY <1>2 DEF ProcessClose
  <2> QED BY <1>1, <1>2, <2>1 DEF ReleasedInv, Connected
<1>3. CASE ~Connected(id)
  <2>1. closing' = closing /\ state' = state
    BY <1>3 DEF ProcessClose
  <2> QED BY <1>1, <2>1 DEF ReleasedInv, Connected
<1> QED BY <1>2, <1>3

\* A step that leaves the pool alone.
LEMMA FrameReleased ==
    ASSUME ReleasedInv, UNCHANGED <<idQueue, active, closing, accept, state>>,
           \A op \in reads' : op.id \in Ids
    PROVE  ReleasedInv'
BY DEF ReleasedInv, Connected

\* The accept that was under way gets an id, or none.
LEMMA AcquireReleased ==
    ASSUME ReleasedInv, AcceptAcquire
    PROVE  ReleasedInv'
<1>1. UNCHANGED <<closing, state, reads>> /\ accept.stage = "arrived"
  BY DEF AcceptAcquire, opVars
<1>2. CASE idQueue = <<>>
  <2>1. idQueue' = idQueue /\ active' = active /\ accept' = NoAccept
    BY <1>2 DEF AcceptAcquire
  <2>2. accept'.stage = "armed" /\ accept' \in AcceptStates
    BY <2>1 DEF NoAccept, AcceptStates
  <2> QED BY <1>1, <2>1, <2>2 DEF ReleasedInv, Connected
<1>3. CASE idQueue # <<>>
  <2> DEFINE id == Head(idQueue)
  <2>1. /\ idQueue' = Tail(idQueue) /\ active' = active \cup {id}
        /\ accept' = [stage |-> "acquired", id |-> id]
    BY <1>3 DEF AcceptAcquire
  <2>2. idQueue' \in Seq(Ids) /\ id \in Ids
    BY <1>3, <2>1 DEF ReleasedInv
  <2> HIDE DEF id
  <2>3. accept'.stage = "acquired" /\ accept'.id = id /\ accept' \in AcceptStates
    BY <2>1, <2>2 DEF AcceptStates
  <2> QED BY <1>1, <2>1, <2>2, <2>3 DEF ReleasedInv, Connected
<1> QED BY <1>2, <1>3

\* ... gets its raw socket ...
LEMMA SetSocketReleased ==
    ASSUME ReleasedInv, SetSocket
    PROVE  ReleasedInv'
<1>1. /\ accept' = [accept EXCEPT !.stage = "set"]
      /\ UNCHANGED <<idQueue, active, closing, state, reads>>
  BY DEF SetSocket, opVars
<1>2. accept' \in AcceptStates /\ accept'.stage = "set" /\ accept'.id = accept.id
  BY <1>1 DEF ReleasedInv, AcceptStates
<1> QED BY <1>1, <1>2 DEF ReleasedInv, SetSocket, Connected

\* ... and connects its slot, the only one.
LEMMA InitSocketReleased ==
    ASSUME ReleasedInv, AcceptInit
    PROVE  ReleasedInv'
<1> DEFINE id == accept.id
<1>1. id \in Ids /\ closing = NoId /\ \A a \in Ids : ~Connected(a)
  BY DEF ReleasedInv, AcceptInit
<1>2. /\ state' = [state EXCEPT ![id] = "CONNECTED"]
      /\ accept' = [accept EXCEPT !.stage = "initialised"]
      /\ UNCHANGED <<idQueue, active, closing, reads>>
  BY DEF AcceptInit, opVars
<1>3. accept' \in AcceptStates /\ accept'.stage = "initialised" /\ accept'.id = id
  BY <1>2 DEF ReleasedInv, AcceptStates
<1> QED BY <1>1, <1>2, <1>3 DEF ReleasedInv, Connected

\* A released pool keeps its invariant: nothing arrives any more.
LEMMA NextReleased ==
    ASSUME ReleasedInv, ~Serving, [Next]_vars
    PROVE  ReleasedInv'
<1>0. \A op \in reads : op.id \in Ids
  BY DEF ReleasedInv
<1>1. ~AcceptArrives /\ ~StopAccept /\ ~ShutdownRelease
  BY DEF Serving, AcceptArrives, StopAccept, ShutdownRelease
<1>2. CASE AcceptAcquire
  BY <1>2, AcquireReleased
<1>3. CASE SetSocket \/ AcceptInit
  BY <1>3, SetSocketReleased, InitSocketReleased
<1>4. CASE AcceptReceive
  <2>1. accept.id \in Ids /\ UNCHANGED <<idQueue, active, closing, state>>
    BY <1>4 DEF ReleasedInv, AcceptReceive
  <2>2. \A op \in reads' : op.id \in Ids
    BY <1>0, <1>4, <2>1, PostedRead DEF AcceptReceive
  <2>3. accept'.stage = "armed" /\ accept' \in AcceptStates
    BY <1>4 DEF AcceptReceive, NoAccept, AcceptStates
  <2> QED BY <2>1, <2>2, <2>3 DEF ReleasedInv, Connected
<1>5. ASSUME NEW id \in Ids, NEW len \in PacketLengths,
             QueueAndSend(id, len) \/ QueueOverflow(id, len)
      PROVE  ReleasedInv'
  BY <1>0, <1>5, FrameReleased DEF QueueAndSend, QueueOverflow, poolVars, opVars
<1>6. ASSUME NEW id \in Ids, RequestClose(id) \/ CloseTest(id) \/ CloseLocked(id)
      PROVE  ReleasedInv'
  BY <1>0, <1>6, FrameReleased DEF RequestClose, CloseTest, CloseLocked, poolVars, opVars
<1>7. ASSUME NEW id \in Ids, OnPostClose(id)
      PROVE  ReleasedInv'
  BY <1>0, <1>7, ProcessCloseReleased DEF OnPostClose, opVars
<1>8. CASE FinishClose
  <2>1. /\ idQueue' = Append(idQueue, closing) /\ closing \in Ids /\ closing' = NoId
        /\ active' = Swapped(active, closing)
        /\ UNCHANGED <<accept, state, reads>>
    BY <1>8 DEF FinishClose, ReleasedInv, opVars
  <2>2. idQueue' \in Seq(Ids) /\ active' \subseteq Ids
    BY <2>1 DEF ReleasedInv, Swapped
  <2> QED BY <2>1, <2>2 DEF ReleasedInv, Connected
<1>9. ASSUME NEW op \in writes, Sending(op)
      PROVE  ReleasedInv'
  BY <1>0, <1>9, FrameReleased DEF Sending, SendSucceeds, SendChain, SendFails, poolVars
<1>10. ASSUME NEW op \in reads, Receiving(op)
       PROVE  ReleasedInv'
  <2>1. op.id \in Ids /\ \A o \in reads \ {op} : o.id \in Ids
    BY <1>0
  <2>2. CASE ReceiveData(op)
    <3>1. \A o \in reads' : o.id \in Ids
      BY <2>1, <2>2, PostedRead DEF ReceiveData
    <3> QED BY <2>2, <3>1, FrameReleased DEF ReceiveData, poolVars
  <2>3. CASE ReceiveEnd(op)
    BY <2>1, <2>3, ProcessCloseReleased DEF ReceiveEnd
  <2>4. CASE ReceiveForgiven(op)
    BY <2>1, <2>4, FrameReleased DEF ReceiveForgiven, poolVars
  <2>5. CASE ReceiveFails(op)
    BY <2>1, <2>5, ProcessCloseReleased DEF ReceiveFails
  <2> QED BY <1>10, <2>2, <2>3, <2>4, <2>5 DEF Receiving
<1>11. CASE PoolStop
  BY <1>0, <1>11, FrameReleased DEF PoolStop, opVars
<1>12. CASE UNCHANGED vars
  BY <1>0, <1>12, FrameReleased DEF vars, poolVars, opVars
<1> QED
  BY <1>1, <1>2, <1>3, <1>4, <1>5, <1>6, <1>7, <1>8, <1>9, <1>10, <1>11, <1>12
  DEF Next, Accepting, CloseStep

\* Only the release ends the service.
LEMMA ServiceEnds ==
    ASSUME Serving, ~Serving', [Next]_vars
    PROVE  ShutdownRelease
<1>1. phase' # phase
  BY DEF Serving
<1>2. ~PoolStop /\ ~StopAccept
  BY DEF Serving, PoolStop, StopAccept
<1>3. ~Accepting /\ ~FinishClose /\ ~UNCHANGED vars
  BY <1>1 DEF Accepting, AcceptArrives, AcceptAcquire, SetSocket, AcceptInit,
     AcceptReceive, FinishClose, vars, poolVars
<1>4. \A id \in Ids :
        /\ \A len \in PacketLengths : ~QueueAndSend(id, len) /\ ~QueueOverflow(id, len)
        /\ ~RequestClose(id) /\ ~CloseStep(id)
  BY <1>1 DEF QueueAndSend, QueueOverflow, RequestClose, CloseStep, CloseTest,
     CloseLocked, OnPostClose, ProcessClose, poolVars
<1>5. \A op \in writes : ~Sending(op)
  BY <1>1 DEF Sending, SendSucceeds, SendChain, SendFails, poolVars
<1>6. \A op \in reads : ~Receiving(op)
  BY <1>1 DEF Receiving, ReceiveData, ReceiveEnd, ReceiveForgiven, ReceiveFails,
     ProcessClose, poolVars
<1> QED BY <1>2, <1>3, <1>4, <1>5, <1>6 DEF Next

\* What the invariant says of the pool, in the terms of the runs.
LEMMA PoolInvImplies == Accounted => SlotPartition /\ ConnectedIsActive
BY DEF Accounted, PoolInv, SlotPartition, ConnectedIsActive, QueueSound, Free

\* The invariant holds of every behaviour, through the release.
LEMMA PoolInvariant == Spec => []Accounted
<1>1. Init => Accounted
  BY InitPool DEF Init, Serving, Accounted
<1>2. Accounted /\ [Next]_vars => Accounted'
  BY NextPool, ReleasedForGood, NextReleased, ServiceEnds, ReleaseStep DEF Accounted
<1> QED BY <1>1, <1>2, PTL DEF Spec

\* Until shutdown disconnects them all, the slots are always partitioned into
\* the id queue, without repetition, and the active array: no handler, late
\* completion or close can release a slot twice or lose one.
THEOREM SlotsPartitioned == Spec => []SlotPartition
BY PoolInvariant, PoolInvImplies, PTL

\* Until then, a slot that serves a connection, is being closed, or is being
\* set up for an accepted one, is never free to be given to another.
THEOREM ConnectedSlotsActive == Spec => []ConnectedIsActive
BY PoolInvariant, PoolInvImplies, PTL

\* The shutdown leaves at most the one connection standing whose accept was past
\* StopAccept.
THEOREM OneLeftStanding == Spec => []ShutdownLeavesAtMostOne
<1>1. Accounted => ShutdownLeavesAtMostOne
  <2> SUFFICES ASSUME Accounted, phase \in {"released", "stopped"}
               PROVE  Cardinality({id \in Ids : Connected(id)}) <= 1
    BY DEF ShutdownLeavesAtMostOne
  <2> DEFINE left == {id \in Ids : Connected(id)}
  <2>1. \A a, b \in left : a = b
    BY DEF Accounted, Serving, ReleasedInv
  <2>2. left = {} \/ \E id : left = {id}
    BY <2>1
  <2> HIDE DEF left
  <2>3. Cardinality(left) = 0 \/ Cardinality(left) = 1
    BY <2>2, FS_EmptySet, FS_Singleton
  <2>4. Cardinality(left) <= 1
    BY <2>3
  <2> QED BY <2>4 DEF left
<1> QED BY <1>1, PoolInvariant, PTL

-----------------------------------------------------------------------------
(***************************************************************************)
(* The send chain of a session slot, for any number of slots, any ring and *)
(* any packet lengths, with short writes: types always, and, of every live *)
(* connection that began with no write under way on its slot, that one     *)
(* write is under way exactly when something is queued, that the queued    *)
(* packets lie end to end in the ring, and that none of them is another    *)
(* connection's.                                                           *)
(*                                                                         *)
(* The invariant speaks of each slot apart (SlotSound).  What it adds to   *)
(* the properties is what a slot keeps between two connections: a queue    *)
(* that is not empty has a write under way, even on a dead connection or   *)
(* one that began badly, so that a slot on which nothing is being written  *)
(* has an empty queue.  About the ring it adds that the queued packets lie *)
(* in order, which by itself follows from their lying end to end, but only *)
(* by induction on the queue.                                              *)
(***************************************************************************)

Cursors == 0 .. SendBufferSize - 1

Spans == [off : Cursors, len : PacketLengths, conn : Nat]

WriteOps == {op \in [id : Ids, conn : Nat, onOpen : BOOLEAN, span : Spans,
                     stage : {"posted", "cleared"}, sent : Nat] : op.sent <= op.span.len}

SendTypes ==
    /\ sendInProgress \in [Ids -> BOOLEAN]
    /\ sendQueue \in [Ids -> Seq(Spans)]
    /\ head \in [Ids -> Cursors]
    /\ tail \in [Ids -> Cursors]
    /\ unsent \in [Ids -> Nat]
    /\ writes \subseteq WriteOps

CallTypes ==
    /\ pendingDisconnect \in [Ids -> BOOLEAN]
    /\ errorCount \in [Ids -> Nat]
    /\ closePosts \in [Ids -> Nat]
    /\ closeCalls \in [Ids -> Nat]
    /\ closeLocks \in [Ids -> Nat]

LinkTypes ==
    /\ phase \in {"running", "stopping", "released", "stopped"}
    /\ conn \in [Ids -> Nat]
    /\ isOpen \in [Ids -> BOOLEAN]
    /\ overlapped \subseteq Ids
    /\ reads \subseteq Ops

Types == SendTypes /\ CallTypes /\ LinkTypes

-----------------------------------------------------------------------------
(***************************************************************************)
(* The ring.                                                               *)
(***************************************************************************)

\* Start and QueueMatchesRing, of any queue and cursors.
StartOf(q, h, t, i) == ValidCount(SendBufferSize, h, IF i <= Len(q) THEN q[i].off ELSE t)

RingSound(q, h, t, left) ==
    /\ StartOf(q, h, t, 1) = left
    /\ \A i \in 1 .. Len(q) : StartOf(q, h, t, i + 1) = StartOf(q, h, t, i) + q[i].len
    /\ \A i \in 1 .. Len(q) : \A j \in i + 1 .. Len(q) + 1 :
         StartOf(q, h, t, i) + q[i].len <= StartOf(q, h, t, j)

\* The distance from the head stays below the size.
LEMMA CountBound ==
    ASSUME NEW h \in Cursors, NEW t \in Cursors
    PROVE  ValidCount(SendBufferSize, h, t) \in Cursors
BY LengthAssumption DEF Cursors, ValidCount

\* A put that fits moves the tail by its length.
LEMMA PutMovesTail ==
    ASSUME NEW h \in Cursors, NEW t \in Cursors, NEW len \in Nat,
           ~IsOverFlowCondition(SendBufferSize, h, t, len)
    PROVE  /\ TailAfter(SendBufferSize, t, len) \in Cursors
           /\ ValidCount(SendBufferSize, h, TailAfter(SendBufferSize, t, len)) =
                ValidCount(SendBufferSize, h, t) + len
BY LengthAssumption DEF Cursors, ValidCount, IsOverFlowCondition, TailAfter, FirstCopyLen,
                        IsIndexOverFlow

\* The remainder HeadIncrease takes is one subtraction of the size at most.
LEMMA WrapOnce ==
    ASSUME NEW n \in Nat, NEW k \in Nat, n > 0, k < 2 * n
    PROVE  k % n = IF k >= n THEN k - n ELSE k
<1>1. CASE k < n
  BY <1>1, SMT
<1>2. CASE k >= n
  BY <1>2, SMT
<1> QED BY <1>1, <1>2

\* Moving the head brings every position it does not pass nearer by as much.
LEMMA PopMovesHead ==
    ASSUME NEW h \in Cursors, NEW n \in Cursors
    PROVE  /\ HeadAfter(SendBufferSize, h, n) \in Cursors
           /\ \A o \in Cursors : n <= ValidCount(SendBufferSize, h, o) =>
                ValidCount(SendBufferSize, HeadAfter(SendBufferSize, h, n), o) =
                  ValidCount(SendBufferSize, h, o) - n
<1>1. /\ SendBufferSize \in Nat /\ SendBufferSize > 0
      /\ h + n \in Nat /\ h + n < 2 * SendBufferSize
  BY LengthAssumption DEF Cursors
<1>2. HeadAfter(SendBufferSize, h, n) =
        IF h + n >= SendBufferSize THEN h + n - SendBufferSize ELSE h + n
  BY <1>1, WrapOnce DEF HeadAfter, Cursors
<1> QED BY <1>1, <1>2 DEF Cursors, ValidCount

\* What HeadIncrease of any number of bytes leaves is a cursor.
LEMMA HeadInside ==
    ASSUME NEW h \in Cursors, NEW n \in Nat
    PROVE  HeadAfter(SendBufferSize, h, n) \in Cursors
BY LengthAssumption DEF HeadAfter, Cursors

\* The fields of a queued packet.
LEMMA SpanFields ==
    ASSUME NEW q \in Seq(Spans), NEW i \in 1 .. Len(q)
    PROVE  /\ q[i] \in Spans /\ q[i].off \in Cursors /\ q[i].conn \in Nat
           /\ q[i].len \in PacketLengths /\ q[i].len \in Nat /\ q[i].len > 0
<1>1. q[i] \in Spans
  OBVIOUS
<1>2. q[i].off \in Cursors /\ q[i].conn \in Nat /\ q[i].len \in PacketLengths
  BY <1>1 DEF Spans
<1>3. \A len \in PacketLengths : len \in Nat /\ len > 0
  BY LengthAssumption
<1> QED BY <1>1, <1>2, <1>3

\* Every start is below the size.
LEMMA StartBound ==
    ASSUME NEW q \in Seq(Spans), NEW h \in Cursors, NEW t \in Cursors,
           NEW i \in 1 .. Len(q) + 1
    PROVE  StartOf(q, h, t, i) \in Cursors
<1>1. CASE i \in 1 .. Len(q)
  <2>1. q[i].off \in Cursors
    BY <1>1, SpanFields
  <2> QED BY <1>1, <2>1, CountBound DEF StartOf
<1>2. CASE i = Len(q) + 1
  <2>1. ~(i <= Len(q))
    BY <1>2
  <2> QED BY <2>1, CountBound DEF StartOf
<1> QED BY <1>1, <1>2

\* A packet that fits is put behind the others.
LEMMA RingPut ==
    ASSUME NEW q \in Seq(Spans), NEW h \in Cursors, NEW t \in Cursors, NEW left \in Nat,
           NEW span \in Spans, span.off = t,
           ~IsOverFlowCondition(SendBufferSize, h, t, span.len),
           RingSound(q, h, t, left)
    PROVE  RingSound(Append(q, span), h, TailAfter(SendBufferSize, t, span.len), left)
<1> DEFINE r == Append(q, span)
           tt == TailAfter(SendBufferSize, t, span.len)
           n == Len(q)
<1>1. /\ n \in Nat /\ Len(r) = n + 1 /\ r[n + 1] = span
      /\ \A i \in 1 .. n : r[i] = q[i]
  OBVIOUS
<1>2. span.len \in Nat
  BY LengthAssumption DEF Spans
<1>3. ValidCount(SendBufferSize, h, tt) = ValidCount(SendBufferSize, h, t) + span.len
  BY <1>2, PutMovesTail
<1> HIDE DEF r, tt, n
<1>4. \A i \in 1 .. n + 1 : StartOf(r, h, tt, i) = StartOf(q, h, t, i)
  <2> SUFFICES ASSUME NEW i \in 1 .. n + 1
               PROVE  StartOf(r, h, tt, i) = StartOf(q, h, t, i)
    OBVIOUS
  <2>1. CASE i <= n
    BY <1>1, <2>1 DEF StartOf, n
  <2>2. CASE i = n + 1
    BY <1>1, <2>2 DEF StartOf, n
  <2> QED BY <1>1, <2>1, <2>2
<1>5. StartOf(q, h, t, n + 1) = ValidCount(SendBufferSize, h, t)
  BY <1>1 DEF StartOf, n
<1>6. StartOf(r, h, tt, n + 2) = StartOf(q, h, t, n + 1) + span.len
  <2>1. StartOf(r, h, tt, n + 2) = ValidCount(SendBufferSize, h, tt)
    BY <1>1 DEF StartOf
  <2> QED BY <1>3, <1>5, <2>1
<1>7. \A i \in 1 .. n + 1 : StartOf(q, h, t, i) \in Nat
  BY StartBound, LengthAssumption DEF n, Cursors
<1>8. StartOf(r, h, tt, 1) = left
  BY <1>1, <1>4 DEF RingSound
<1>9. ASSUME NEW i \in 1 .. n + 1
      PROVE  StartOf(r, h, tt, i + 1) = StartOf(r, h, tt, i) + r[i].len
  <2>1. CASE i = n + 1
    BY <1>1, <1>4, <1>6, <2>1
  <2>2. CASE i \in 1 .. n
    <3>1. StartOf(q, h, t, i + 1) = StartOf(q, h, t, i) + q[i].len
      BY <2>2 DEF RingSound, n
    <3> QED BY <1>1, <1>4, <2>2, <3>1
  <2> QED BY <1>1, <2>1, <2>2
<1>10. ASSUME NEW i \in 1 .. n + 1, NEW j \in i + 1 .. n + 2
       PROVE  StartOf(r, h, tt, i) + r[i].len <= StartOf(r, h, tt, j)
  <2>1. \A k \in 1 .. n : q[k].len \in Nat
    BY SpanFields DEF n
  <2>2. CASE i = n + 1
    <3>1. j = n + 2
      BY <1>1, <2>2
    <3> QED BY <1>1, <1>2, <1>4, <1>6, <1>7, <2>2, <3>1
  <2>3. CASE i \in 1 .. n /\ j \in i + 1 .. n + 1
    <3>1. StartOf(q, h, t, i) + q[i].len <= StartOf(q, h, t, j)
      BY <2>3 DEF RingSound, n
    <3> QED BY <1>1, <1>4, <2>3, <3>1
  <2>4. CASE i \in 1 .. n /\ j = n + 2
    <3>1. StartOf(q, h, t, i) + q[i].len <= StartOf(q, h, t, n + 1)
      BY <1>1, <2>4 DEF RingSound, n
    <3>2. StartOf(r, h, tt, i) = StartOf(q, h, t, i) /\ r[i] = q[i]
      BY <1>1, <1>4, <2>4
    <3> QED BY <1>1, <1>2, <1>6, <1>7, <2>1, <2>4, <3>1, <3>2
  <2> QED BY <1>1, <2>2, <2>3, <2>4
<1> QED BY <1>1, <1>8, <1>9, <1>10 DEF RingSound, r, tt, n

\* Popping a packet of which some bytes were written leaves the rest behind.
LEMMA RingPop ==
    ASSUME NEW q \in Seq(Spans), NEW h \in Cursors, NEW t \in Cursors, NEW left \in Nat,
           NEW n \in Nat, q # <<>>, n <= Head(q).len, RingSound(q, h, t, left)
    PROVE  RingSound(Tail(q), HeadAfter(SendBufferSize, h, n), t, left + Head(q).len - n)
<1> DEFINE r == Tail(q)
           hh == HeadAfter(SendBufferSize, h, n)
           m == Len(q)
<1>1. /\ m \in Nat /\ m >= 1 /\ Len(r) = m - 1 /\ Head(q) = q[1]
      /\ \A i \in 1 .. m - 1 : r[i] = q[i + 1]
  OBVIOUS
<1>2. /\ \A i \in 1 .. m : q[i].len \in Nat /\ q[i].off \in Cursors
      /\ \A i \in 1 .. m + 1 : StartOf(q, h, t, i) \in Nat /\ StartOf(q, h, t, i) \in Cursors
  <2>1. \A i \in 1 .. m : q[i].len \in Nat /\ q[i].off \in Cursors
    BY SpanFields
  <2>2. \A i \in 1 .. m + 1 : StartOf(q, h, t, i) \in Cursors
    BY StartBound
  <2>3. \A c \in Cursors : c \in Nat
    BY LengthAssumption DEF Cursors
  <2> QED BY <2>1, <2>2, <2>3
<1>3. /\ StartOf(q, h, t, 1) = left
      /\ StartOf(q, h, t, 2) = left + q[1].len
  BY <1>1, <1>2 DEF RingSound
<1>4. \A j \in 2 .. m + 1 : n <= StartOf(q, h, t, j)
  <2> SUFFICES ASSUME NEW j \in 2 .. m + 1 PROVE n <= StartOf(q, h, t, j)
    OBVIOUS
  <2>1. StartOf(q, h, t, 1) + q[1].len <= StartOf(q, h, t, j)
    BY <1>1 DEF RingSound
  <2>2. StartOf(q, h, t, j) \in Nat /\ q[1].len \in Nat
    BY <1>1, <1>2
  <2> QED BY <1>1, <1>3, <2>1, <2>2
<1>5. n \in Cursors
  <2>1. n <= StartOf(q, h, t, 2) /\ StartOf(q, h, t, 2) \in Cursors
    BY <1>1, <1>2, <1>4
  <2> QED BY <2>1, LengthAssumption DEF Cursors
<1> HIDE DEF r, hh, m
<1>6. \A i \in 1 .. m : StartOf(r, hh, t, i) = StartOf(q, h, t, i + 1) - n
  <2> SUFFICES ASSUME NEW i \in 1 .. m
               PROVE  StartOf(r, hh, t, i) = StartOf(q, h, t, i + 1) - n
    OBVIOUS
  <2> DEFINE o == IF i <= Len(r) THEN r[i].off ELSE t
  <2>1. o = IF i + 1 <= Len(q) THEN q[i + 1].off ELSE t
    BY <1>1 DEF m
  <2>2. o \in Cursors
    <3>1. CASE i + 1 <= m
      <4>1. i + 1 \in 1 .. m
        BY <1>1, <3>1
      <4>2. o = q[i + 1].off
        BY <2>1, <3>1 DEF m
      <4> QED BY <1>2, <4>1, <4>2
    <3>2. CASE ~(i + 1 <= m)
      BY <2>1, <3>2 DEF m
    <3> QED BY <3>1, <3>2
  <2>3. /\ StartOf(r, hh, t, i) = ValidCount(SendBufferSize, hh, o)
        /\ StartOf(q, h, t, i + 1) = ValidCount(SendBufferSize, h, o)
    BY <2>1 DEF StartOf
  <2>4. n <= StartOf(q, h, t, i + 1)
    BY <1>1, <1>4
  <2> HIDE DEF o
  <2> QED BY <1>5, <2>2, <2>3, <2>4, PopMovesHead DEF hh
<1>7. StartOf(r, hh, t, 1) = left + q[1].len - n
  <2>1. 1 \in 1 .. m /\ 1 + 1 = 2
    BY <1>1
  <2>2. StartOf(r, hh, t, 1) = StartOf(q, h, t, 2) - n
    BY <1>6, <2>1, Zenon
  <2>3. StartOf(q, h, t, 2) - n = (left + q[1].len) - n
    BY <1>3
  <2>4. q[1].len \in Nat
    BY <1>1, <1>2
  <2> QED BY <2>2, <2>3, <2>4
<1>8. ASSUME NEW i \in 1 .. m - 1
      PROVE  StartOf(r, hh, t, i + 1) = StartOf(r, hh, t, i) + r[i].len
  <2>1. StartOf(q, h, t, i + 2) = StartOf(q, h, t, i + 1) + q[i + 1].len
    <3>1. i + 1 \in 1 .. Len(q) /\ (i + 1) + 1 = i + 2
      BY <1>1 DEF m
    <3> QED BY <3>1 DEF RingSound
  <2>2. /\ StartOf(r, hh, t, i) = StartOf(q, h, t, i + 1) - n
        /\ StartOf(r, hh, t, i + 1) = StartOf(q, h, t, i + 2) - n
        /\ r[i] = q[i + 1]
    <3>1. i \in 1 .. m /\ i + 1 \in 1 .. m /\ (i + 1) + 1 = i + 2
      BY <1>1
    <3> QED BY <1>1, <1>6, <3>1
  <2>3. StartOf(q, h, t, i + 1) \in Nat /\ q[i + 1].len \in Nat
    <3>1. i + 1 \in 1 .. m /\ i + 1 \in 1 .. m + 1
      BY <1>1
    <3> QED BY <1>2, <3>1
  <2> QED BY <2>1, <2>2, <2>3
<1>9. ASSUME NEW i \in 1 .. m - 1, NEW j \in i + 1 .. m
      PROVE  StartOf(r, hh, t, i) + r[i].len <= StartOf(r, hh, t, j)
  <2>1. StartOf(q, h, t, i + 1) + q[i + 1].len <= StartOf(q, h, t, j + 1)
    <3>1. i + 1 \in 1 .. Len(q) /\ j + 1 \in (i + 1) + 1 .. Len(q) + 1
      BY <1>1 DEF m
    <3> QED BY <3>1 DEF RingSound
  <2>2. /\ StartOf(r, hh, t, i) = StartOf(q, h, t, i + 1) - n
        /\ StartOf(r, hh, t, j) = StartOf(q, h, t, j + 1) - n
        /\ r[i] = q[i + 1]
    BY <1>1, <1>6
  <2>3. /\ StartOf(q, h, t, i + 1) \in Nat /\ q[i + 1].len \in Nat
        /\ StartOf(q, h, t, j + 1) \in Nat
    BY <1>1, <1>2
  <2> QED BY <2>1, <2>2, <2>3
<1>10. Len(r) = m - 1 /\ Len(r) + 1 = m
  BY <1>1
<1>11. /\ StartOf(r, hh, t, 1) = left + Head(q).len - n
       /\ \A i \in 1 .. Len(r) : StartOf(r, hh, t, i + 1) = StartOf(r, hh, t, i) + r[i].len
       /\ \A i \in 1 .. Len(r) : \A j \in i + 1 .. Len(r) + 1 :
            StartOf(r, hh, t, i) + r[i].len <= StartOf(r, hh, t, j)
  BY <1>1, <1>7, <1>8, <1>9, <1>10
<1> QED BY <1>11 DEF RingSound, r, hh

\* An empty ring.
LEMMA RingEmpty == RingSound(<<>>, 0, 0, 0)
BY LengthAssumption DEF RingSound, StartOf, ValidCount
-----------------------------------------------------------------------------
(***************************************************************************)
(* Types.                                                                  *)
(***************************************************************************)

\* What the pool's invariant says of the slots that the steps name.
LEMMA NamedSlots ==
    ASSUME Accounted
    PROVE  /\ closing # NoId => closing \in Ids /\ ~Connected(closing)
           /\ accept.stage \in {"acquired", "set", "initialised"} => accept.id \in Ids
BY SlotAssumption DEF Accounted, PoolInv, ReleasedInv

LEMMA WriteTyped ==
    ASSUME Types, NEW id \in Ids, NEW span \in Spans
    PROVE  /\ Write(id, span) \in WriteOps
           /\ Write(id, span).id = id /\ Write(id, span).conn = conn[id]
           /\ Write(id, span).span = span
<1>1. conn[id] \in Nat /\ isOpen[id] \in BOOLEAN /\ span.len \in Nat
  BY LengthAssumption DEF Types, LinkTypes, Spans
<1> QED BY <1>1 DEF Write, WriteOps

LEMMA WriteFields ==
    ASSUME Types, NEW op \in writes
    PROVE  /\ op \in WriteOps /\ op.id \in Ids /\ op.span \in Spans
           /\ op.sent \in Nat /\ op.sent <= op.span.len
           /\ op.span.len \in Nat
<1>1. op \in WriteOps
  BY DEF Types, SendTypes
<1>2. op.id \in Ids /\ op.span \in Spans /\ op.sent \in Nat /\ op.sent <= op.span.len
  BY <1>1 DEF WriteOps
<1>3. op.span.len \in PacketLengths
  BY <1>2 DEF Spans
<1> QED BY <1>1, <1>2, <1>3, LengthAssumption

LEMMA NewSpanTyped ==
    ASSUME Types, NEW id \in Ids, NEW len \in PacketLengths
    PROVE  LET span == [off |-> tail[id], len |-> len, conn |-> conn[id]]
           IN  /\ span \in Spans
               /\ span.off = tail[id] /\ span.len = len /\ span.conn = conn[id]
               /\ Append(sendQueue[id], span) \in Seq(Spans)
<1> DEFINE span == [off |-> tail[id], len |-> len, conn |-> conn[id]]
<1>1. tail[id] \in Cursors /\ conn[id] \in Nat /\ sendQueue[id] \in Seq(Spans)
  BY DEF Types, SendTypes, LinkTypes
<1>2. span \in Spans
  BY <1>1 DEF Spans
<1>3. Append(sendQueue[id], span) \in Seq(Spans)
  <2> HIDE DEF span
  <2> QED BY <1>1, <1>2
<1> QED BY <1>2, <1>3

\* What is left of a queue when its front is popped.
Rest(q) == IF q = <<>> THEN <<>> ELSE Tail(q)

LEMMA RestTyped ==
    ASSUME NEW q \in Seq(Spans)
    PROVE  /\ Rest(q) \in Seq(Spans)
           /\ Rest(q) # <<>> => Head(Rest(q)) \in Spans
           /\ q # <<>> => Head(q) \in Spans
BY DEF Rest

LEMMA InitTypes == Init => Types
<1> SUFFICES ASSUME Init PROVE Types
  OBVIOUS
<1>1. 0 \in Cursors /\ <<>> \in Seq(Spans)
  BY LengthAssumption DEF Cursors
<1>2. SendTypes
  BY <1>1 DEF Init, SendTypes
<1>3. CallTypes
  BY DEF Init, CallTypes
<1>4. LinkTypes
  BY DEF Init, LinkTypes
<1> QED BY <1>2, <1>3, <1>4 DEF Types

\* ProcessClose touches the raw socket alone.
LEMMA ProcessCloseTypes ==
    ASSUME Types, NEW id \in Ids, ProcessClose(id), UNCHANGED <<writes, closeCalls, closeLocks>>,
           closePosts' \in [Ids -> Nat], errorCount' \in [Ids -> Nat], reads' \subseteq Ops
    PROVE  Types'
<1>1. SendTypes'
  BY DEF Types, SendTypes, ProcessClose, sendVars
<1>2. CallTypes'
  BY DEF Types, CallTypes, ProcessClose
<1>3. isOpen' = isOpen \/ isOpen' = [isOpen EXCEPT ![id] = FALSE]
  BY DEF ProcessClose
<1>4. LinkTypes'
  BY <1>3 DEF Types, LinkTypes, ProcessClose
<1> QED BY <1>1, <1>2, <1>4 DEF Types

\* A read that AsyncReceive posts is one on a slot.
LEMMA ReadTyped ==
    ASSUME Types, NEW id \in Ids, NEW rest, rest \subseteq Ops
    PROVE  ReadsAfterPost(id, rest) \subseteq Ops
<1>1. [id |-> id, conn |-> conn[id], onOpen |-> isOpen[id]] \in Ops
  BY DEF Types, LinkTypes, Ops
<1> QED BY <1>1 DEF ReadsAfterPost

LEMMA QueueTypes ==
    ASSUME Types, NEW id \in Ids, NEW len \in PacketLengths, QueueAndSend(id, len)
    PROVE  Types'
<1> DEFINE span == [off |-> tail[id], len |-> len, conn |-> conn[id]]
           queue == Append(sendQueue[id], span)
<1>1. /\ ~IsOverFlowCondition(SendBufferSize, head[id], tail[id], len)
      /\ tail' = [tail EXCEPT ![id] = TailAfter(SendBufferSize, tail[id], len)]
      /\ sendQueue' = [sendQueue EXCEPT ![id] = queue]
      /\ sendInProgress' = [sendInProgress EXCEPT ![id] = TRUE]
      /\ writes' = IF sendInProgress[id] THEN writes ELSE writes \cup {Write(id, Head(queue))}
      /\ UNCHANGED <<head, phase, pendingDisconnect, errorCount, linkVars, reads, callVars,
                     unsent>>
  BY DEF QueueAndSend, poolVars
<1>2. span \in Spans /\ queue \in Seq(Spans)
  BY NewSpanTyped
<1>3. head[id] \in Cursors /\ tail[id] \in Cursors /\ len \in Nat
  BY LengthAssumption DEF Types, SendTypes
<1>4. TailAfter(SendBufferSize, tail[id], len) \in Cursors
  BY <1>1, <1>3, PutMovesTail
<1>5. Write(id, Head(queue)) \in WriteOps
  <2>1. Len(queue) > 0 /\ Head(queue) = queue[1] /\ queue[1] \in Spans
    <3> HIDE DEF span
    <3>1. sendQueue[id] \in Seq(Spans)
      BY DEF Types, SendTypes
    <3> QED BY <1>2, <3>1
  <2> QED BY <2>1, WriteTyped
<1> HIDE DEF queue, span
<1>6. SendTypes'
  BY <1>1, <1>2, <1>4, <1>5 DEF Types, SendTypes
<1>7. CallTypes'
  BY <1>1 DEF Types, CallTypes, callVars
<1>8. LinkTypes'
  BY <1>1 DEF Types, LinkTypes, linkVars
<1> QED BY <1>6, <1>7, <1>8 DEF Types

\* A counter goes up by one.
LEMMA CountedOnce ==
    ASSUME NEW f \in [Ids -> Nat], NEW i \in Ids
    PROVE  [f EXCEPT ![i] = f[i] + 1] \in [Ids -> Nat]
OBVIOUS

LEMMA ChainTypes ==
    ASSUME Types, NEW op \in writes, SendChain(op)
    PROVE  Types'
<1> DEFINE id == op.id
           rest == Rest(sendQueue[id])
<1>0. /\ id \in Ids /\ sendQueue[id] \in Seq(Spans) /\ head[id] \in Cursors /\ unsent[id] \in Nat
      /\ op.span.len \in Nat /\ op.sent \in Nat /\ op.sent <= op.span.len
  BY WriteFields DEF Types, SendTypes
<1>1. /\ sendQueue' = [sendQueue EXCEPT ![id] = rest]
      /\ sendInProgress' = [sendInProgress EXCEPT ![id] = rest # <<>>]
      /\ writes' = IF rest = <<>> THEN writes \ {op}
                   ELSE (writes \ {op}) \cup {Write(id, Head(rest))}
      /\ \/ head' = head /\ unsent' = unsent
         \/ /\ head' = [head EXCEPT ![id] = HeadAfter(SendBufferSize, head[id], op.sent)]
            /\ unsent' = [unsent EXCEPT ![id] = unsent[id] + op.span.len - op.sent]
      /\ UNCHANGED <<phase, pendingDisconnect, errorCount, tail, linkVars, reads,
                     closePosts, closeLocks>>
  BY DEF SendChain, Rest, poolVars
<1>10. closeCalls' = closeCalls \/ closeCalls' = [closeCalls EXCEPT ![id] = closeCalls[id] + 1]
  BY DEF SendChain, Call
<1>2. rest \in Seq(Spans) /\ (rest # <<>> => Write(id, Head(rest)) \in WriteOps)
  BY <1>0, RestTyped, WriteTyped
<1>3. /\ HeadAfter(SendBufferSize, head[id], op.sent) \in Cursors
      /\ unsent[id] + op.span.len - op.sent \in Nat
  BY <1>0, HeadInside
<1> HIDE DEF rest, id
<1>4. head' \in [Ids -> Cursors] /\ unsent' \in [Ids -> Nat]
  BY <1>0, <1>1, <1>3 DEF Types, SendTypes
<1>5. sendQueue' \in [Ids -> Seq(Spans)] /\ sendInProgress' \in [Ids -> BOOLEAN]
  BY <1>0, <1>1, <1>2 DEF Types, SendTypes
<1>6. writes' \subseteq WriteOps
  BY <1>1, <1>2 DEF Types, SendTypes
<1>7. SendTypes'
  BY <1>1, <1>4, <1>5, <1>6 DEF Types, SendTypes
<1>8. CallTypes'
  <2>1. closeCalls' \in [Ids -> Nat]
    <3>1. closeCalls \in [Ids -> Nat] /\ id \in Ids
      BY <1>0 DEF Types, CallTypes
    <3>2. [closeCalls EXCEPT ![id] = closeCalls[id] + 1] \in [Ids -> Nat]
      BY <3>1, CountedOnce
    <3> QED BY <1>10, <3>1, <3>2
  <2> QED BY <1>1, <2>1 DEF Types, CallTypes
<1>9. LinkTypes'
  BY <1>1 DEF Types, LinkTypes, linkVars
<1> QED BY <1>7, <1>8, <1>9 DEF Types

LEMMA NextTypes ==
    ASSUME Types, Accounted, [Next]_vars
    PROVE  Types'
<1>1. CASE AcceptArrives \/ AcceptAcquire \/ StopAccept \/ PoolStop \/ UNCHANGED vars
  <2>1. /\ UNCHANGED <<pendingDisconnect, errorCount, sendVars, linkVars, opVars, callVars,
                       unsent>>
        /\ phase' \in {phase, "stopping", "stopped"}
    BY <1>1 DEF AcceptArrives, AcceptAcquire, StopAccept, PoolStop, vars, poolVars
  <2> QED BY <2>1 DEF Types, SendTypes, CallTypes, LinkTypes, sendVars, linkVars, opVars, callVars
<1>11. CASE SetSocket
  <2>1. accept.id \in Ids
    BY <1>11, NamedSlots DEF SetSocket
  <2>2. SendTypes' /\ CallTypes'
    BY <1>11 DEF SetSocket, Types, SendTypes, CallTypes, sendVars, opVars, callVars
  <2>3. LinkTypes'
    BY <1>11, <2>1 DEF SetSocket, Types, LinkTypes, opVars
  <2> QED BY <2>2, <2>3 DEF Types
<1>2. CASE AcceptInit
  <2>1. accept.id \in Ids /\ 0 \in Cursors
    BY <1>2, NamedSlots, LengthAssumption DEF AcceptInit, Cursors
  <2>2. SendTypes'
    BY <1>2, <2>1 DEF AcceptInit, Types, SendTypes, opVars
  <2>3. CallTypes'
    BY <1>2, <2>1 DEF AcceptInit, Types, CallTypes, callVars
  <2>4. LinkTypes'
    BY <1>2, <2>1 DEF AcceptInit, Types, LinkTypes, opVars
  <2> QED BY <2>2, <2>3, <2>4 DEF Types
<1>3. CASE AcceptReceive
  <2>1. accept.id \in Ids /\ reads \subseteq Ops
    BY <1>3, NamedSlots DEF AcceptReceive, Types, LinkTypes
  <2>2. reads' \subseteq Ops
    BY <1>3, <2>1, ReadTyped DEF AcceptReceive
  <2>3. SendTypes' /\ CallTypes'
    BY <1>3 DEF AcceptReceive, Types, SendTypes, CallTypes, sendVars, callVars
  <2>4. LinkTypes'
    BY <1>3, <2>2 DEF AcceptReceive, Types, LinkTypes, linkVars
  <2> QED BY <2>3, <2>4 DEF Types
<1>4. ASSUME NEW id \in Ids, NEW len \in PacketLengths, QueueAndSend(id, len)
      PROVE  Types'
  BY <1>4, QueueTypes
<1>5. ASSUME NEW id \in Ids,
             \/ \E len \in PacketLengths : QueueOverflow(id, len)
             \/ RequestClose(id) \/ CloseTest(id) \/ CloseLocked(id)
      PROVE  Types'
  <2>1. /\ UNCHANGED <<phase, errorCount, sendVars, linkVars, opVars, unsent>>
        /\ pendingDisconnect' \in {pendingDisconnect, [pendingDisconnect EXCEPT ![id] = TRUE]}
    BY <1>5 DEF QueueOverflow, RequestClose, CloseTest, CloseLocked, poolVars
  <2>2. closeCalls' \in {closeCalls, [closeCalls EXCEPT ![id] = @ + 1]}
        \/ (closeCalls[id] > 0 /\ closeCalls' = [closeCalls EXCEPT ![id] = @ - 1])
    BY <1>5 DEF QueueOverflow, RequestClose, CloseTest, CloseLocked, callVars, Call
  <2>3. closeLocks' \in {closeLocks, [closeLocks EXCEPT ![id] = @ + 1]}
        \/ (closeLocks[id] > 0 /\ closeLocks' = [closeLocks EXCEPT ![id] = @ - 1])
    BY <1>5 DEF QueueOverflow, RequestClose, CloseTest, CloseLocked, callVars, Call
  <2>4. closePosts' \in {closePosts, [closePosts EXCEPT ![id] = @ + 1]}
    BY <1>5 DEF QueueOverflow, RequestClose, CloseTest, CloseLocked, callVars, Call
  <2>5. pendingDisconnect' \in [Ids -> BOOLEAN] /\ closePosts' \in [Ids -> Nat]
    <3>1. pendingDisconnect' \in [Ids -> BOOLEAN]
      BY <2>1 DEF Types, CallTypes
    <3>2. closePosts' \in [Ids -> Nat]
      BY <2>4 DEF Types, CallTypes
    <3> QED BY <3>1, <3>2
  <2>6. closeCalls' \in [Ids -> Nat]
    BY <2>2 DEF Types, CallTypes
  <2>7. closeLocks' \in [Ids -> Nat]
    BY <2>3 DEF Types, CallTypes
  <2>8. CallTypes'
    BY <2>1, <2>5, <2>6, <2>7 DEF Types, CallTypes
  <2> QED BY <2>1, <2>8 DEF Types, SendTypes, LinkTypes, sendVars, linkVars, opVars
<1>6. ASSUME NEW id \in Ids, OnPostClose(id)
      PROVE  Types'
  <2>1. closePosts' \in [Ids -> Nat]
    BY <1>6 DEF OnPostClose, Types, CallTypes
  <2>2. errorCount' \in [Ids -> Nat] /\ reads' \subseteq Ops
    BY <1>6 DEF OnPostClose, Types, CallTypes, LinkTypes, opVars
  <2> QED BY <1>6, <2>1, <2>2, ProcessCloseTypes DEF OnPostClose, opVars
<1>7. CASE FinishClose
  <2>1. closing \in Ids /\ <<>> \in Seq(Spans)
    BY <1>7, NamedSlots DEF FinishClose
  <2>2. SendTypes'
    BY <1>7, <2>1 DEF FinishClose, Types, SendTypes, opVars
  <2>3. CallTypes'
    BY <1>7 DEF FinishClose, Types, CallTypes, callVars
  <2>4. LinkTypes'
    BY <1>7 DEF FinishClose, Types, LinkTypes, linkVars, opVars
  <2> QED BY <2>2, <2>3, <2>4 DEF Types
<1>8. ASSUME NEW op \in writes, Sending(op)
      PROVE  Types'
  <2>0. op \in WriteOps /\ op.id \in Ids /\ op.span.len \in Nat
    BY WriteFields
  <2>1. CASE SendSucceeds(op)
    <3>1. PICK n \in Nat :
            /\ n <= op.span.len
            /\ writes' = (writes \ {op}) \cup {[op EXCEPT !.stage = "cleared", !.sent = n]}
      <4>1. PICK n \in IF PartialWrites THEN 1 .. op.span.len ELSE {op.span.len} :
              writes' = (writes \ {op}) \cup {[op EXCEPT !.stage = "cleared", !.sent = n]}
        BY <2>1 DEF SendSucceeds
      <4>2. n \in Nat /\ n <= op.span.len
        BY <2>0
      <4> QED BY <4>1, <4>2
    <3>2. [op EXCEPT !.stage = "cleared", !.sent = n] \in WriteOps
      BY <2>0, <3>1 DEF WriteOps
    <3>3. writes' \subseteq WriteOps
      BY <3>1, <3>2 DEF Types, SendTypes
    <3>4. SendTypes'
      BY <2>1, <3>3 DEF SendSucceeds, Types, SendTypes, sendVars
    <3>5. CallTypes'
      <4>1. errorCount' \in [Ids -> Nat]
        BY <2>0, <2>1 DEF SendSucceeds, Types, CallTypes
      <4>2. UNCHANGED <<pendingDisconnect, closePosts, closeCalls, closeLocks>>
        BY <2>1 DEF SendSucceeds, callVars
      <4> QED BY <4>1, <4>2 DEF Types, CallTypes
    <3>6. LinkTypes'
      BY <2>1 DEF SendSucceeds, Types, LinkTypes, linkVars, poolVars
    <3> QED BY <3>4, <3>5, <3>6 DEF Types
  <2>2. CASE SendChain(op)
    BY <2>2, ChainTypes
  <2>3. CASE SendFails(op)
    <3>1. 0 \in Cursors /\ <<>> \in Seq(Spans)
      BY LengthAssumption DEF Cursors
    <3>2. SendTypes'
      BY <2>0, <2>3, <3>1 DEF SendFails, Types, SendTypes
    <3>3. CallTypes'
      BY <2>0, <2>3 DEF SendFails, Types, CallTypes, Call
    <3>4. LinkTypes'
      BY <2>3 DEF SendFails, Types, LinkTypes, linkVars, poolVars
    <3> QED BY <3>2, <3>3, <3>4 DEF Types
  <2> QED BY <1>8, <2>1, <2>2, <2>3 DEF Sending
<1>9. ASSUME NEW op \in reads, Receiving(op)
      PROVE  Types'
  <2>0. op.id \in Ids /\ reads \subseteq Ops
    BY DEF Types, LinkTypes, Ops
  <2>1. CASE ReceiveData(op)
    <3>1. reads' \subseteq Ops
      BY <2>0, <2>1, ReadTyped DEF ReceiveData
    <3> QED BY <2>1, <3>1 DEF ReceiveData, Types, SendTypes, CallTypes, LinkTypes, sendVars,
               linkVars, callVars, poolVars
  <2>2. CASE ReceiveEnd(op)
    <3>1. /\ reads' \subseteq Ops /\ errorCount' \in [Ids -> Nat] /\ closePosts' \in [Ids -> Nat]
          /\ UNCHANGED <<writes, closeCalls, closeLocks>>
      BY <2>0, <2>2 DEF ReceiveEnd, Types, CallTypes, callVars
    <3> QED BY <2>0, <2>2, <3>1, ProcessCloseTypes DEF ReceiveEnd
  <2>3. CASE ReceiveForgiven(op)
    <3>1. reads' \subseteq Ops /\ errorCount' \in [Ids -> Nat]
      BY <2>0, <2>3 DEF ReceiveForgiven, Types, CallTypes
    <3> QED BY <2>3, <3>1 DEF ReceiveForgiven, Types, SendTypes, CallTypes, LinkTypes, sendVars,
               linkVars, callVars, poolVars
  <2>4. CASE ReceiveFails(op)
    <3>1. /\ reads' \subseteq Ops /\ errorCount' \in [Ids -> Nat] /\ closePosts' \in [Ids -> Nat]
          /\ UNCHANGED <<writes, closeCalls, closeLocks>>
      BY <2>0, <2>4 DEF ReceiveFails, Types, CallTypes, callVars
    <3> QED BY <2>0, <2>4, <3>1, ProcessCloseTypes DEF ReceiveFails
  <2> QED BY <1>9, <2>1, <2>2, <2>3, <2>4 DEF Receiving
<1>10. CASE ShutdownRelease
  <2>1. <<>> \in Seq(Spans)
    OBVIOUS
  <2>2. SendTypes'
    BY <1>10, <2>1 DEF ShutdownRelease, Types, SendTypes, opVars
  <2>3. CallTypes'
    BY <1>10 DEF ShutdownRelease, Types, CallTypes, callVars
  <2>4. LinkTypes'
    BY <1>10 DEF ShutdownRelease, Types, LinkTypes, opVars
  <2> QED BY <2>2, <2>3, <2>4 DEF Types
<1> QED
  BY <1>1, <1>2, <1>3, <1>4, <1>5, <1>6, <1>7, <1>8, <1>9, <1>10, <1>11
  DEF Next, Accepting, CloseStep

\* Every variable has its type, whatever completes late.
THEOREM TypeCorrect == Spec => []TypeOK
<1>1. Init => Types
  BY InitTypes
<1>2. Types /\ Accounted /\ [Next]_vars => Types'
  BY NextTypes
<1>3. Types /\ Accounted => TypeOK
  <2> SUFFICES ASSUME Types, Accounted PROVE TypeOK
    OBVIOUS
  <2>1. /\ idQueue \in Seq(Ids) /\ active \subseteq Ids /\ closing \in Ids \cup {NoId}
        /\ accept \in AcceptStates /\ state \in [Ids -> {"CONNECTED", "DISCONNECTED"}]
    BY DEF Accounted, PoolInv, ReleasedInv, QueueSound
  <2>2. \A id \in Ids : \A i \in DOMAIN sendQueue[id] :
          sendQueue[id][i] \in [off : 0 .. SendBufferSize - 1, len : PacketLengths, conn : Nat]
    <3> SUFFICES ASSUME NEW id \in Ids, NEW i \in DOMAIN sendQueue[id]
                 PROVE  sendQueue[id][i] \in Spans
      BY DEF Spans, Cursors
    <3>1. sendQueue[id] \in Seq(Spans)
      BY DEF Types, SendTypes
    <3> QED BY <3>1
  <2>3. \A op \in writes : op.id \in Ids /\ op.stage \in {"posted", "cleared"}
    BY DEF Types, SendTypes, WriteOps
  <2> QED BY <2>1, <2>2, <2>3 DEF TypeOK, Types, SendTypes, CallTypes, LinkTypes, Cursors,
             AcceptStates
<1> QED BY <1>1, <1>2, <1>3, PoolInvariant, PTL DEF Spec

-----------------------------------------------------------------------------
(***************************************************************************)
(* The send chain.                                                         *)
(***************************************************************************)

\* A live connection: its write reads the front of its queue, and the queue is
\* the connection's own and lies in the ring in order.
Live(id) ==
    /\ \A op \in writes : op.id = id =>
         op.conn = conn[id] /\ sendInProgress[id] /\ op.span = Head(sendQueue[id])
    /\ \A a, b \in writes : a.id = id /\ b.id = id => a = b
    /\ \A i \in 1 .. Len(sendQueue[id]) : sendQueue[id][i].conn = conn[id]
    /\ RingSound(sendQueue[id], head[id], tail[id], unsent[id])

\* The inductive invariant of one slot, live or not.
SlotSound(id) ==
    /\ sendInProgress[id] => sendQueue[id] # <<>>
    /\ sendQueue[id] # <<>> => sendInProgress[id] \/ id \in overlapped
    /\ sendQueue[id] # <<>> => \E op \in writes : op.id = id
    /\ Connected(id) /\ CleanStart(id) => Live(id)

ChainInv == \A id \in Ids : SlotSound(id)

\* A step that leaves a slot's queue, ring and writes alone.
LEMMA FrameSlot ==
    ASSUME NEW id \in Ids, SlotSound(id),
           sendInProgress'[id] = sendInProgress[id], sendQueue'[id] = sendQueue[id],
           head'[id] = head[id], tail'[id] = tail[id], unsent'[id] = unsent[id],
           conn'[id] = conn[id], id \in overlapped' <=> id \in overlapped,
           \A op : op.id = id => (op \in writes' <=> op \in writes),
           Connected(id)' => Connected(id)
    PROVE  SlotSound(id)'
<1>1. (/\ sendInProgress[id] => sendQueue[id] # <<>>
       /\ sendQueue[id] # <<>> => sendInProgress[id] \/ id \in overlapped)'
  BY DEF SlotSound
<1>2. (sendQueue[id] # <<>> => \E op \in writes : op.id = id)'
  BY DEF SlotSound
<1>3. ASSUME Connected(id)', CleanStart(id)' PROVE Live(id)'
  <2>1. Live(id)
    BY <1>3 DEF SlotSound, CleanStart
  <2>2. (\A op \in writes : op.id = id =>
           op.conn = conn[id] /\ sendInProgress[id] /\ op.span = Head(sendQueue[id]))'
    BY <2>1 DEF Live
  <2>3. (\A a, b \in writes : a.id = id /\ b.id = id => a = b)'
    BY <2>1 DEF Live
  <2>4. (\A i \in 1 .. Len(sendQueue[id]) : sendQueue[id][i].conn = conn[id])'
    BY <2>1 DEF Live
  <2>5. RingSound(sendQueue'[id], head'[id], tail'[id], unsent'[id])
    BY <2>1 DEF Live
  <2> QED BY <2>2, <2>3, <2>4, <2>5 DEF Live
<1> QED BY <1>1, <1>2, <1>3 DEF SlotSound

LEMMA InitChain == Init => ChainInv
<1> SUFFICES ASSUME Init, NEW id \in Ids PROVE SlotSound(id)
  BY DEF ChainInv
<1>1. ~sendInProgress[id] /\ sendQueue[id] = <<>> /\ ~Connected(id)
  BY DEF Init, Connected
<1> QED BY <1>1 DEF SlotSound

\* The slot that gets a raw socket is not connected.
LEMMA SetSocketChain ==
    ASSUME Types, Accounted, ChainInv, SetSocket
    PROVE  ChainInv'
<1> DEFINE new == accept.id
<1>1. new \in Ids /\ ~Connected(new)
  BY NamedSlots DEF SetSocket, Accounted, PoolInv, ReleasedInv
<1>2. /\ conn' = [conn EXCEPT ![new] = @ + 1]
      /\ UNCHANGED <<state, sendInProgress, sendQueue, head, tail, unsent, overlapped, writes>>
  BY DEF SetSocket, sendVars, opVars
<1> HIDE DEF new
<1> SUFFICES ASSUME NEW id \in Ids PROVE SlotSound(id)'
  BY DEF ChainInv
<1>3. SlotSound(id) /\ (Connected(id)' <=> Connected(id))
  BY <1>2 DEF ChainInv, Connected
<1>4. CASE id = new
  BY <1>1, <1>2, <1>3, <1>4 DEF SlotSound
<1>5. CASE id # new
  <2>1. conn'[id] = conn[id]
    BY <1>2, <1>5 DEF Types, LinkTypes
  <2> QED BY <1>2, <1>3, <2>1, FrameSlot
<1> QED BY <1>4, <1>5

\* A slot set up for a new connection with no write under way has an empty
\* queue, which InitSocket relies on and does not clear; of the other
\* connections nothing is claimed but that their queue has a write.
LEMMA InitChainSlot ==
    ASSUME Types, Accounted, ChainInv, AcceptInit
    PROVE  ChainInv'
<1> DEFINE new == accept.id
<1>1. new \in Ids
  BY NamedSlots DEF AcceptInit
<1>2. /\ overlapped' = (overlapped \ {new}) \cup ({new} \cap Writing)
      /\ UNCHANGED <<sendQueue, writes, conn>>
  BY DEF AcceptInit, opVars
<1> SUFFICES ASSUME NEW id \in Ids PROVE SlotSound(id)'
  BY DEF ChainInv
<1>3. SlotSound(id)
  BY DEF ChainInv
<1>4. CASE id = new
  <2>1. /\ sendInProgress'[id] = FALSE /\ head'[id] = 0 /\ tail'[id] = 0 /\ unsent'[id] = 0
    BY <1>1, <1>4 DEF AcceptInit, Types, SendTypes
  <2>2. id \in overlapped' <=> \E op \in writes : op.id = id
    BY <1>2, <1>4 DEF Writing
  <2>3. ASSUME CleanStart(id)' PROVE Live(id)'
    <3>1. (\A op \in writes' : op.id # id) /\ sendQueue'[id] = <<>>
      BY <1>2, <1>3, <2>2, <2>3 DEF CleanStart, SlotSound
    <3>2. Len(sendQueue'[id]) = 0
      BY <3>1
    <3>3. RingSound(sendQueue'[id], head'[id], tail'[id], unsent'[id])
      BY <2>1, <3>1, RingEmpty
    <3> QED BY <3>1, <3>2, <3>3 DEF Live
  <2> QED BY <1>2, <1>3, <2>1, <2>2, <2>3 DEF SlotSound
<1>5. CASE id # new
  <2>1. /\ sendInProgress'[id] = sendInProgress[id]
        /\ head'[id] = head[id] /\ tail'[id] = tail[id] /\ unsent'[id] = unsent[id]
    BY <1>5 DEF AcceptInit, Types, SendTypes
  <2>2. id \in overlapped' <=> id \in overlapped
    BY <1>2, <1>5
  <2>3. Connected(id)' => Connected(id)
    <3>1. state \in [Ids -> {"CONNECTED", "DISCONNECTED"}]
      BY DEF Accounted, PoolInv, ReleasedInv
    <3> QED BY <1>5, <3>1 DEF AcceptInit, Connected
  <2> QED BY <1>2, <1>3, <2>1, <2>2, <2>3, FrameSlot
<1> QED BY <1>4, <1>5

LEMMA QueueChain ==
    ASSUME Types, ChainInv, NEW own \in Ids, NEW len \in PacketLengths, QueueAndSend(own, len)
    PROVE  ChainInv'
<1> DEFINE span == [off |-> tail[own], len |-> len, conn |-> conn[own]]
           old == sendQueue[own]
           queue == Append(old, span)
<1>1. /\ ~IsOverFlowCondition(SendBufferSize, head[own], tail[own], len)
      /\ tail' = [tail EXCEPT ![own] = TailAfter(SendBufferSize, tail[own], len)]
      /\ sendQueue' = [sendQueue EXCEPT ![own] = queue]
      /\ sendInProgress' = [sendInProgress EXCEPT ![own] = TRUE]
      /\ writes' = IF sendInProgress[own] THEN writes
                   ELSE writes \cup {Write(own, Head(queue))}
      /\ UNCHANGED <<head, state, conn, overlapped, unsent>>
  BY DEF QueueAndSend, linkVars
<1>2. /\ span \in Spans /\ old \in Seq(Spans) /\ queue \in Seq(Spans)
      /\ span.off = tail[own] /\ span.len = len /\ span.conn = conn[own]
  BY NewSpanTyped DEF Types, SendTypes
<1>3. SlotSound(own)
  BY DEF ChainInv
<1> HIDE DEF span
<1>4. /\ Len(old) \in Nat /\ Len(queue) = Len(old) + 1 /\ queue # <<>>
      /\ \A i \in 1 .. Len(old) : queue[i] = old[i]
      /\ queue[Len(old) + 1] = span
      /\ Head(queue) = IF old = <<>> THEN span ELSE Head(old)
      /\ Head(queue) \in Spans
  BY <1>2
<1> HIDE DEF old, queue
<1>5. /\ tail'[own] = TailAfter(SendBufferSize, tail[own], len)
      /\ sendQueue'[own] = queue /\ sendInProgress'[own] = TRUE
  BY <1>1 DEF Types, SendTypes
<1>6. Write(own, Head(queue)).id = own /\ Write(own, Head(queue)).conn = conn[own]
      /\ Write(own, Head(queue)).span = Head(queue)
  BY <1>4, WriteTyped
<1> SUFFICES ASSUME NEW id \in Ids PROVE SlotSound(id)'
  BY DEF ChainInv
<1>7. CASE id = own
  <2>1. \E op \in writes' : op.id = own
    <3>1. CASE sendInProgress[own]
      BY <1>1, <1>3, <3>1 DEF SlotSound
    <3>2. CASE ~sendInProgress[own]
      BY <1>1, <1>6, <3>2
    <3> QED BY <3>1, <3>2
  <2>3. ASSUME Connected(own), CleanStart(own) PROVE Live(own)'
    <3>1. Live(own) /\ (sendInProgress[own] <=> old # <<>>)
      BY <1>3, <2>3 DEF SlotSound, CleanStart, old
    <3>2. (\A op \in writes : op.id = own =>
             op.conn = conn[own] /\ sendInProgress[own] /\ op.span = Head(sendQueue[own]))'
      <4> SUFFICES ASSUME NEW op \in writes', op.id = own
                   PROVE  op.conn = conn[own] /\ op.span = Head(queue)
        BY <1>1, <1>5
      <4>1. CASE op \in writes
        <5>1. op.conn = conn[own] /\ sendInProgress[own] /\ op.span = Head(old)
          BY <3>1, <4>1 DEF Live, old
        <5> QED BY <1>4, <3>1, <5>1
      <4>2. CASE op \notin writes
        BY <1>1, <1>6, <4>2
      <4> QED BY <4>1, <4>2
    <3>3. (\A a, b \in writes : a.id = own /\ b.id = own => a = b)'
      <4> SUFFICES ASSUME NEW a \in writes', NEW b \in writes', a.id = own, b.id = own
                   PROVE  a = b
        OBVIOUS
      <4>1. CASE sendInProgress[own]
        BY <1>1, <3>1, <4>1 DEF Live
      <4>2. CASE ~sendInProgress[own]
        <5>1. \A op \in writes : op.id # own
          BY <3>1, <4>2 DEF Live
        <5> QED BY <1>1, <4>2, <5>1
      <4> QED BY <4>1, <4>2
    <3>4. (\A i \in 1 .. Len(sendQueue[own]) : sendQueue[own][i].conn = conn[own])'
      <4> SUFFICES ASSUME NEW i \in 1 .. Len(queue) PROVE queue[i].conn = conn[own]
        BY <1>1, <1>5
      <4>1. CASE i \in 1 .. Len(old)
        BY <1>4, <3>1, <4>1 DEF Live, old
      <4>2. CASE i = Len(old) + 1
        BY <1>2, <1>4, <4>2
      <4> QED BY <1>4, <4>1, <4>2
    <3>5. RingSound(queue, head[own], TailAfter(SendBufferSize, tail[own], len), unsent[own])
      <4>1. RingSound(old, head[own], tail[own], unsent[own])
        BY <3>1 DEF Live, old
      <4>2. head[own] \in Cursors /\ tail[own] \in Cursors /\ unsent[own] \in Nat
        BY DEF Types, SendTypes
      <4> QED BY <1>1, <1>2, <4>1, <4>2, RingPut DEF queue
    <3>6. RingSound(sendQueue'[own], head'[own], tail'[own], unsent'[own])
      BY <1>1, <1>5, <3>5
    <3> QED BY <3>2, <3>3, <3>4, <3>6 DEF Live
  <2>4. Connected(own)' /\ CleanStart(own)' => Connected(own) /\ CleanStart(own)
    BY <1>1 DEF Connected, CleanStart
  <2> QED BY <1>4, <1>5, <1>7, <2>1, <2>3, <2>4 DEF SlotSound
<1>8. CASE id # own
  <2>1. /\ sendInProgress'[id] = sendInProgress[id] /\ sendQueue'[id] = sendQueue[id]
        /\ tail'[id] = tail[id]
    BY <1>1, <1>8 DEF Types, SendTypes
  <2>2. \A op : op.id = id => (op \in writes' <=> op \in writes)
    BY <1>1, <1>6, <1>8
  <2>3. SlotSound(id) /\ (Connected(id)' => Connected(id))
    BY <1>1 DEF ChainInv, Connected
  <2> QED BY <1>1, <2>1, <2>2, <2>3, FrameSlot
<1> QED BY <1>7, <1>8

\* The chain pops the packet that was written and writes the next one; what a
\* dead slot's late write pops is nobody's.
LEMMA PopChain ==
    ASSUME Types, ChainInv, NEW op \in writes, SendChain(op)
    PROVE  ChainInv'
<1> DEFINE own == op.id
           old == sendQueue[own]
           rest == Rest(old)
<1>1. /\ sendQueue' = [sendQueue EXCEPT ![own] = rest]
      /\ sendInProgress' = [sendInProgress EXCEPT ![own] = rest # <<>>]
      /\ writes' = IF rest = <<>> THEN writes \ {op}
                   ELSE (writes \ {op}) \cup {Write(own, Head(rest))}
      /\ UNCHANGED <<state, tail, conn, overlapped>>
  BY DEF SendChain, Rest, linkVars
<1>2. old # <<>> =>
        /\ head' = [head EXCEPT ![own] = HeadAfter(SendBufferSize, head[own], op.sent)]
        /\ unsent' = [unsent EXCEPT ![own] = unsent[own] + op.span.len - op.sent]
  BY DEF SendChain
<1>3. old = <<>> => UNCHANGED <<head, unsent>>
  BY DEF SendChain
<1>4. /\ own \in Ids /\ old \in Seq(Spans) /\ rest \in Seq(Spans)
      /\ head[own] \in Cursors /\ tail[own] \in Cursors /\ unsent[own] \in Nat
      /\ op.sent \in Nat /\ op.sent <= op.span.len
  BY WriteFields, RestTyped DEF Types, SendTypes
<1>5. /\ rest # <<>> => /\ Write(own, Head(rest)).id = own
                        /\ Write(own, Head(rest)).conn = conn[own]
                        /\ Write(own, Head(rest)).span = Head(rest)
  BY <1>4, RestTyped, WriteTyped
<1>6. SlotSound(own)
  BY <1>4 DEF ChainInv
<1>7. sendQueue'[own] = rest /\ (sendInProgress'[own] <=> rest # <<>>)
  BY <1>1, <1>4 DEF Types, SendTypes
<1>8. old = <<>> => rest = <<>>
  BY DEF Rest
<1> HIDE DEF rest
<1> SUFFICES ASSUME NEW id \in Ids PROVE SlotSound(id)'
  BY DEF ChainInv
<1>9. CASE id = own
  <2>1. (sendQueue[own] # <<>> => \E o \in writes : o.id = own)'
    BY <1>1, <1>5, <1>7
  <2>3. ASSUME Connected(own), CleanStart(own) PROVE Live(own)'
    <3>1. Live(own) /\ (sendInProgress[own] <=> old # <<>>)
      BY <1>6, <2>3 DEF SlotSound, CleanStart
    <3>2. /\ old # <<>> /\ op.span = Head(old) /\ rest = Tail(old)
          /\ \A o \in writes : o.id = own => o = op
      BY <3>1 DEF Live, rest, Rest
    <3>3. (\A o \in writes : o.id = own =>
             o.conn = conn[own] /\ sendInProgress[own] /\ o.span = Head(sendQueue[own]))'
      <4> SUFFICES ASSUME NEW o \in writes', o.id = own
                   PROVE  o.conn = conn[own] /\ rest # <<>> /\ o.span = Head(rest)
        BY <1>1, <1>7
      <4> QED BY <1>1, <1>5, <3>2
    <3>4. (\A a, b \in writes : a.id = own /\ b.id = own => a = b)'
      <4> SUFFICES ASSUME NEW a \in writes', NEW b \in writes', a.id = own, b.id = own
                   PROVE  a = b
        OBVIOUS
      <4> QED BY <1>1, <3>2
    <3>5. (\A i \in 1 .. Len(sendQueue[own]) : sendQueue[own][i].conn = conn[own])'
      <4> SUFFICES ASSUME NEW i \in 1 .. Len(rest) PROVE rest[i].conn = conn[own]
        BY <1>1, <1>7
      <4> HIDE DEF old
      <4>1. i + 1 \in 1 .. Len(old) /\ rest[i] = old[i + 1]
        BY <1>4, <3>2
      <4>2. \A k \in 1 .. Len(old) : old[k].conn = conn[own]
        BY <3>1 DEF Live, old
      <4> QED BY <4>1, <4>2
    <3>6. head'[own] = HeadAfter(SendBufferSize, head[own], op.sent)
      BY <1>2, <1>4, <3>2 DEF Types, SendTypes
    <3>7. unsent'[own] = unsent[own] + op.span.len - op.sent
      BY <1>2, <1>4, <3>2 DEF Types, SendTypes
    <3>8. RingSound(Tail(old), HeadAfter(SendBufferSize, head[own], op.sent), tail[own],
                    unsent[own] + Head(old).len - op.sent)
      <4>1. RingSound(old, head[own], tail[own], unsent[own])
        BY <3>1 DEF Live
      <4>2. op.sent <= Head(old).len
        BY <1>4, <3>2
      <4> HIDE DEF old
      <4> QED BY <1>4, <3>2, <4>1, <4>2, RingPop
    <3>9. RingSound(sendQueue'[own], head'[own], tail'[own], unsent'[own])
      BY <1>1, <1>7, <3>2, <3>6, <3>7, <3>8
    <3> QED BY <3>3, <3>4, <3>5, <3>9 DEF Live
  <2>4. Connected(own)' /\ CleanStart(own)' => Connected(own) /\ CleanStart(own)
    BY <1>1 DEF Connected, CleanStart
  <2>5. (sendInProgress[own] <=> sendQueue[own] # <<>>)'
    BY <1>7
  <2> QED BY <1>9, <2>1, <2>3, <2>4, <2>5 DEF SlotSound
<1>10. CASE id # own
  <2>1. sendInProgress'[id] = sendInProgress[id] /\ sendQueue'[id] = sendQueue[id]
    BY <1>1, <1>10 DEF Types, SendTypes
  <2>2. head'[id] = head[id] /\ unsent'[id] = unsent[id]
    BY <1>2, <1>3, <1>10 DEF Types, SendTypes
  <2>3. \A o : o.id = id => (o \in writes' <=> o \in writes)
    BY <1>1, <1>5, <1>10
  <2>4. SlotSound(id) /\ (Connected(id)' => Connected(id))
    BY <1>1 DEF ChainInv, Connected
  <2> QED BY <1>1, <2>1, <2>2, <2>3, <2>4, FrameSlot
<1> QED BY <1>9, <1>10

\* A write that ends without an error still is the slot's write.
LEMMA SucceedsChain ==
    ASSUME Types, ChainInv, NEW op \in writes, SendSucceeds(op)
    PROVE  ChainInv'
<1>1. PICK new :
        /\ writes' = (writes \ {op}) \cup {new}
        /\ new.id = op.id /\ new.conn = op.conn /\ new.span = op.span
  <2>1. PICK n : writes' = (writes \ {op}) \cup {[op EXCEPT !.stage = "cleared", !.sent = n]}
    BY DEF SendSucceeds
  <2>2. op \in [id : Ids, conn : Nat, onOpen : BOOLEAN, span : Spans,
                stage : {"posted", "cleared"}, sent : Nat]
    BY WriteFields DEF WriteOps
  <2>3. \A k : LET done == [op EXCEPT !.stage = "cleared", !.sent = k]
               IN  done.id = op.id /\ done.conn = op.conn /\ done.span = op.span
    BY <2>2
  <2> QED BY <2>1, <2>3, Zenon
<1>2. UNCHANGED <<state, sendInProgress, sendQueue, head, tail, conn, overlapped, unsent>>
  BY DEF SendSucceeds, sendVars, linkVars
<1> SUFFICES ASSUME NEW id \in Ids PROVE SlotSound(id)'
  BY DEF ChainInv
<1>3. SlotSound(id)
  BY DEF ChainInv
<1>4. CASE id = op.id
  <2>1. (sendQueue[id] # <<>> => \E o \in writes : o.id = id)'
    BY <1>1, <1>4
  <2>2. ASSUME Connected(id), CleanStart(id) PROVE Live(id)'
    <3>1. Live(id)
      BY <1>3, <2>2 DEF SlotSound
    <3>2. (\A o \in writes : o.id = id =>
             o.conn = conn[id] /\ sendInProgress[id] /\ o.span = Head(sendQueue[id]))'
      BY <1>1, <1>2, <1>4, <3>1 DEF Live
    <3>3. (\A a, b \in writes : a.id = id /\ b.id = id => a = b)'
      BY <1>1, <1>4, <3>1 DEF Live
    <3>4. (\A i \in 1 .. Len(sendQueue[id]) : sendQueue[id][i].conn = conn[id])'
      BY <1>2, <3>1 DEF Live
    <3>5. RingSound(sendQueue'[id], head'[id], tail'[id], unsent'[id])
      BY <1>2, <3>1 DEF Live
    <3> QED BY <3>2, <3>3, <3>4, <3>5 DEF Live
  <2>3. Connected(id)' /\ CleanStart(id)' => Connected(id) /\ CleanStart(id)
    BY <1>2 DEF Connected, CleanStart
  <2> QED BY <1>2, <1>3, <2>1, <2>2, <2>3 DEF SlotSound
<1>5. CASE id # op.id
  <2>1. \A o : o.id = id => (o \in writes' <=> o \in writes)
    BY <1>1, <1>5
  <2>2. Connected(id)' => Connected(id)
    BY <1>2 DEF Connected
  <2> QED BY <1>2, <1>3, <2>1, <2>2, FrameSlot
<1> QED BY <1>4, <1>5

\* AbortSend empties the queue and the ring of the slot whose write failed.
LEMMA FailsChain ==
    ASSUME Types, ChainInv, NEW op \in writes, SendFails(op)
    PROVE  ChainInv'
<1> DEFINE own == op.id
<1>0. own \in Ids
  BY WriteFields
<1>1. /\ writes' = writes \ {op}
      /\ sendQueue' = [sendQueue EXCEPT ![own] = <<>>]
      /\ head' = [head EXCEPT ![own] = 0] /\ tail' = [tail EXCEPT ![own] = 0]
      /\ sendInProgress' = [sendInProgress EXCEPT ![own] = FALSE]
      /\ unsent' = [unsent EXCEPT ![own] = 0]
      /\ UNCHANGED <<state, conn, overlapped>>
  BY DEF SendFails, linkVars
<1> SUFFICES ASSUME NEW id \in Ids PROVE SlotSound(id)'
  BY DEF ChainInv
<1>2. SlotSound(id) /\ (Connected(id)' => Connected(id))
  BY <1>1 DEF ChainInv, Connected
<1>3. CASE id = own
  <2>1. /\ sendQueue'[id] = <<>> /\ sendInProgress'[id] = FALSE
        /\ head'[id] = 0 /\ tail'[id] = 0 /\ unsent'[id] = 0
    BY <1>1, <1>3 DEF Types, SendTypes
  <2>2. Connected(id)' /\ CleanStart(id)' => Connected(id) /\ CleanStart(id)
    BY <1>1 DEF Connected, CleanStart
  <2>3. ASSUME Connected(id), CleanStart(id) PROVE Live(id)'
    <3>1. Live(id)
      BY <1>2, <2>3 DEF SlotSound
    <3>2. \A o \in writes' : o.id # id
      BY <1>1, <1>3, <3>1 DEF Live
    <3>3. Len(sendQueue'[id]) = 0
      BY <2>1
    <3>4. RingSound(sendQueue'[id], head'[id], tail'[id], unsent'[id])
      BY <2>1, RingEmpty
    <3> QED BY <3>2, <3>3, <3>4 DEF Live
  <2> QED BY <2>1, <2>2, <2>3 DEF SlotSound
<1>4. CASE id # own
  <2>1. /\ sendInProgress'[id] = sendInProgress[id] /\ sendQueue'[id] = sendQueue[id]
        /\ head'[id] = head[id] /\ tail'[id] = tail[id] /\ unsent'[id] = unsent[id]
    BY <1>1, <1>4 DEF Types, SendTypes
  <2>2. \A o : o.id = id => (o \in writes' <=> o \in writes)
    BY <1>1, <1>4
  <2> QED BY <1>1, <1>2, <2>1, <2>2, FrameSlot
<1> QED BY <1>3, <1>4

\* Slots that a step empties are not connected.
LEMMA ClearedSlot ==
    ASSUME NEW id \in Ids, SlotSound(id), ~Connected(id)',
           sendQueue'[id] = <<>>, sendInProgress'[id] = FALSE
    PROVE  SlotSound(id)'
BY DEF SlotSound

LEMMA FinishChain ==
    ASSUME Types, Accounted, ChainInv, FinishClose
    PROVE  ChainInv'
<1>1. /\ closing \in Ids /\ ~Connected(closing)
      /\ sendInProgress' = [sendInProgress EXCEPT ![closing] = FALSE]
      /\ sendQueue' = [sendQueue EXCEPT ![closing] = <<>>]
      /\ UNCHANGED <<state, head, tail, unsent, conn, overlapped, writes>>
  BY NamedSlots DEF FinishClose, linkVars, opVars
<1> SUFFICES ASSUME NEW id \in Ids PROVE SlotSound(id)'
  BY DEF ChainInv
<1>2. SlotSound(id) /\ (Connected(id)' => Connected(id))
  BY <1>1 DEF ChainInv, Connected
<1>3. CASE id = closing
  <2>1. sendQueue'[id] = <<>> /\ sendInProgress'[id] = FALSE
    BY <1>1, <1>3 DEF Types, SendTypes
  <2>2. ~Connected(id)'
    BY <1>1, <1>3 DEF Connected
  <2> QED BY <1>1, <1>2, <2>1, <2>2, ClearedSlot
<1>4. CASE id # closing
  <2>1. sendInProgress'[id] = sendInProgress[id] /\ sendQueue'[id] = sendQueue[id]
    BY <1>1, <1>4 DEF Types, SendTypes
  <2> QED BY <1>1, <1>2, <2>1, FrameSlot
<1> QED BY <1>3, <1>4

LEMMA ReleaseChain ==
    ASSUME Types, ChainInv, ShutdownRelease
    PROVE  ChainInv'
<1>1. UNCHANGED <<head, tail, unsent, conn, overlapped, writes>>
  BY DEF ShutdownRelease, opVars
<1> SUFFICES ASSUME NEW id \in Ids PROVE SlotSound(id)'
  BY DEF ChainInv
<1>2. SlotSound(id)
  BY DEF ChainInv
<1>3. CASE id \in active
  <2>1. sendQueue'[id] = <<>> /\ sendInProgress'[id] = FALSE
    BY <1>3 DEF ShutdownRelease
  <2>2. ~Connected(id)'
    BY <1>3 DEF ShutdownRelease, Connected
  <2> QED BY <1>1, <1>2, <2>1, <2>2, ClearedSlot
<1>4. CASE id \notin active
  <2>1. sendQueue'[id] = sendQueue[id] /\ sendInProgress'[id] = sendInProgress[id]
    <3>1. sendInProgress[id] \in BOOLEAN
      BY DEF Types, SendTypes
    <3> QED BY <1>4, <3>1 DEF ShutdownRelease
  <2>2. Connected(id)' => Connected(id)
    BY <1>4 DEF ShutdownRelease, Connected
  <2> QED BY <1>1, <1>2, <2>1, <2>2, FrameSlot
<1> QED BY <1>3, <1>4

\* A step that touches no queue, no ring and no write.
LEMMA QuietChain ==
    ASSUME ChainInv, UNCHANGED <<sendVars, unsent, conn, overlapped, writes>>,
           \A id \in Ids : Connected(id)' => Connected(id)
    PROVE  ChainInv'
<1> SUFFICES ASSUME NEW id \in Ids PROVE SlotSound(id)'
  BY DEF ChainInv
<1>1. SlotSound(id)
  BY DEF ChainInv
<1> QED BY <1>1, FrameSlot DEF sendVars

LEMMA ProcessCloseChain ==
    ASSUME Accounted, ChainInv, NEW own \in Ids, ProcessClose(own), writes' = writes
    PROVE  ChainInv'
<1>1. UNCHANGED <<sendVars, unsent, conn, overlapped>>
  BY DEF ProcessClose
<1>2. \A id \in Ids : Connected(id)' => Connected(id)
  <2>1. state \in [Ids -> {"CONNECTED", "DISCONNECTED"}]
    BY DEF Accounted, PoolInv, ReleasedInv
  <2> QED BY <2>1 DEF ProcessClose, Connected
<1> QED BY <1>1, <1>2, QuietChain

LEMMA NextChain ==
    ASSUME Types, Accounted, ChainInv, [Next]_vars
    PROVE  ChainInv'
<1>1. CASE AcceptArrives \/ AcceptAcquire \/ AcceptReceive \/ StopAccept \/ PoolStop
           \/ UNCHANGED vars
  <2>1. UNCHANGED <<sendVars, unsent, conn, overlapped, writes, state>>
    BY <1>1 DEF AcceptArrives, AcceptAcquire, AcceptReceive, StopAccept, PoolStop, vars,
       linkVars, opVars
  <2> QED BY <2>1, QuietChain DEF Connected
<1>2. CASE SetSocket \/ AcceptInit
  BY <1>2, SetSocketChain, InitChainSlot
<1>3. ASSUME NEW id \in Ids, NEW len \in PacketLengths, QueueAndSend(id, len)
      PROVE  ChainInv'
  BY <1>3, QueueChain
<1>4. ASSUME NEW id \in Ids,
             \/ \E len \in PacketLengths : QueueOverflow(id, len)
             \/ RequestClose(id) \/ CloseTest(id) \/ CloseLocked(id)
      PROVE  ChainInv'
  <2>1. UNCHANGED <<sendVars, unsent, conn, overlapped, writes, state>>
    BY <1>4 DEF QueueOverflow, RequestClose, CloseTest, CloseLocked, linkVars, opVars
  <2> QED BY <2>1, QuietChain DEF Connected
<1>5. ASSUME NEW id \in Ids, OnPostClose(id)
      PROVE  ChainInv'
  BY <1>5, ProcessCloseChain DEF OnPostClose, opVars
<1>6. CASE FinishClose
  BY <1>6, FinishChain
<1>7. ASSUME NEW op \in writes, Sending(op)
      PROVE  ChainInv'
  BY <1>7, SucceedsChain, PopChain, FailsChain DEF Sending
<1>8. ASSUME NEW op \in reads, Receiving(op)
      PROVE  ChainInv'
  <2>1. op.id \in Ids
    BY DEF Types, LinkTypes, Ops
  <2>2. CASE ReceiveData(op) \/ ReceiveForgiven(op)
    <3>1. UNCHANGED <<sendVars, unsent, conn, overlapped, writes, state>>
      BY <2>2 DEF ReceiveData, ReceiveForgiven, linkVars
    <3> QED BY <3>1, QuietChain DEF Connected
  <2>3. CASE ReceiveEnd(op) \/ ReceiveFails(op)
    <3>1. ProcessClose(op.id) /\ UNCHANGED writes
      BY <2>3 DEF ReceiveEnd, ReceiveFails
    <3> QED BY <2>1, <3>1, ProcessCloseChain
  <2> QED BY <1>8, <2>2, <2>3 DEF Receiving
<1>9. CASE ShutdownRelease
  BY <1>9, ReleaseChain
<1> QED
  BY <1>1, <1>2, <1>3, <1>4, <1>5, <1>6, <1>7, <1>8, <1>9
  DEF Next, Accepting, CloseStep

LEMMA TypesInvariant == Spec => [](Types /\ Accounted)
<1>1. Init => Types
  BY InitTypes
<1>2. Types /\ Accounted /\ [Next]_vars => Types'
  BY NextTypes
<1> QED BY <1>1, <1>2, PoolInvariant, PTL DEF Spec

LEMMA ChainInvariant == Spec => [](Types /\ Accounted /\ ChainInv)
<1>1. Init => ChainInv
  BY InitChain
<1>2. Types /\ Accounted /\ ChainInv /\ [Next]_vars => ChainInv'
  BY NextChain
<1> QED BY <1>1, <1>2, TypesInvariant, PTL DEF Spec

\* A write of a live connection is a current one, and the only one.
LEMMA WritesOfLive ==
    ASSUME NEW id \in Ids, SlotSound(id), Connected(id), CleanStart(id)
    PROVE  /\ sendInProgress[id] => \E op : CurrentWrites(id) = {op}
           /\ ~sendInProgress[id] => CurrentWrites(id) = {}
<1>1. Live(id)
  BY DEF SlotSound
<1>2. CurrentWrites(id) = {op \in writes : op.id = id}
  BY <1>1 DEF CurrentWrites, Live
<1>3. ASSUME sendInProgress[id] PROVE \E op : CurrentWrites(id) = {op}
  <2>1. PICK op \in writes : op.id = id
    BY <1>3 DEF SlotSound
  <2>2. CurrentWrites(id) = {op}
    BY <1>1, <1>2, <2>1 DEF Live
  <2> QED BY <2>2
<1>4. ASSUME ~sendInProgress[id] PROVE CurrentWrites(id) = {}
  BY <1>1, <1>2, <1>4 DEF Live
<1> QED BY <1>3, <1>4

\* Whatever completes late: on a live connection that began with no write under
\* way, one write is under way exactly when something is queued, it reads the
\* oldest packet, and the queued packets lie end to end in the ring.
THEOREM ChainIntact == Spec => []SendChainIntact
<1>1. Types /\ ChainInv => SendChainIntact
  <2> SUFFICES ASSUME Types, ChainInv, NEW id \in Ids, Connected(id), CleanStart(id)
               PROVE  /\ Cardinality(CurrentWrites(id)) = IF sendInProgress[id] THEN 1 ELSE 0
                      /\ sendInProgress[id] <=> sendQueue[id] # <<>>
                      /\ \A op \in CurrentWrites(id) : op.span = Head(sendQueue[id])
                      /\ QueueMatchesRing(id)
    BY DEF SendChainIntact
  <2>1. SlotSound(id) /\ Live(id)
    BY DEF ChainInv, SlotSound
  <2>2. Cardinality(CurrentWrites(id)) = IF sendInProgress[id] THEN 1 ELSE 0
    <3>1. CASE sendInProgress[id]
      <4>1. PICK op : CurrentWrites(id) = {op}
        BY <2>1, <3>1, WritesOfLive
      <4> QED BY <3>1, <4>1, FS_Singleton
    <3>2. CASE ~sendInProgress[id]
      BY <2>1, <3>2, WritesOfLive, FS_EmptySet
    <3> QED BY <3>1, <3>2
  <2>3. sendInProgress[id] <=> sendQueue[id] # <<>>
    BY <2>1 DEF SlotSound, CleanStart
  <2>4. \A op \in CurrentWrites(id) : op.span = Head(sendQueue[id])
    BY <2>1 DEF CurrentWrites, Live
  <2>5. QueueMatchesRing(id)
    <3>1. RingSound(sendQueue[id], head[id], tail[id], unsent[id])
      BY <2>1 DEF Live
    <3>2. \A i : Start(id, i) = StartOf(sendQueue[id], head[id], tail[id], i)
      BY DEF Start, StartOf
    <3>3. sendQueue[id] \in Seq(Spans)
      BY DEF Types, SendTypes
    <3>4. DOMAIN sendQueue[id] = 1 .. Len(sendQueue[id])
      BY <3>3
    <3> QED BY <3>1, <3>2, <3>4 DEF QueueMatchesRing, RingSound
  <2> QED BY <2>2, <2>3, <2>4, <2>5
<1> QED BY <1>1, ChainInvariant, PTL

\* On such a connection nothing of another is ever sent.
THEOREM BytesOfOwnConnection == Spec => []NoForeignBytes
<1>1. Types /\ ChainInv => NoForeignBytes
  <2> SUFFICES ASSUME Types, ChainInv, NEW id \in Ids, Connected(id), CleanStart(id)
               PROVE  /\ \A i \in DOMAIN sendQueue[id] : sendQueue[id][i].conn = conn[id]
                      /\ \A op \in CurrentWrites(id) : op.span.conn = conn[id]
    BY DEF NoForeignBytes
  <2>1. SlotSound(id) /\ Live(id)
    BY DEF ChainInv, SlotSound
  <2>2. sendQueue[id] \in Seq(Spans)
    BY DEF Types, SendTypes
  <2>3. DOMAIN sendQueue[id] = 1 .. Len(sendQueue[id])
    BY <2>2
  <2>4. \A i \in DOMAIN sendQueue[id] : sendQueue[id][i].conn = conn[id]
    BY <2>1, <2>3 DEF Live
  <2>5. ASSUME NEW op \in CurrentWrites(id) PROVE op.span.conn = conn[id]
    <3>1. op.span = Head(sendQueue[id]) /\ sendQueue[id] # <<>>
      BY <2>1 DEF CurrentWrites, Live, SlotSound
    <3>2. Head(sendQueue[id]) = sendQueue[id][1] /\ 1 \in DOMAIN sendQueue[id]
      BY <2>2, <2>3, <3>1
    <3> QED BY <2>4, <3>1, <3>2
  <2> QED BY <2>4, <2>5
<1> QED BY <1>1, ChainInvariant, PTL

-----------------------------------------------------------------------------
(***************************************************************************)
(* A close waits for the queue, as long as no slot is acquired before the  *)
(* handlers and calls of its former connection have all run.               *)
(***************************************************************************)

\* A posted close found the queue empty, and none is posted to a slot that is
\* being set up: nobody calls Close() on it past its test of the state.
CloseSound ==
    /\ \A id \in Ids : closePosts[id] > 0 => pendingDisconnect[id] /\ sendQueue[id] = <<>>
    /\ accept.stage \in {"acquired", "set"} =>
         closePosts[accept.id] = 0 /\ closeLocks[accept.id] = 0

\* A step that posts no close, clears no pending disconnect, fills no queue and
\* sets up no slot.
LEMMA FrameClose ==
    ASSUME CloseSound, Types, accept' = accept,
           \A id \in Ids : closePosts'[id] > 0 => closePosts[id] > 0,
           \A id \in Ids : closeLocks'[id] > 0 => closeLocks[id] > 0,
           \A id \in Ids : pendingDisconnect[id] => pendingDisconnect'[id],
           \A id \in Ids : sendQueue[id] = <<>> => sendQueue'[id] = <<>>,
           closePosts' \in [Ids -> Nat], closeLocks' \in [Ids -> Nat],
           accept.stage \in {"acquired", "set"} => accept.id \in Ids
    PROVE  CloseSound'
<1>1. ASSUME NEW id \in Ids, closePosts'[id] > 0
      PROVE  pendingDisconnect'[id] /\ sendQueue'[id] = <<>>
  BY <1>1 DEF CloseSound
<1>2. ASSUME accept.stage \in {"acquired", "set"}
      PROVE  closePosts'[accept.id] = 0 /\ closeLocks'[accept.id] = 0
  <2>1. ~(closePosts[accept.id] > 0) /\ ~(closeLocks[accept.id] > 0)
    BY <1>2 DEF CloseSound
  <2> QED BY <1>2, <2>1
<1> QED BY <1>1, <1>2 DEF CloseSound

\* Close(): the test lets nobody pass whose slot is being set up.
LEMMA CloseStepsSound ==
    ASSUME Types, Accounted, CloseSound, NEW own \in Ids,
           CloseTest(own) \/ CloseLocked(own)
    PROVE  CloseSound'
<1>0. /\ closePosts \in [Ids -> Nat] /\ closeLocks \in [Ids -> Nat]
      /\ pendingDisconnect \in [Ids -> BOOLEAN]
  BY DEF Types, CallTypes
<1>1. accept.stage \in {"acquired", "set"} => accept.id \in Ids /\ ~Connected(accept.id)
  BY NamedSlots DEF Accounted, PoolInv, ReleasedInv
<1>2. CASE CloseTest(own)
  <2>1. UNCHANGED <<accept, closePosts, pendingDisconnect, sendQueue>>
    BY <1>2 DEF CloseTest, poolVars, sendVars
  <2>2. ASSUME accept.stage \in {"acquired", "set"} PROVE closeLocks'[accept.id] = 0
    <3>1. closeLocks[accept.id] = 0
      BY <2>2 DEF CloseSound
    <3>2. CASE Connected(own)
      <4>1. closeLocks' = [closeLocks EXCEPT ![own] = @ + 1]
        BY <1>2, <3>2 DEF CloseTest, Call
      <4>2. own # accept.id
        BY <1>1, <2>2, <3>2
      <4> QED BY <1>0, <1>1, <2>2, <3>1, <4>1, <4>2
    <3>3. CASE ~Connected(own)
      BY <1>2, <3>1, <3>3 DEF CloseTest
    <3> QED BY <3>2, <3>3
  <2> QED BY <2>1, <2>2 DEF CloseSound
<1>3. CASE CloseLocked(own)
  <2>1. /\ closeLocks[own] > 0
        /\ closeLocks' = [closeLocks EXCEPT ![own] = @ - 1]
        /\ pendingDisconnect' = [pendingDisconnect EXCEPT ![own] = TRUE]
        /\ UNCHANGED <<accept, sendQueue>>
        /\ \/ closePosts' = closePosts
           \/ /\ sendQueue[own] = <<>>
              /\ closePosts' = [closePosts EXCEPT ![own] = @ + 1]
    BY <1>3 DEF CloseLocked, Call, poolVars, sendVars
  <2>2. ASSUME NEW id \in Ids, closePosts'[id] > 0
        PROVE  pendingDisconnect'[id] /\ sendQueue'[id] = <<>>
    <3>1. CASE id = own
      <4>1. pendingDisconnect'[own] = TRUE
        BY <1>0, <2>1
      <4> QED BY <2>1, <2>2, <3>1, <4>1 DEF CloseSound
    <3>2. CASE id # own
      BY <1>0, <2>1, <2>2, <3>2 DEF CloseSound
    <3> QED BY <3>1, <3>2
  <2>3. ASSUME accept.stage \in {"acquired", "set"}
        PROVE  closePosts'[accept.id] = 0 /\ closeLocks'[accept.id] = 0
    <3>1. closePosts[accept.id] = 0 /\ closeLocks[accept.id] = 0
      BY <2>3 DEF CloseSound
    <3>2. own # accept.id
      BY <2>1, <3>1
    <3> QED BY <1>0, <1>1, <2>1, <2>3, <3>1, <3>2
  <2> QED BY <2>1, <2>2, <2>3 DEF CloseSound
<1> QED BY <1>2, <1>3

LEMMA NextClose ==
    ASSUME ~LateCompletions, Types, Accounted, CloseSound, [Next]_vars
    PROVE  CloseSound'
<1>0. /\ closePosts \in [Ids -> Nat] /\ closeLocks \in [Ids -> Nat]
      /\ closeCalls \in [Ids -> Nat]
      /\ pendingDisconnect \in [Ids -> BOOLEAN] /\ sendQueue \in [Ids -> Seq(Spans)]
      /\ accept.stage \in {"acquired", "set"} => accept.id \in Ids
  BY NamedSlots DEF Types, CallTypes, SendTypes
<1>1. CASE AcceptAcquire
  <2>1. UNCHANGED <<closePosts, closeLocks, pendingDisconnect, sendQueue>>
    BY <1>1 DEF AcceptAcquire, sendVars, callVars
  <2>2. CASE idQueue = <<>>
    BY <1>1, <2>1, <2>2 DEF AcceptAcquire, NoAccept, CloseSound
  <2>3. CASE idQueue # <<>>
    <3> DEFINE new == Head(idQueue)
    <3>1. ~Busy(new) /\ accept' = [stage |-> "acquired", id |-> new] /\ new \in Ids
      <4>1. idQueue \in Seq(Ids)
        BY DEF Accounted, PoolInv, ReleasedInv, QueueSound
      <4> QED BY <1>1, <2>3, <4>1 DEF AcceptAcquire
    <3> HIDE DEF new
    <3>2. closePosts[new] = 0 /\ closeLocks[new] = 0
      BY <1>0, <3>1 DEF Busy
    <3> QED BY <2>1, <3>1, <3>2 DEF CloseSound
  <2> QED BY <2>2, <2>3
<1>2. CASE AcceptArrives \/ AcceptReceive
  <2>1. UNCHANGED <<closePosts, pendingDisconnect, sendQueue>>
    BY <1>2 DEF AcceptArrives, AcceptReceive, sendVars, callVars
  <2>2. accept' \in {[stage |-> "arrived", id |-> NoId], [stage |-> "armed", id |-> NoId]}
    BY <1>2 DEF AcceptArrives, AcceptReceive, NoAccept
  <2>3. accept'.stage \notin {"acquired", "set"}
    BY <2>2
  <2> QED BY <2>1, <2>3 DEF CloseSound
<1>3. CASE SetSocket
  <2>1. /\ accept.stage = "acquired" /\ accept'.id = accept.id
        /\ UNCHANGED <<closePosts, closeLocks, pendingDisconnect, sendQueue>>
    <3>1. accept \in AcceptStates
      BY DEF Accounted, PoolInv, ReleasedInv
    <3> QED BY <1>3, <3>1 DEF SetSocket, AcceptStates, sendVars, callVars
  <2> QED BY <2>1 DEF CloseSound
<1>4. CASE AcceptInit
  <2>1. /\ accept.id \in Ids /\ closePosts[accept.id] = 0 /\ accept'.stage = "initialised"
        /\ pendingDisconnect' = [pendingDisconnect EXCEPT ![accept.id] = FALSE]
        /\ UNCHANGED <<closePosts, sendQueue>>
    <3>1. accept \in AcceptStates
      BY DEF Accounted, PoolInv, ReleasedInv
    <3> QED BY <1>0, <1>4, <3>1 DEF AcceptInit, AcceptStates, callVars, CloseSound
  <2>2. ASSUME NEW id \in Ids, closePosts[id] > 0
        PROVE  pendingDisconnect'[id] /\ sendQueue'[id] = <<>>
    BY <1>0, <2>1, <2>2 DEF CloseSound
  <2> QED BY <2>1, <2>2 DEF CloseSound
<1>5. ASSUME NEW own \in Ids, NEW len \in PacketLengths, QueueAndSend(own, len)
      PROVE  CloseSound'
  <2>1. /\ ~pendingDisconnect[own]
        /\ UNCHANGED <<accept, closePosts, closeLocks, pendingDisconnect>>
        /\ \A id \in Ids : id # own => sendQueue'[id] = sendQueue[id]
    BY <1>0, <1>5 DEF QueueAndSend, poolVars, callVars
  <2> QED BY <2>1 DEF CloseSound
<1>6. ASSUME NEW own \in Ids,
             \/ \E len \in PacketLengths : QueueOverflow(own, len)
             \/ RequestClose(own)
      PROVE  CloseSound'
  BY <1>0, <1>6, FrameClose DEF QueueOverflow, RequestClose, poolVars, sendVars
<1>7. ASSUME NEW own \in Ids, CloseTest(own) \/ CloseLocked(own)
      PROVE  CloseSound'
  BY <1>7, CloseStepsSound
<1>8. ASSUME NEW own \in Ids, OnPostClose(own)
      PROVE  CloseSound'
  <2>1. /\ closePosts[own] > 0
        /\ closePosts' = [closePosts EXCEPT ![own] = @ - 1]
        /\ UNCHANGED <<accept, closeLocks, pendingDisconnect, sendQueue>>
    BY <1>8 DEF OnPostClose, ProcessClose, sendVars
  <2>2. \A id \in Ids : closePosts'[id] > 0 => closePosts[id] > 0
    <3> SUFFICES ASSUME NEW id \in Ids, closePosts'[id] > 0 PROVE closePosts[id] > 0
      OBVIOUS
    <3>1. CASE id = own
      BY <2>1, <3>1
    <3>2. CASE id # own
      BY <1>0, <2>1, <3>2
    <3> QED BY <3>1, <3>2
  <2>3. closePosts' \in [Ids -> Nat]
    BY <1>0, <2>1
  <2> QED BY <1>0, <2>1, <2>2, <2>3, FrameClose
<1>9. CASE FinishClose \/ ShutdownRelease
  <2>1. UNCHANGED <<accept, closePosts, closeLocks, pendingDisconnect>>
    BY <1>9 DEF FinishClose, ShutdownRelease, callVars
  <2>2. \A id \in Ids : sendQueue[id] = <<>> => sendQueue'[id] = <<>>
    <3>1. CASE FinishClose
      BY <1>0, <3>1 DEF FinishClose
    <3>2. CASE ShutdownRelease
      BY <3>2 DEF ShutdownRelease
    <3> QED BY <1>9, <3>1, <3>2
  <2> QED BY <1>0, <2>1, <2>2, FrameClose
<1>10. ASSUME NEW op \in writes, Sending(op)
       PROVE  CloseSound'
  <2>0. op.id \in Ids
    BY WriteFields
  <2>1. UNCHANGED <<accept, closePosts, closeLocks, pendingDisconnect>>
    BY <1>10 DEF Sending, SendSucceeds, SendChain, SendFails, poolVars, callVars
  <2>2. \A id \in Ids : sendQueue[id] = <<>> => sendQueue'[id] = <<>>
    <3>1. CASE SendSucceeds(op)
      BY <3>1 DEF SendSucceeds, sendVars
    <3>2. CASE SendChain(op)
      BY <1>0, <2>0, <3>2 DEF SendChain
    <3>3. CASE SendFails(op)
      BY <1>0, <2>0, <3>3 DEF SendFails
    <3> QED BY <1>10, <3>1, <3>2, <3>3 DEF Sending
  <2> QED BY <1>0, <2>1, <2>2, FrameClose
<1>11. ASSUME NEW op \in reads, Receiving(op)
       PROVE  CloseSound'
  <2>1. UNCHANGED <<accept, closePosts, closeLocks, pendingDisconnect, sendQueue>>
    BY <1>11 DEF Receiving, ReceiveData, ReceiveEnd, ReceiveForgiven, ReceiveFails,
       ProcessClose, poolVars, sendVars, callVars
  <2> QED BY <1>0, <2>1, FrameClose
<1>12. CASE StopAccept \/ PoolStop \/ UNCHANGED vars
  BY <1>0, <1>12, FrameClose DEF StopAccept, PoolStop, vars, poolVars, sendVars, callVars
<1> QED
  BY <1>1, <1>2, <1>3, <1>4, <1>5, <1>6, <1>7, <1>8, <1>9, <1>10, <1>11, <1>12
  DEF Next, Accepting, CloseStep

LEMMA CloseInvariant == ~LateCompletions /\ Spec => []CloseSound
<1> SUFFICES ASSUME ~LateCompletions PROVE Spec => []CloseSound
  OBVIOUS
<1>1. Init => CloseSound
  BY DEF Init, NoAccept, CloseSound
<1>2. Types /\ Accounted /\ CloseSound /\ [Next]_vars => CloseSound'
  BY NextClose
<1> QED BY <1>1, <1>2, TypesInvariant, PTL DEF Spec

\* As long as no slot is acquired before the handlers and calls of its former
\* connection have run, a posted close that ends the connection finds its queue
\* empty: every accepted packet was handed to the socket.
THEOREM FlushedBeforeClose == ~LateCompletions /\ Spec => CloseFlushesQueue
<1>1. CloseSound /\ [Next]_vars =>
        [\A id \in Ids : OnPostClose(id) /\ closing' = id => sendQueue[id] = <<>>]_vars
  <2> SUFFICES ASSUME CloseSound, NEW id \in Ids, OnPostClose(id)
               PROVE  sendQueue[id] = <<>>
    OBVIOUS
  <2> QED BY DEF CloseSound, OnPostClose
<1> QED BY <1>1, CloseInvariant, PTL DEF Spec, CloseFlushesQueue
=============================================================================
