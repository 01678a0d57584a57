------------------------ MODULE SendThreadMain_proofs ------------------------
(***************************************************************************)
(* The AI server's send thread, for any number of sockets and of packets:  *)
(* the packets are handed to the sockets in the order in which they were   *)
(* queued, although two queues are swapped and packets may be skipped,     *)
(* and none is lost, duplicated or left behind by a shutdown.              *)
(*                                                                         *)
(* The argument keeps the three sequences apart: each is increasing, what  *)
(* was sent comes before what is processed, and that before what waits.    *)
(***************************************************************************)
EXTENDS SendThreadMain, TLAPS

Increasing(s) == \A i, j \in DOMAIN s : i < j => s[i] < s[j]

Before(s, t) == \A i \in DOMAIN s : \A j \in DOMAIN t : s[i] < t[j]

UpTo(s, n) == \A i \in DOMAIN s : s[i] <= n

\* Appending a number above all others keeps a sequence increasing.
LEMMA AppendAbove ==
    ASSUME NEW s \in Seq(Nat), NEW n \in Nat, Increasing(s), \A i \in DOMAIN s : s[i] < n
    PROVE  Increasing(Append(s, n)) /\ Append(s, n) \in Seq(Nat)
BY DEF Increasing

\* What a sequence holds when a number has been appended.
LEMMA AppendElements ==
    ASSUME NEW s \in Seq(Nat), NEW n \in Nat
    PROVE  \A i \in DOMAIN Append(s, n) :
               (i \in DOMAIN s /\ Append(s, n)[i] = s[i]) \/ Append(s, n)[i] = n
<1>1. /\ DOMAIN Append(s, n) = 1 .. Len(s) + 1 /\ DOMAIN s = 1 .. Len(s)
      /\ Len(s) \in Nat
      /\ \A i \in 1 .. Len(s) : Append(s, n)[i] = s[i]
      /\ Append(s, n)[Len(s) + 1] = n
  OBVIOUS
<1> QED
  BY <1>1

\* What comes before both parts comes before the whole, and the reverse.
LEMMA BeforeAppend ==
    ASSUME NEW s \in Seq(Nat), NEW t \in Seq(Nat), NEW n \in Nat
    PROVE  /\ Before(s, t) /\ (\A i \in DOMAIN s : s[i] < n) => Before(s, Append(t, n))
           /\ Before(s, t) /\ (\A i \in DOMAIN t : n < t[i]) => Before(Append(s, n), t)
BY AppendElements DEF Before

\* A tail keeps the order, and its head comes before it.
LEMMA TailOrder ==
    ASSUME NEW s \in Seq(Nat), s # <<>>, Increasing(s)
    PROVE  /\ Head(s) \in Nat /\ Tail(s) \in Seq(Nat) /\ Increasing(Tail(s))
           /\ \A i \in DOMAIN Tail(s) : Head(s) < Tail(s)[i]
<1>1. /\ Len(s) \in Nat /\ Len(s) > 0 /\ DOMAIN s = 1 .. Len(s)
      /\ Tail(s) \in Seq(Nat) /\ DOMAIN Tail(s) = 1 .. Len(s) - 1
      /\ \A i \in 1 .. Len(s) - 1 : Tail(s)[i] = s[i + 1]
      /\ Head(s) = s[1]
  OBVIOUS
<1>2. \A i \in DOMAIN Tail(s) : i + 1 \in DOMAIN s /\ 1 \in DOMAIN s /\ Tail(s)[i] = s[i + 1]
  BY <1>1
<1>3. Increasing(Tail(s))
  BY <1>1, <1>2 DEF Increasing
<1>4. \A i \in DOMAIN Tail(s) : Head(s) < Tail(s)[i]
  BY <1>1, <1>2 DEF Increasing
<1> QED
  BY <1>1, <1>3, <1>4

\* Everything a tail holds, the sequence holds; and the head is one of it.
LEMMA TailElements ==
    ASSUME NEW s \in Seq(Nat), s # <<>>
    PROVE  /\ \A i \in DOMAIN Tail(s) : \E j \in DOMAIN s : Tail(s)[i] = s[j]
           /\ \E j \in DOMAIN s : Head(s) = s[j]
<1>1. /\ Len(s) \in Nat /\ Len(s) > 0 /\ DOMAIN s = 1 .. Len(s)
      /\ DOMAIN Tail(s) = 1 .. Len(s) - 1
      /\ \A i \in 1 .. Len(s) - 1 : Tail(s)[i] = s[i + 1]
      /\ Head(s) = s[1]
  OBVIOUS
<1>2. \A i \in 1 .. Len(s) - 1 : i + 1 \in 1 .. Len(s)
  BY <1>1
<1> QED
  BY <1>1, <1>2

\* Where the elements of two sequences are when one follows the other.
LEMMA ConcatElements ==
    ASSUME NEW s \in Seq(Nat), NEW t \in Seq(Nat)
    PROVE  /\ s \o t \in Seq(Nat)
           /\ Len(s) \in Nat /\ Len(t) \in Nat
           /\ DOMAIN s = 1 .. Len(s) /\ DOMAIN t = 1 .. Len(t)
           /\ DOMAIN (s \o t) = 1 .. Len(s) + Len(t)
           /\ \A i \in 1 .. Len(s) + Len(t) :
                 /\ i <= Len(s) => (s \o t)[i] = s[i]
                 /\ i > Len(s) => (s \o t)[i] = t[i - Len(s)]
OBVIOUS

\* Two increasing sequences, one before the other, make an increasing one.
LEMMA ConcatOrder ==
    ASSUME NEW s \in Seq(Nat), NEW t \in Seq(Nat), Increasing(s), Increasing(t), Before(s, t)
    PROVE  Increasing(s \o t)
<1>1. ASSUME NEW i \in DOMAIN (s \o t), NEW j \in DOMAIN (s \o t), i < j
      PROVE  (s \o t)[i] < (s \o t)[j]
  <2> USE ConcatElements
  <2>1. CASE j <= Len(s)
    <3>1. i \in DOMAIN s /\ j \in DOMAIN s
      BY <1>1, <2>1
    <3>2. (s \o t)[i] = s[i] /\ (s \o t)[j] = s[j]
      BY <1>1, <2>1
    <3> QED
      BY <1>1, <3>1, <3>2 DEF Increasing
  <2>2. CASE i > Len(s)
    <3>1. i - Len(s) \in DOMAIN t /\ j - Len(s) \in DOMAIN t /\ i - Len(s) < j - Len(s)
      BY <1>1, <2>2
    <3>2. (s \o t)[i] = t[i - Len(s)] /\ (s \o t)[j] = t[j - Len(s)]
      BY <1>1, <2>2
    <3> QED
      BY <3>1, <3>2 DEF Increasing
  <2>3. CASE i <= Len(s) /\ j > Len(s)
    <3>1. i \in DOMAIN s /\ j - Len(s) \in DOMAIN t
      BY <1>1, <2>3
    <3>2. (s \o t)[i] = s[i] /\ (s \o t)[j] = t[j - Len(s)]
      BY <1>1, <2>3
    <3> QED
      BY <3>1, <3>2 DEF Before
  <2> QED
    BY <1>1, <2>1, <2>2, <2>3, ConcatElements
<1> QED
  BY <1>1 DEF Increasing

LEMMA BeforeConcat ==
    ASSUME NEW s \in Seq(Nat), NEW t \in Seq(Nat), NEW u \in Seq(Nat),
           Before(s, u), Before(t, u)
    PROVE  Before(s \o t, u)
<1>1. ASSUME NEW i \in DOMAIN (s \o t), NEW j \in DOMAIN u
      PROVE  (s \o t)[i] < u[j]
  <2> USE ConcatElements
  <2>1. CASE i <= Len(s)
    <3>1. i \in DOMAIN s /\ (s \o t)[i] = s[i]
      BY <1>1, <2>1
    <3> QED
      BY <1>1, <3>1 DEF Before
  <2>2. CASE i > Len(s)
    <3>1. i - Len(s) \in DOMAIN t /\ (s \o t)[i] = t[i - Len(s)]
      BY <1>1, <2>2
    <3> QED
      BY <1>1, <3>1 DEF Before
  <2> QED
    BY <1>1, <2>1, <2>2
<1> QED
  BY <1>1 DEF Before

-----------------------------------------------------------------------------
\* The queues and what was sent keep their order, packets are numbered as they
\* come, and only tick has packets in hand.
Ordered(a, b, c, n) ==
    /\ Increasing(a) /\ Increasing(b) /\ Increasing(c)
    /\ Before(a, b) /\ Before(a, c) /\ Before(b, c)
    /\ UpTo(a, n) /\ UpTo(b, n) /\ UpTo(c, n)

Numbers(a, b, c, n) == a \in Seq(Nat) /\ b \in Seq(Nat) /\ c \in Seq(Nat) /\ n \in Nat

OrderInv ==
    /\ Numbers(sent, processing, insertionQueue, queued)
    /\ Ordered(sent, processing, insertionQueue, queued)
    /\ thread # "ticking" => processing = <<>>
    /\ owner = "idle" => thread = "none"

\* The next packet is queued.
LEMMA QueueOrder ==
    ASSUME NEW a, NEW b, NEW c, NEW n, Numbers(a, b, c, n), Ordered(a, b, c, n)
    PROVE  /\ Numbers(a, b, c, n + 1) /\ Ordered(a, b, c, n + 1)
           /\ Numbers(a, b, Append(c, n + 1), n + 1)
           /\ Ordered(a, b, Append(c, n + 1), n + 1)
<1> USE DEF Numbers, Ordered
<1>1. /\ a \in Seq(Nat) /\ b \in Seq(Nat) /\ c \in Seq(Nat) /\ n + 1 \in Nat
      /\ \A s \in {a, b, c} : \A i \in DOMAIN s : s[i] \in Nat /\ s[i] <= n /\ s[i] < n + 1
  BY DEF UpTo
<1>2. UpTo(a, n + 1) /\ UpTo(b, n + 1) /\ UpTo(c, n + 1)
  BY <1>1 DEF UpTo
<1>3. Increasing(Append(c, n + 1)) /\ Append(c, n + 1) \in Seq(Nat)
  BY <1>1, AppendAbove
<1>4. Before(a, Append(c, n + 1)) /\ Before(b, Append(c, n + 1))
  BY <1>1, BeforeAppend
<1>5. UpTo(Append(c, n + 1), n + 1)
  BY <1>1 DEF UpTo
<1> QED
  BY <1>1, <1>2, <1>3, <1>4, <1>5

\* The first packet in hand is skipped, or sent.
LEMMA TakeOrder ==
    ASSUME NEW a, NEW b, NEW c, NEW n, Numbers(a, b, c, n), Ordered(a, b, c, n), b # <<>>
    PROVE  /\ Numbers(a, Tail(b), c, n) /\ Ordered(a, Tail(b), c, n)
           /\ Numbers(Append(a, Head(b)), Tail(b), c, n)
           /\ Ordered(Append(a, Head(b)), Tail(b), c, n)
<1> USE DEF Numbers, Ordered
<1>1. /\ Head(b) \in Nat /\ Tail(b) \in Seq(Nat) /\ Increasing(Tail(b))
      /\ \A i \in DOMAIN Tail(b) : Head(b) < Tail(b)[i]
  BY TailOrder
<1>2. /\ \A i \in DOMAIN Tail(b) : \E j \in DOMAIN b : Tail(b)[i] = b[j]
      /\ \E j \in DOMAIN b : Head(b) = b[j]
  BY TailElements
<1>3. Before(a, Tail(b)) /\ Before(Tail(b), c) /\ UpTo(Tail(b), n)
  BY <1>2, Zenon DEF Before, UpTo
<1>4. /\ \A i \in DOMAIN a : a[i] < Head(b)
      /\ \A i \in DOMAIN c : Head(b) < c[i]
      /\ Head(b) <= n
  BY <1>2, Zenon DEF Before, UpTo
<1>5. Increasing(Append(a, Head(b))) /\ Append(a, Head(b)) \in Seq(Nat)
  BY <1>1, <1>4, AppendAbove
<1>6. Before(Append(a, Head(b)), Tail(b)) /\ Before(Append(a, Head(b)), c)
  BY <1>1, <1>3, <1>4, BeforeAppend
<1>7. UpTo(Append(a, Head(b)), n)
  BY <1>1, <1>4, AppendElements DEF UpTo
<1> QED
  BY <1>1, <1>3, <1>5, <1>6, <1>7

\* With nothing in hand, what waits is taken in hand, or deleted.
LEMMA EmptyOrder ==
    ASSUME NEW a, NEW b, NEW c, NEW n, Numbers(a, b, c, n), Ordered(a, b, c, n)
    PROVE  /\ Numbers(a, c, <<>>, n) /\ Ordered(a, c, <<>>, n)
           /\ Numbers(a, b, <<>>, n) /\ Ordered(a, b, <<>>, n)
BY DEF Numbers, Ordered, Increasing, Before, UpTo

LEMMA OrderInvInit == Init => OrderInv
BY DEF Init, OrderInv, Numbers, Ordered, Increasing, Before, UpTo

LEMMA OrderInvNext == OrderInv /\ [Next]_vars => OrderInv'
<1> SUFFICES ASSUME OrderInv, [Next]_vars PROVE OrderInv'
  OBVIOUS
<1> USE DEF OrderInv
<1>1. CASE Queue
  BY <1>1, QueueOrder DEF Queue, scanVars
<1>2. CASE Notify \/ Start \/ Shutdown
  BY <1>2 DEF Notify, Start, Shutdown, Notified, packetVars
<1>3. CASE Clear
  BY <1>3, EmptyOrder DEF Clear, scanVars
<1>4. CASE LoopTest \/ TryNextSocket \/ TickReturns \/ SpuriousWakeup
  BY <1>4 DEF LoopTest, TryNextSocket, TickReturns, SpuriousWakeup, Scanning, packetVars
<1>5. CASE WaitOrSwap
  BY <1>5, EmptyOrder DEF WaitOrSwap, scanVars
<1>6. CASE SendPacket
  BY <1>6, TakeOrder DEF SendPacket, Scanning
<1>7. CASE SkipPacket
  BY <1>7, TakeOrder DEF SkipPacket
<1>8. CASE \E id \in Sockets : SocketChanges(id)
  BY <1>8 DEF SocketChanges, packetVars
<1>9. CASE UNCHANGED vars
  BY <1>9 DEF vars, packetVars
<1> QED
  BY <1>1, <1>2, <1>3, <1>4, <1>5, <1>6, <1>7, <1>8, <1>9 DEF Next, ThreadStep

\* For any number of sockets and packets, whichever threads queue, sockets come
\* and go and packets are skipped: the order of queue() is the order in which
\* packets reach the sockets (SendThreadMain::queue, thread_loop, tick).
THEOREM OrderKept == Spec => []SentInOrder
<1>1. OrderInv => SentInOrder
  <2> SUFFICES ASSUME OrderInv PROVE Increasing(sent \o processing \o insertionQueue)
    BY DEF SentInOrder, Increasing
  <2>1. /\ sent \in Seq(Nat) /\ processing \in Seq(Nat) /\ insertionQueue \in Seq(Nat)
        /\ Ordered(sent, processing, insertionQueue, queued)
    BY DEF OrderInv, Numbers
  <2>2. Increasing(sent \o processing) /\ sent \o processing \in Seq(Nat)
    BY <2>1, ConcatOrder, ConcatElements DEF Ordered
  <2>3. Before(sent \o processing, insertionQueue)
    BY <2>1, BeforeConcat DEF Ordered
  <2> QED
    BY <2>1, <2>2, <2>3, ConcatOrder DEF Ordered
<1> QED
  BY OrderInvInit, OrderInvNext, <1>1, PTL DEF Spec

-----------------------------------------------------------------------------
\* At most one notification is owed for each packet.
TypeInv == TypeOK /\ notifies <= queued

\* Every variable keeps to its values, the round-robin counter included
\* (SendThreadMain::tick advances it twice for a socket that does not take it).
THEOREM TypeCorrect == Spec => []TypeOK
<1> USE SocketAssumption, PacketAssumption
<1>1. Init => TypeInv
  <2> SUFFICES ASSUME Init PROVE TypeInv
    OBVIOUS
  <2>1. /\ {insertionQueue, processing, sent, skipped} \subseteq Seq(Packets)
        /\ deleted \subseteq Packets /\ usable \subseteq Sockets
    BY DEF Init
  <2>2. queued \in 0 .. MaxPackets /\ notifies \in 0 .. MaxPackets /\ notifies <= queued
    BY DEF Init
  <2>3. next \in 0 .. SocketCount + 1 /\ checked \in 0 .. SocketCount
    BY DEF Init
  <2> QED
    BY <2>1, <2>2, <2>3, Zenon DEF Init, TypeInv, TypeOK
<1>2. ASSUME TypeInv, [Next]_vars PROVE TypeInv'
  <2> USE DEF TypeInv, TypeOK
  <2>1. CASE Queue
    <3>1. queued + 1 \in Packets
      BY <1>2, <2>1 DEF Queue, Packets
    <3>2. notifies' \in 0 .. MaxPackets /\ notifies' <= queued'
      <4>1. queued \in Nat /\ notifies \in Nat /\ notifies <= queued /\ queued < MaxPackets
        BY <1>2, <2>1 DEF Queue
      <4>2. queued' = queued + 1 /\ (notifies' = notifies \/ notifies' = notifies + 1)
        BY <2>1 DEF Queue
      <4>3. notifies' \in Nat /\ notifies' <= queued + 1 /\ queued + 1 <= MaxPackets
        BY <4>1, <4>2
      <4> QED
        BY <4>1, <4>2, <4>3
    <3>3. insertionQueue' \in Seq(Packets) /\ deleted' \subseteq Packets
      <4>1. insertionQueue \in Seq(Packets) /\ deleted \subseteq Packets
        BY <1>2
      <4>2. \/ insertionQueue' = Append(insertionQueue, queued + 1) /\ deleted' = deleted
            \/ insertionQueue' = insertionQueue /\ deleted' = deleted \cup {queued + 1}
        BY <2>1 DEF Queue
      <4> HIDE DEF TypeInv, TypeOK
      <4> QED
        BY <3>1, <4>1, <4>2
    <3>4. queued' \in 0 .. MaxPackets
      BY <1>2, <2>1 DEF Queue
    <3> QED
      BY <1>2, <2>1, <3>2, <3>3, <3>4 DEF Queue, scanVars
  <2>2. CASE Notify \/ Start \/ Shutdown
    <3>1. notifies' \in 0 .. MaxPackets /\ notifies' <= queued
          /\ UNCHANGED <<packetVars, scanVars, usable>>
      BY <1>2, <2>2 DEF Notify, Start, Shutdown, packetVars
    <3>2. /\ owner' \in {"idle", "started", "joining", "cleared"}
          /\ thread' \in {"none", "loop", "locking", "waiting", "ticking", "exited"}
          /\ canTick' \in BOOLEAN
      BY <1>2, <2>2 DEF Notify, Start, Shutdown, Notified
    <3> QED
      BY <1>2, <3>1, <3>2 DEF packetVars, scanVars
  <2>3. CASE Clear
    <3>1. ToSet(insertionQueue) \subseteq Packets
      BY <1>2 DEF ToSet
    <3> QED
      BY <1>2, <2>3, <3>1 DEF Clear, scanVars
  <2>4. CASE LoopTest \/ TickReturns \/ SpuriousWakeup
    BY <1>2, <2>4 DEF LoopTest, TickReturns, SpuriousWakeup, packetVars, scanVars
  <2>5. CASE WaitOrSwap
    BY <1>2, <2>5 DEF WaitOrSwap, scanVars
  <2>6. next \in Nat => SocketId \in 0 .. SocketCount - 1
    BY DEF SocketId
  <2>7. CASE SendPacket
    <3>1. Head(processing) \in Packets /\ Tail(processing) \in Seq(Packets)
      BY <1>2, <2>7 DEF SendPacket, Scanning
    <3> QED
      BY <1>2, <2>6, <2>7, <3>1 DEF SendPacket, Scanning
  <2>8. CASE TryNextSocket
    BY <1>2, <2>6, <2>8 DEF TryNextSocket, Scanning, packetVars
  <2>9. CASE SkipPacket
    <3>1. Head(processing) \in Packets /\ Tail(processing) \in Seq(Packets)
      BY <1>2, <2>9 DEF SkipPacket
    <3> QED
      BY <1>2, <2>9, <3>1 DEF SkipPacket
  <2>10. CASE \E id \in Sockets : SocketChanges(id)
    BY <1>2, <2>10 DEF SocketChanges, packetVars, scanVars
  <2>11. CASE UNCHANGED vars
    BY <1>2, <2>11 DEF vars, packetVars, scanVars
  <2> QED
    BY <1>2, <2>1, <2>2, <2>3, <2>4, <2>5, <2>7, <2>8, <2>9, <2>10, <2>11 DEF Next,
       ThreadStep
<1> QED
  BY <1>1, <1>2, PTL DEF Spec, TypeInv

-----------------------------------------------------------------------------
\* No number twice.
Distinct(s) == \A i, j \in DOMAIN s : s[i] = s[j] => i = j

\* What a sequence holds after an append.
LEMMA HeldByAppend ==
    ASSUME NEW s \in Seq(Nat), NEW n \in Nat
    PROVE  /\ ToSet(Append(s, n)) = ToSet(s) \cup {n}
           /\ Distinct(s) /\ n \notin ToSet(s) => Distinct(Append(s, n))
<1>1. /\ DOMAIN Append(s, n) = 1 .. Len(s) + 1 /\ DOMAIN s = 1 .. Len(s) /\ Len(s) \in Nat
      /\ \A i \in 1 .. Len(s) : Append(s, n)[i] = s[i]
      /\ Append(s, n)[Len(s) + 1] = n
  OBVIOUS
<1>2. \A i \in DOMAIN Append(s, n) : i \in DOMAIN s \/ i = Len(s) + 1
  BY <1>1
<1>3. DOMAIN s \subseteq DOMAIN Append(s, n) /\ Len(s) + 1 \in DOMAIN Append(s, n)
  BY <1>1
<1>4. ToSet(Append(s, n)) = ToSet(s) \cup {n}
  BY <1>1, <1>2, <1>3 DEF ToSet
<1>5. ASSUME Distinct(s), n \notin ToSet(s) PROVE Distinct(Append(s, n))
  BY <1>1, <1>2, <1>5 DEF Distinct, ToSet
<1> QED BY <1>4, <1>5

\* What a sequence held before a take.
LEMMA HeldByTail ==
    ASSUME NEW s \in Seq(Nat), s # <<>>, Distinct(s)
    PROVE  /\ ToSet(s) = ToSet(Tail(s)) \cup {Head(s)}
           /\ Head(s) \notin ToSet(Tail(s)) /\ Distinct(Tail(s))
           /\ Head(s) \in Nat /\ Tail(s) \in Seq(Nat)
<1>1. /\ Len(s) \in Nat /\ Len(s) > 0 /\ DOMAIN s = 1 .. Len(s)
      /\ DOMAIN Tail(s) = 1 .. Len(s) - 1
      /\ \A i \in 1 .. Len(s) - 1 : Tail(s)[i] = s[i + 1]
      /\ Head(s) = s[1] /\ Head(s) \in Nat /\ Tail(s) \in Seq(Nat)
  OBVIOUS
<1>2. \A i \in DOMAIN Tail(s) : i \in Nat \ {0} /\ i + 1 \in DOMAIN s /\ Tail(s)[i] = s[i + 1]
  BY <1>1
<1>3. \A i \in DOMAIN s : i = 1 \/ (i - 1 \in DOMAIN Tail(s) /\ Tail(s)[i - 1] = s[i])
  BY <1>1
<1>4. 1 \in DOMAIN s
  BY <1>1
<1>5. ToSet(s) = ToSet(Tail(s)) \cup {Head(s)}
  <2>1. \A x : (\E i \in DOMAIN s : s[i] = x)
               <=> (\E i \in DOMAIN Tail(s) : Tail(s)[i] = x) \/ x = Head(s)
    BY <1>1, <1>2, <1>3, <1>4
  <2> QED BY <2>1 DEF ToSet
<1>6. Head(s) \notin ToSet(Tail(s)) /\ Distinct(Tail(s))
  BY <1>1, <1>2, <1>4 DEF ToSet, Distinct
<1> QED BY <1>1, <1>5, <1>6

\* What two sequences hold, one behind the other.
LEMMA HeldByBoth ==
    ASSUME NEW s \in Seq(Nat), NEW t \in Seq(Nat)
    PROVE  /\ s \o t \in Seq(Nat)
           /\ ToSet(s \o t) = ToSet(s) \cup ToSet(t)
           /\ Distinct(s) /\ Distinct(t) /\ ToSet(s) \cap ToSet(t) = {} => Distinct(s \o t)
<1>1. ASSUME NEW i \in DOMAIN (s \o t)
      PROVE  \/ i \in DOMAIN s /\ (s \o t)[i] = s[i]
             \/ i - Len(s) \in DOMAIN t /\ (s \o t)[i] = t[i - Len(s)] /\ i > Len(s)
  <2>0. i \in 1 .. Len(s) + Len(t) /\ Len(s) \in Nat /\ Len(t) \in Nat
    BY ConcatElements
  <2>1. CASE i <= Len(s)
    BY <2>0, <2>1, ConcatElements
  <2>2. CASE i > Len(s)
    <3>1. i - Len(s) \in 1 .. Len(t)
      BY <2>0, <2>2
    <3> QED BY <2>0, <2>2, <3>1, ConcatElements
  <2> QED BY <2>0, <2>1, <2>2
<1>2. \A i \in DOMAIN s : i \in DOMAIN (s \o t) /\ (s \o t)[i] = s[i]
  BY ConcatElements
<1>3. \A i \in DOMAIN t : i + Len(s) \in DOMAIN (s \o t) /\ (s \o t)[i + Len(s)] = t[i]
  BY ConcatElements
<1>4. ToSet(s \o t) = ToSet(s) \cup ToSet(t)
  <2>1. \A x : (\E i \in DOMAIN (s \o t) : (s \o t)[i] = x)
               <=> (\E i \in DOMAIN s : s[i] = x) \/ (\E i \in DOMAIN t : t[i] = x)
    BY <1>1, <1>2, <1>3
  <2> QED BY <2>1 DEF ToSet
<1>5. ASSUME Distinct(s), Distinct(t), ToSet(s) \cap ToSet(t) = {} PROVE Distinct(s \o t)
  <2> SUFFICES ASSUME NEW i \in DOMAIN (s \o t), NEW j \in DOMAIN (s \o t), (s \o t)[i] = (s \o t)[j]
               PROVE  i = j
    BY DEF Distinct
  <2>0. i \in Int /\ j \in Int /\ Len(s) \in Nat
    BY ConcatElements
  <2>1. CASE i \in DOMAIN s /\ j \in DOMAIN s
    BY <1>2, <1>5, <2>1 DEF Distinct
  <2>2. CASE i - Len(s) \in DOMAIN t /\ j - Len(s) \in DOMAIN t /\ i > Len(s) /\ j > Len(s)
    <3>1. i - Len(s) = j - Len(s)
      BY <1>1, <1>5, <2>2, ConcatElements DEF Distinct
    <3> QED BY <2>0, <3>1
  <2>3. ASSUME NEW k \in DOMAIN s, NEW l \in DOMAIN t, s[k] = t[l] PROVE FALSE
    BY <1>5, <2>3 DEF ToSet
  <2> QED BY <1>1, <2>1, <2>2, <2>3
<1> QED BY <1>4, <1>5, ConcatElements

\* A packet is waiting, in hand, sent, skipped or deleted, once.
Apart(w, h, t, k, d) ==
    /\ Distinct(w) /\ Distinct(h) /\ Distinct(t) /\ Distinct(k)
    /\ ToSet(w) \cap ToSet(h) = {} /\ ToSet(w) \cap ToSet(t) = {} /\ ToSet(w) \cap ToSet(k) = {}
    /\ ToSet(h) \cap ToSet(t) = {} /\ ToSet(h) \cap ToSet(k) = {} /\ ToSet(t) \cap ToSet(k) = {}
    /\ (ToSet(w) \cup ToSet(h) \cup ToSet(t) \cup ToSet(k)) \cap d = {}

\* And every packet is somewhere.
Together(w, h, t, k, d, n) ==
    /\ w \in Seq(Nat) /\ h \in Seq(Nat) /\ t \in Seq(Nat) /\ k \in Seq(Nat) /\ n \in Nat
    /\ ToSet(w) \cup ToSet(h) \cup ToSet(t) \cup ToSet(k) \cup d = 1 .. n

\* Only tick has packets in hand, and once the queue is cleared nothing is put
\* in it.
PlaceInv ==
    /\ Apart(insertionQueue, processing, sent, skipped, deleted)
    /\ Together(insertionQueue, processing, sent, skipped, deleted, queued)
    /\ thread # "ticking" => processing = <<>>
    /\ owner = "idle" => thread = "none"
    /\ owner # "started" => ~canTick
    /\ owner = "cleared" => thread = "exited" /\ insertionQueue = <<>>

\* A sequence that holds nothing.
LEMMA EmptyHolds == Distinct(<<>>) /\ ToSet(<<>>) = {}
BY DEF Distinct, ToSet

\* A packet is queued, or deleted at once.
LEMMA QueuePlace ==
    ASSUME NEW w, NEW h, NEW t, NEW k, NEW d, NEW n,
           Apart(w, h, t, k, d), Together(w, h, t, k, d, n)
    PROVE  /\ Apart(Append(w, n + 1), h, t, k, d) /\ Together(Append(w, n + 1), h, t, k, d, n + 1)
           /\ Apart(w, h, t, k, d \cup {n + 1}) /\ Together(w, h, t, k, d \cup {n + 1}, n + 1)
<1>1. w \in Seq(Nat) /\ n + 1 \in Nat /\ 1 .. n + 1 = (1 .. n) \cup {n + 1} /\ n + 1 \notin 1 .. n
  BY DEF Together
<1>2. n + 1 \notin ToSet(w) \cup ToSet(h) \cup ToSet(t) \cup ToSet(k) \cup d
  BY <1>1 DEF Together
<1>3. /\ ToSet(Append(w, n + 1)) = ToSet(w) \cup {n + 1} /\ Distinct(Append(w, n + 1))
      /\ Append(w, n + 1) \in Seq(Nat)
  BY <1>1, <1>2, HeldByAppend DEF Apart
<1>4. Together(Append(w, n + 1), h, t, k, d, n + 1) /\ Together(w, h, t, k, d \cup {n + 1}, n + 1)
  BY <1>1, <1>3 DEF Together
<1>5. Apart(Append(w, n + 1), h, t, k, d) /\ Apart(w, h, t, k, d \cup {n + 1})
  BY <1>2, <1>3 DEF Apart
<1> QED BY <1>4, <1>5

\* The first packet in hand is sent, or skipped.
LEMMA TakePlace ==
    ASSUME NEW w, NEW h, NEW t, NEW k, NEW d, NEW n,
           Apart(w, h, t, k, d), Together(w, h, t, k, d, n), h # <<>>
    PROVE  /\ Apart(w, Tail(h), Append(t, Head(h)), k, d)
           /\ Together(w, Tail(h), Append(t, Head(h)), k, d, n)
           /\ Apart(w, Tail(h), t, Append(k, Head(h)), d)
           /\ Together(w, Tail(h), t, Append(k, Head(h)), d, n)
<1>1. /\ ToSet(h) = ToSet(Tail(h)) \cup {Head(h)} /\ Head(h) \notin ToSet(Tail(h))
      /\ Distinct(Tail(h)) /\ Head(h) \in Nat /\ Tail(h) \in Seq(Nat)
  BY HeldByTail DEF Apart, Together
<1>2. Head(h) \notin ToSet(w) \cup ToSet(t) \cup ToSet(k) \cup d
  BY <1>1 DEF Apart
<1>3. \A s \in {t, k} : /\ ToSet(Append(s, Head(h))) = ToSet(s) \cup {Head(h)}
                        /\ Distinct(Append(s, Head(h))) /\ Append(s, Head(h)) \in Seq(Nat)
  BY <1>1, <1>2, HeldByAppend DEF Apart, Together
<1>4. /\ Together(w, Tail(h), Append(t, Head(h)), k, d, n)
      /\ Together(w, Tail(h), t, Append(k, Head(h)), d, n)
  BY <1>1, <1>3 DEF Together
<1>5. /\ Apart(w, Tail(h), Append(t, Head(h)), k, d)
      /\ Apart(w, Tail(h), t, Append(k, Head(h)), d)
  BY <1>1, <1>2, <1>3 DEF Apart
<1> QED BY <1>4, <1>5

\* With nothing in hand, what waits is taken in hand, or deleted.
LEMMA EmptyPlace ==
    ASSUME NEW w, NEW t, NEW k, NEW d, NEW n,
           Apart(w, <<>>, t, k, d), Together(w, <<>>, t, k, d, n)
    PROVE  /\ Apart(<<>>, w, t, k, d) /\ Together(<<>>, w, t, k, d, n)
           /\ Apart(<<>>, <<>>, t, k, d \cup ToSet(w)) /\ Together(<<>>, <<>>, t, k, d \cup ToSet(w), n)
BY EmptyHolds DEF Apart, Together

\* Every step keeps the packets in their places.
LEMMA PlaceInvNext == PlaceInv /\ [Next]_vars => PlaceInv'
<1> SUFFICES ASSUME PlaceInv, [Next]_vars PROVE PlaceInv'
  OBVIOUS
<1> USE DEF PlaceInv
<1>1. CASE Queue
  <2>1. /\ Apart(insertionQueue, processing, sent, skipped, deleted)'
        /\ Together(insertionQueue, processing, sent, skipped, deleted, queued)'
    <3> DEFINE P(w, d, n) == Apart(w, processing, sent, skipped, d) /\ Together(w, processing, sent, skipped, d, n)
    <3>1. P(insertionQueue, deleted, queued)
      OBVIOUS
    <3>2. P(Append(insertionQueue, queued + 1), deleted, queued + 1) /\ P(insertionQueue, deleted \cup {queued + 1}, queued + 1)
      BY <3>1, QueuePlace
    <3> HIDE DEF P
    <3>3. P(insertionQueue', deleted', queued')
      BY <1>1, <3>2 DEF Queue
    <3> QED BY <1>1, <3>3 DEF P, Queue
  <2>2. UNCHANGED <<owner, thread, canTick, processing>>
    BY <1>1 DEF Queue
  <2>3. owner = "cleared" => insertionQueue' = insertionQueue
    BY <1>1 DEF Queue
  <2> QED BY <2>1, <2>2, <2>3
<1>2. CASE Notify \/ Start \/ Shutdown
  BY <1>2 DEF Notify, Start, Shutdown, Notified, packetVars
<1>3. CASE Clear
  BY <1>3, EmptyPlace DEF Clear, scanVars
<1>4. CASE LoopTest \/ TryNextSocket \/ TickReturns \/ SpuriousWakeup
  BY <1>4 DEF LoopTest, TryNextSocket, TickReturns, SpuriousWakeup, Scanning, packetVars
<1>5. CASE WaitOrSwap
  BY <1>5, EmptyPlace DEF WaitOrSwap, scanVars
<1>6. CASE SendPacket
  BY <1>6, TakePlace DEF SendPacket, Scanning
<1>7. CASE SkipPacket
  BY <1>7, TakePlace DEF SkipPacket
<1>8. CASE \E id \in Sockets : SocketChanges(id)
  BY <1>8 DEF SocketChanges, packetVars
<1>9. CASE UNCHANGED vars
  BY <1>9 DEF vars, packetVars
<1> QED
  BY <1>1, <1>2, <1>3, <1>4, <1>5, <1>6, <1>7, <1>8, <1>9 DEF Next, ThreadStep

\* Theorem: for any number of sockets and packets, swaps, skips and a shutdown
\* in the middle of a tick lose no packet and duplicate none, and nothing stays
\* behind in the queues (SendThreadMain::queue, thread_loop, tick, clear).
THEOREM NothingLost == Spec => []PacketsAccountedFor
<1>1. Init => PlaceInv
  BY EmptyHolds DEF Init, PlaceInv, Apart, Together
<1>2. PlaceInv => PacketsAccountedFor
  <2> SUFFICES ASSUME PlaceInv PROVE PacketsAccountedFor
    OBVIOUS
  <2> DEFINE first == insertionQueue \o processing
             second == first \o sent
             held == second \o skipped
  <2>1. /\ Apart(insertionQueue, processing, sent, skipped, deleted)
        /\ Together(insertionQueue, processing, sent, skipped, deleted, queued)
    BY DEF PlaceInv
  <2>2. first \in Seq(Nat) /\ Distinct(first) /\ ToSet(first) = ToSet(insertionQueue) \cup ToSet(processing)
    BY <2>1, HeldByBoth DEF Apart, Together
  <2>3. second \in Seq(Nat) /\ Distinct(second) /\ ToSet(second) = ToSet(first) \cup ToSet(sent)
    <3> HIDE DEF first
    <3> QED BY <2>1, <2>2, HeldByBoth DEF Apart, Together
  <2>4. Distinct(held) /\ ToSet(held) = ToSet(second) \cup ToSet(skipped)
    <3> HIDE DEF second
    <3> QED BY <2>1, <2>2, <2>3, HeldByBoth DEF Apart, Together
  <2>5. ToSet(held) \cup deleted = 1 .. queued /\ ToSet(held) \cap deleted = {}
    BY <2>1, <2>2, <2>3, <2>4 DEF Apart, Together
  <2>6. owner = "cleared" => first = <<>>
    BY DEF PlaceInv
  <2> QED BY <2>4, <2>5, <2>6 DEF PacketsAccountedFor, Distinct
<1> QED BY <1>1, <1>2, PlaceInvNext, PTL DEF Spec
=============================================================================
