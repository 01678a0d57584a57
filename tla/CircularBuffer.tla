---------------------------- MODULE CircularBuffer ----------------------------
(***************************************************************************)
(* shared/CircularBuffer.cpp, the fixed byte ring under every socket's     *)
(* send path, and shared/ExpandableCircularBuffer.cpp, the growing one     *)
(* under its receive path.  One action per public operation; the two       *)
(* classes differ in what a put does that finds no room.  The caller's     *)
(* obligations (the assertions of GetData and HeadIncrease) are guards.    *)
(***************************************************************************)
EXTENDS RingOps

CONSTANTS Byte,       \* the byte values
          ZeroByte,   \* what new storage holds
          Size,       \* constructor argument
          MaxChunk,   \* longest packet put in one call
          MaxSize     \* bound: storage an expandable buffer may grow to

ASSUME ByteAssumption == ZeroByte \in Byte
ASSUME SizeAssumption == Size \in Nat \ {0}
ASSUME ChunkAssumption == MaxChunk \in Nat /\ MaxSize \in Nat

VARIABLES expandable, \* is it an ExpandableCircularBuffer?
          size,       \* _buffer.size()
          buffer,     \* _buffer
          headPos,    \* _headPos
          tailPos,    \* _tailPos
          passed      \* the bytes the last call was given, or wrote through pData

vars == <<expandable, size, buffer, headPos, tailPos, passed>>

Packet(len) == [0 .. len - 1 -> Byte]

Valid == ValidCount(size, headPos, tailPos)

Init ==
    /\ expandable \in BOOLEAN
    /\ size = Size
    /\ buffer \in Packet(Size)
    /\ headPos = 0
    /\ tailPos = 0
    /\ passed \in Packet(0)

\* There is something to put and it leaves one slot free.
Fits(len) == len > 0 /\ ~IsOverFlowCondition(size, headPos, tailPos, len)

\* CircularBuffer::PutData, and the expandable one's when there is room.
PutData(data, len) ==
    /\ Fits(len)
    /\ buffer' = Written(buffer, size, tailPos, data, len)
    /\ tailPos' = TailAfter(size, tailPos, len)
    /\ passed' = data
    /\ UNCHANGED <<expandable, size, headPos>>

\* Nothing to put, or no room in a fixed buffer: a null span is returned and
\* nothing is written.
PutRefused(len) ==
    /\ ~Fits(len)
    /\ len = 0 \/ ~expandable
    /\ UNCHANGED vars

\* The storage is doubled until the packet fits; the first doubling moves bytes
\* that had wrapped behind the old end, and later ones find none.
ResizedTo(newSize, len) ==
    LET held == Valid IN
    /\ newSize \in 2 * size .. MaxSize
    /\ \E k \in 1 .. newSize : newSize = size * 2^k
    /\ len < newSize - held
    /\ len >= newSize \div 2 - held

\* Faulty variant: the tail cursor stays before the head.
TailMoved_Not == tailPos

\* _tailPos after BufferResize.
TailMoved == IF tailPos < headPos THEN tailPos + size ELSE tailPos

\* _buffer after BufferResize.
Resized(newSize) ==
    [k \in 0 .. newSize - 1 |->
        IF k < size THEN buffer[k]
        ELSE IF tailPos < headPos /\ k < size + tailPos THEN buffer[k - size]
        ELSE ZeroByte]

\* ExpandableCircularBuffer::PutData when there is no room.
PutExpanding(data, len, newSize) ==
    /\ expandable
    /\ IsOverFlowCondition(size, headPos, tailPos, len)
    /\ ResizedTo(newSize, len)
    /\ size' = newSize
    /\ buffer' = Written(Resized(newSize), newSize, TailMoved, data, len)
    /\ tailPos' = TailAfter(newSize, TailMoved, len)
    /\ passed' = data
    /\ UNCHANGED <<expandable, headPos>>

GetData(len) ==
    /\ len <= Valid
    /\ passed' = Peeked(buffer, size, headPos, len)
    /\ UNCHANGED <<expandable, size, buffer, headPos, tailPos>>

HeadIncrease(n) ==
    /\ n <= Valid
    /\ headPos' = HeadAfter(size, headPos, n)
    /\ passed' \in Packet(0)
    /\ UNCHANGED <<expandable, size, buffer, tailPos>>

SetEmpty ==
    /\ headPos' = 0
    /\ tailPos' = 0
    /\ passed' \in Packet(0)
    /\ UNCHANGED <<expandable, size, buffer>>

Next ==
    \/ \E len \in 0 .. MaxChunk :
         \/ \E data \in Packet(len) :
              \/ PutData(data, len)
              \/ \E newSize \in 0 .. MaxSize : PutExpanding(data, len, newSize)
         \/ PutRefused(len)
    \/ \E n \in 1 .. size : GetData(n) \/ HeadIncrease(n)
    \/ SetEmpty

Spec == Init /\ [][Next]_vars

-----------------------------------------------------------------------------
\* Both cursors are positions of the storage, which holds bytes and never
\* shrinks.
TypeOK ==
    /\ expandable \in BOOLEAN
    /\ size \in Nat \ {0} /\ Size <= size
    /\ buffer \in Packet(size)
    /\ headPos \in 0 .. size - 1
    /\ tailPos \in 0 .. size - 1

\* Every put, read and consume has the effect it has on a first-in first-out
\* byte sequence, across the wrap of either cursor and the growth of the
\* storage (CircularBuffer.cpp, ExpandableCircularBuffer.cpp).
Fifo == INSTANCE ByteFifo
            WITH count    <- Valid,
                 contents <- RingContents(buffer, size, headPos, tailPos)

ImplementsFifo == Fifo!FifoSpec
=============================================================================
