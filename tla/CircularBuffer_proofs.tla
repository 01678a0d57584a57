------------------------- MODULE CircularBuffer_proofs -------------------------
(***************************************************************************)
(* For every size, every byte alphabet and every packet length, and for    *)
(* the fixed and the expandable ring alike: the cursors stay inside the    *)
(* storage, and the ring implements the first-in first-out byte sequence   *)
(* of ByteFifo.                                                            *)
(***************************************************************************)
EXTENDS CircularBuffer, TLAPS

Contents == RingContents(buffer, size, headPos, tailPos)

\* The remainder HeadIncrease takes is at most one subtraction of the size.
LEMMA WrapOnce ==
    ASSUME NEW n \in Nat, NEW k \in Nat, n > 0, k < 2 * n
    PROVE  k % n = IF k >= n THEN k - n ELSE k
<1>1. CASE k < n
  BY <1>1, SMT
<1>2. CASE k >= n
  BY <1>2, SMT
<1> QED BY <1>1, <1>2

\* GetValidCount stays below the size, so one slot is always free.
LEMMA ValidBound ==
    ASSUME TypeOK
    PROVE  Valid \in 0 .. size - 1
BY DEF TypeOK, Valid, ValidCount

\* A byte that is held lies inside the storage.
LEMMA PositionInside ==
    ASSUME TypeOK, NEW i \in 0 .. Valid - 1
    PROVE  Position(size, headPos, i) \in 0 .. size - 1
BY ValidBound DEF TypeOK, Position

-----------------------------------------------------------------------------
(***************************************************************************)
(* A put into a ring with room, whatever its storage and cursors.          *)
(***************************************************************************)

\* The cursor arithmetic: the tail stays in the storage and the valid count
\* grows by the packet's length.
LEMMA PutCursors ==
    ASSUME NEW n \in Nat \ {0}, NEW head \in 0 .. n - 1, NEW tail \in 0 .. n - 1,
           NEW len \in Nat \ {0}, ~IsOverFlowCondition(n, head, tail, len)
    PROVE  /\ ValidCount(n, head, tail) \in 0 .. n - 1
           /\ ValidCount(n, head, tail) + len < n
           /\ TailAfter(n, tail, len) \in 0 .. n - 1
           /\ ValidCount(n, head, TailAfter(n, tail, len)) = ValidCount(n, head, tail) + len
BY DEF IsOverFlowCondition, TailAfter, FirstCopyLen, IsIndexOverFlow, ValidCount

\* The two copies stay inside the packet and the storage.
LEMMA PutStorage ==
    ASSUME NEW n \in Nat \ {0}, NEW head \in 0 .. n - 1, NEW tail \in 0 .. n - 1,
           NEW len \in Nat \ {0}, ~IsOverFlowCondition(n, head, tail, len),
           NEW buf \in Packet(n), NEW data \in Packet(len)
    PROVE  Written(buf, n, tail, data, len) \in Packet(n)
<1> DEFINE first == FirstCopyLen(n, tail, len)
<1>1. first \in 0 .. len
  BY DEF FirstCopyLen, IsIndexOverFlow, IsOverFlowCondition, ValidCount
<1>2. ASSUME NEW k \in 0 .. n - 1
      PROVE  /\ tail <= k /\ k < tail + first => k - tail \in 0 .. len - 1
             /\ k < len - first => first + k \in 0 .. len - 1
  BY <1>1
<1>3. Written(buf, n, tail, data, len) =
        [k \in 0 .. n - 1 |->
           IF tail <= k /\ k < tail + first THEN data[k - tail]
           ELSE IF k < len - first          THEN data[first + k]
           ELSE buf[k]]
  BY DEF Written
<1> HIDE DEF first
<1> QED BY <1>2, <1>3 DEF Packet

\* The ring then holds what it held, followed by the packet.
LEMMA PutContents ==
    ASSUME NEW n \in Nat \ {0}, NEW head \in 0 .. n - 1, NEW tail \in 0 .. n - 1,
           NEW len \in Nat \ {0}, ~IsOverFlowCondition(n, head, tail, len),
           NEW buf \in Packet(n), NEW data \in Packet(len)
    PROVE  RingContents(Written(buf, n, tail, data, len), n, head,
                        TailAfter(n, tail, len)) =
             [i \in 0 .. ValidCount(n, head, tail) + len - 1 |->
                IF i < ValidCount(n, head, tail) THEN RingContents(buf, n, head, tail)[i]
                ELSE data[i - ValidCount(n, head, tail)]]
<1> DEFINE first == FirstCopyLen(n, tail, len)
           held  == ValidCount(n, head, tail)
           new   == Written(buf, n, tail, data, len)
           old   == RingContents(buf, n, head, tail)
<1>1. held \in Nat /\ held + len < n
  BY PutCursors
<1>2. new = [k \in 0 .. n - 1 |->
               IF tail <= k /\ k < tail + first THEN data[k - tail]
               ELSE IF k < len - first          THEN data[first + k]
               ELSE buf[k]]
  BY DEF Written
<1>3. first = IF len + tail >= n THEN n - tail ELSE len
  BY DEF FirstCopyLen, IsIndexOverFlow
<1>4. held = IF tail >= head THEN tail - head ELSE n + (tail - head)
  BY DEF ValidCount
<1>5. old = [i \in 0 .. held - 1 |-> buf[Position(n, head, i)]]
  BY DEF RingContents
<1>6. RingContents(new, n, head, TailAfter(n, tail, len)) =
        [i \in 0 .. held + len - 1 |-> new[Position(n, head, i)]]
  BY PutCursors DEF RingContents
<1> HIDE DEF first, held, new, old
<1>7. ASSUME NEW i \in 0 .. held + len - 1
      PROVE  new[Position(n, head, i)] = IF i < held THEN old[i] ELSE data[i - held]
  <2> DEFINE p == Position(n, head, i)
  <2>1. p = IF head + i >= n THEN head + i - n ELSE head + i
    BY DEF Position
  <2> HIDE DEF p
  <2>2. p \in 0 .. n - 1
    BY <2>1, <1>1
  <2>3. CASE i < held
    <3>1. ~(tail <= p /\ p < tail + first) /\ ~(p < len - first)
      BY <2>1, <2>3, <1>1, <1>3, <1>4
    <3>2. old[i] = buf[p]
      BY <2>3, <1>1, <1>5 DEF p
    <3>3. new[p] = old[i]
      BY <3>1, <3>2, <2>2, <1>2
    <3> QED BY <3>3, <2>3 DEF p
  <2>4. CASE ~(i < held)
    <3>1. CASE tail <= p /\ p < tail + first
      <4>1. p - tail = i - held
        BY <3>1, <2>1, <2>4, <1>1, <1>3, <1>4
      <4>2. new[p] = data[i - held]
        BY <4>1, <3>1, <2>2, <1>2
      <4> QED BY <4>2, <2>4 DEF p
    <3>2. CASE ~(tail <= p /\ p < tail + first)
      <4>1. p < len - first /\ first + p = i - held
        BY <3>2, <2>1, <2>4, <1>1, <1>3, <1>4
      <4>2. new[p] = data[i - held]
        BY <4>1, <3>2, <2>2, <1>2
      <4> QED BY <4>2, <2>4 DEF p
    <3> QED BY <3>1, <3>2
  <2> QED BY <2>3, <2>4
<1>8. RingContents(new, n, head, TailAfter(n, tail, len)) =
        [i \in 0 .. held + len - 1 |-> IF i < held THEN old[i] ELSE data[i - held]]
  BY <1>6, <1>7
<1> QED BY <1>8 DEF held, new, old

-----------------------------------------------------------------------------
(***************************************************************************)
(* BufferResize: the bytes held, and their order, survive the growth.      *)
(***************************************************************************)
LEMMA Growth ==
    ASSUME TypeOK, NEW len \in Nat, NEW newSize, ResizedTo(newSize, len)
    PROVE  /\ newSize \in Nat /\ newSize >= 2 * size /\ len < newSize - Valid
           /\ headPos \in 0 .. newSize - 1
           /\ TailMoved \in 0 .. newSize - 1
           /\ ValidCount(newSize, headPos, TailMoved) = Valid
           /\ ~IsOverFlowCondition(newSize, headPos, TailMoved, len)
           /\ Resized(newSize) \in Packet(newSize)
<1>1. newSize \in Nat /\ newSize >= 2 * size /\ len < newSize - Valid
  BY ChunkAssumption DEF TypeOK, ResizedTo
<1>2. headPos \in 0 .. newSize - 1 /\ TailMoved \in 0 .. newSize - 1
  BY <1>1 DEF TypeOK, TailMoved
<1>3. ValidCount(newSize, headPos, TailMoved) = Valid
  BY <1>1 DEF TypeOK, TailMoved, Valid, ValidCount
<1>4. ~IsOverFlowCondition(newSize, headPos, TailMoved, len)
  BY <1>1, <1>3, ValidBound DEF TypeOK, IsOverFlowCondition
<1>5. Resized(newSize) \in Packet(newSize)
  BY <1>1, ByteAssumption DEF TypeOK, Packet, Resized
<1> QED BY <1>1, <1>2, <1>3, <1>4, <1>5

LEMMA GrowthKeepsContents ==
    ASSUME TypeOK, NEW len \in Nat, NEW newSize, ResizedTo(newSize, len)
    PROVE  RingContents(Resized(newSize), newSize, headPos, TailMoved) = Contents
<1>1. /\ newSize \in Nat /\ newSize >= 2 * size /\ Valid \in 0 .. size - 1
      /\ ValidCount(newSize, headPos, TailMoved) = Valid
  BY Growth, ValidBound
<1>2. ASSUME NEW i \in 0 .. Valid - 1
      PROVE  Resized(newSize)[Position(newSize, headPos, i)] =
               buffer[Position(size, headPos, i)]
  <2>1. CASE headPos + i < size
    BY <2>1, <1>1 DEF TypeOK, Position, Resized
  <2>2. CASE headPos + i >= size
    <3>1. tailPos < headPos /\ headPos + i < size + tailPos
      BY <2>2, <1>1 DEF TypeOK, Valid, ValidCount
    <3>2. Position(newSize, headPos, i) = headPos + i
      BY <3>1, <1>1 DEF TypeOK, Position
    <3> QED BY <2>2, <3>1, <3>2, <1>1 DEF TypeOK, Position, Resized
  <2> QED BY <2>1, <2>2, <1>1 DEF TypeOK
<1>3. RingContents(Resized(newSize), newSize, headPos, TailMoved) =
        [i \in 0 .. Valid - 1 |-> Resized(newSize)[Position(newSize, headPos, i)]]
  BY <1>1 DEF RingContents
<1>4. Contents = [i \in 0 .. Valid - 1 |-> buffer[Position(size, headPos, i)]]
  BY DEF Contents, RingContents, Valid
<1> QED BY <1>2, <1>3, <1>4

-----------------------------------------------------------------------------
(***************************************************************************)
(* What each operation does to the cursors, the storage and the contents.  *)
(***************************************************************************)

\* What a put leaves behind, into the storage there was or a larger one.
PutEffect(data, len) ==
    /\ TypeOK'
    /\ Valid' = Valid + len
    /\ Contents' = [i \in 0 .. Valid + len - 1 |->
                      IF i < Valid THEN Contents[i] ELSE data[i - Valid]]

LEMMA PutDataEffect ==
    ASSUME TypeOK, NEW len \in 0 .. MaxChunk, NEW data \in Packet(len),
           PutData(data, len)
    PROVE  len \in 1 .. MaxChunk /\ PutEffect(data, len)
<1>1. /\ len \in 1 .. MaxChunk /\ len \in Nat \ {0}
      /\ ~IsOverFlowCondition(size, headPos, tailPos, len)
  BY ChunkAssumption DEF PutData, Fits
<1>2. /\ expandable' = expandable /\ size' = size /\ headPos' = headPos
      /\ buffer' = Written(buffer, size, tailPos, data, len)
      /\ tailPos' = TailAfter(size, tailPos, len)
  BY DEF PutData
<1>3. /\ size \in Nat \ {0} /\ headPos \in 0 .. size - 1 /\ tailPos \in 0 .. size - 1
      /\ buffer \in Packet(size)
  BY DEF TypeOK
<1>4. TypeOK'
  BY <1>1, <1>2, <1>3, PutCursors, PutStorage DEF TypeOK
<1>5. Valid' = Valid + len
  BY <1>1, <1>2, <1>3, PutCursors DEF Valid
<1>6. Contents' = [i \in 0 .. Valid + len - 1 |->
                     IF i < Valid THEN Contents[i] ELSE data[i - Valid]]
  BY <1>1, <1>2, <1>3, PutContents DEF Valid, Contents
<1> QED BY <1>1, <1>4, <1>5, <1>6 DEF PutEffect

LEMMA PutExpandingEffect ==
    ASSUME TypeOK, NEW len \in 0 .. MaxChunk, NEW data \in Packet(len), NEW newSize,
           PutExpanding(data, len, newSize)
    PROVE  len \in 1 .. MaxChunk /\ PutEffect(data, len)
<1> DEFINE grown == Resized(newSize)
           tail  == TailMoved
<1>1. len \in 1 .. MaxChunk /\ len \in Nat \ {0}
  BY ValidBound, ChunkAssumption DEF PutExpanding, IsOverFlowCondition, TypeOK, Valid
<1>2. /\ expandable' = expandable /\ size' = newSize /\ headPos' = headPos
      /\ buffer' = Written(grown, newSize, tail, data, len)
      /\ tailPos' = TailAfter(newSize, tail, len)
  BY DEF PutExpanding
<1>3. /\ newSize \in Nat \ {0} /\ newSize >= size
      /\ headPos \in 0 .. newSize - 1 /\ tail \in 0 .. newSize - 1
      /\ grown \in Packet(newSize)
      /\ ~IsOverFlowCondition(newSize, headPos, tail, len)
      /\ ValidCount(newSize, headPos, tail) = Valid
  <2>1. ResizedTo(newSize, len)
    BY DEF PutExpanding
  <2>2. size \in Nat \ {0}
    BY DEF TypeOK
  <2> QED BY <1>1, <2>1, <2>2, Growth
<1>4. RingContents(grown, newSize, headPos, tail) = Contents
  BY <1>1, GrowthKeepsContents DEF PutExpanding
<1> HIDE DEF grown, tail
<1>5. TypeOK'
  BY <1>1, <1>2, <1>3, PutCursors, PutStorage, SizeAssumption DEF TypeOK
<1>6. Valid' = Valid + len
  <2>1. ValidCount(newSize, headPos, TailAfter(newSize, tail, len)) = Valid + len
    BY <1>1, <1>3, PutCursors
  <2> QED BY <1>2, <2>1 DEF Valid
<1>7. Contents' = [i \in 0 .. Valid + len - 1 |->
                     IF i < Valid THEN Contents[i] ELSE data[i - Valid]]
  <2>1. Contents' = RingContents(Written(grown, newSize, tail, data, len), newSize,
                                 headPos, TailAfter(newSize, tail, len))
    BY <1>2 DEF Contents
  <2> QED BY <1>1, <1>3, <1>4, <2>1, PutContents
<1> QED BY <1>1, <1>5, <1>6, <1>7 DEF PutEffect

\* GetData stays inside the storage and returns the oldest bytes in order.
LEMMA GetContents ==
    ASSUME TypeOK, NEW n \in 1 .. size, GetData(n)
    PROVE  n \in 1 .. Valid /\ passed' = [i \in 0 .. n - 1 |-> Contents[i]]
<1>1. n \in 1 .. Valid /\ Valid \in 0 .. size - 1
  BY ValidBound DEF GetData, TypeOK
<1>2. ASSUME NEW i \in 0 .. n - 1
      PROVE  /\ i \in 0 .. Valid - 1
             /\ Position(size, headPos, i) =
                  IF i < size - headPos THEN headPos + i ELSE i - (size - headPos)
  BY <1>1 DEF TypeOK, Position
<1>3. passed' = [i \in 0 .. n - 1 |-> buffer[Position(size, headPos, i)]]
  BY <1>2 DEF GetData, Peeked
<1> QED BY <1>1, <1>2, <1>3 DEF Contents, RingContents, Valid

\* HeadIncrease drops exactly the oldest bytes.
LEMMA IncreaseContents ==
    ASSUME TypeOK, NEW n \in 1 .. size, HeadIncrease(n)
    PROVE  /\ n \in 1 .. Valid
           /\ headPos' \in 0 .. size - 1
           /\ Valid' = Valid - n
           /\ Contents' = [i \in 0 .. Valid - n - 1 |-> Contents[i + n]]
<1>1. n \in 1 .. Valid /\ Valid \in 0 .. size - 1
  BY ValidBound DEF HeadIncrease, TypeOK
<1>2. headPos' = IF headPos + n >= size THEN headPos + n - size ELSE headPos + n
  <2> DEFINE k == headPos + n
  <2>1. k \in Nat /\ k < 2 * size /\ size \in Nat /\ size > 0
    BY <1>1 DEF TypeOK
  <2>2. headPos' = k % size
    BY DEF HeadIncrease, HeadAfter
  <2>3. k % size = IF k >= size THEN k - size ELSE k
    <3> HIDE DEF k
    <3> QED BY <2>1, WrapOnce
  <2>4. headPos' = IF k >= size THEN k - size ELSE k
    <3> HIDE DEF k
    <3> QED BY <2>2, <2>3
  <2>5. headPos \in Nat /\ n \in Nat
    BY DEF TypeOK
  <2> QED BY <2>1, <2>4, <2>5
<1>3. headPos' \in 0 .. size - 1 /\ Valid' = Valid - n
  BY <1>1, <1>2 DEF TypeOK, HeadIncrease, Valid, ValidCount
<1>4. ASSUME NEW i \in 0 .. Valid - n - 1
      PROVE  /\ i + n \in 0 .. Valid - 1
             /\ Position(size, headPos', i) = Position(size, headPos, i + n)
  BY <1>1, <1>2 DEF TypeOK, Position
<1>5. Contents' = [i \in 0 .. Valid - n - 1 |-> buffer[Position(size, headPos', i)]]
  BY <1>3 DEF Contents, RingContents, HeadIncrease, Valid
<1>6. ASSUME NEW i \in 0 .. Valid - n - 1
      PROVE  Contents[i + n] = buffer[Position(size, headPos, i + n)]
  BY <1>4 DEF Contents, RingContents, Valid
<1> QED BY <1>1, <1>3, <1>4, <1>5, <1>6

-----------------------------------------------------------------------------
\* Both cursors stay positions of the storage whatever is put, read, consumed
\* or cleared: the index arithmetic of the two classes never leaves _buffer.
THEOREM TypeCorrect == Spec => []TypeOK
<1>1. Init => TypeOK
  BY SizeAssumption DEF Init, TypeOK
<1>2. TypeOK /\ [Next]_vars => TypeOK'
  <2> SUFFICES ASSUME TypeOK, [Next]_vars PROVE TypeOK'
    OBVIOUS
  <2>1. ASSUME NEW len \in 0 .. MaxChunk, NEW data \in Packet(len), PutData(data, len)
        PROVE  TypeOK'
    BY <2>1, PutDataEffect DEF PutEffect
  <2>2. ASSUME NEW len \in 0 .. MaxChunk, NEW data \in Packet(len), NEW newSize,
               PutExpanding(data, len, newSize)
        PROVE  TypeOK'
    BY <2>2, PutExpandingEffect DEF PutEffect
  <2>3. ASSUME NEW n \in 1 .. size, GetData(n)
        PROVE  TypeOK'
    BY <2>3 DEF GetData, TypeOK
  <2>4. ASSUME NEW n \in 1 .. size, HeadIncrease(n)
        PROVE  TypeOK'
    BY <2>4, IncreaseContents DEF HeadIncrease, TypeOK
  <2>5. CASE SetEmpty
    BY <2>5 DEF SetEmpty, TypeOK
  <2>6. CASE UNCHANGED vars
    BY <2>6 DEF TypeOK, vars
  <2> QED BY <2>1, <2>2, <2>3, <2>4, <2>5, <2>6 DEF Next, PutRefused
<1> QED BY <1>1, <1>2, PTL DEF Spec

-----------------------------------------------------------------------------
\* Every step of the ring is a step of the first-in first-out byte sequence,
\* or leaves it unchanged.
LEMMA StepImplementsFifo ==
    ASSUME TypeOK, [Next]_vars
    PROVE  [Fifo!FifoNext]_(Fifo!fifoVars)
<1> USE DEF Packet, Fifo!Packet
<1>1. ASSUME NEW len \in 1 .. MaxChunk, NEW data \in Packet(len),
             PutEffect(data, len), passed' = data
      PROVE  Fifo!FifoNext
  <2>1. Fifo!Put(data, len)
    BY <1>1 DEF Fifo!Put, PutEffect, Contents
  <2> QED BY <2>1 DEF Fifo!FifoNext
<1>2. ASSUME NEW len \in 0 .. MaxChunk, NEW data \in Packet(len),
             \/ PutData(data, len)
             \/ \E newSize \in 0 .. MaxSize : PutExpanding(data, len, newSize)
      PROVE  Fifo!FifoNext
  <2>1. len \in 1 .. MaxChunk /\ PutEffect(data, len)
    BY <1>2, PutDataEffect, PutExpandingEffect
  <2>2. passed' = data
    BY <1>2 DEF PutData, PutExpanding
  <2> QED BY <1>1, <2>1, <2>2
<1>3. ASSUME NEW n \in 1 .. size, GetData(n)
      PROVE  Fifo!FifoNext
  <2>1. Fifo!Peek(n)
    BY <1>3, GetContents DEF Fifo!Peek, GetData, Valid, Contents, RingContents
  <2> QED BY <1>3, <2>1, GetContents DEF Fifo!FifoNext
<1>4. ASSUME NEW n \in 1 .. size, HeadIncrease(n)
      PROVE  Fifo!FifoNext
  <2>1. Fifo!Consume(n)
    BY <1>4, IncreaseContents DEF Fifo!Consume, HeadIncrease, Contents
  <2> QED BY <1>4, <2>1, IncreaseContents DEF Fifo!FifoNext
<1>5. CASE SetEmpty
  <2>1. Valid' = 0
    BY <1>5 DEF SetEmpty, Valid, ValidCount
  <2>2. RingContents(buffer, size, headPos, tailPos)' \in [0 .. 0 - 1 -> Byte]
    BY <1>5, <2>1 DEF RingContents, Valid
  <2> QED BY <1>5, <2>1, <2>2 DEF SetEmpty, Fifo!Clear, Fifo!FifoNext
<1>6. CASE UNCHANGED vars
  BY <1>6 DEF vars, Fifo!fifoVars, Valid, RingContents
<1> QED BY <1>2, <1>3, <1>4, <1>5, <1>6 DEF Next, PutRefused

\* The fixed and the expandable ring implement the byte FIFO: what GetData
\* returns and HeadIncrease drops are the oldest bytes put, in order, for every
\* size and packet length and across every growth.
THEOREM RingImplementsFifo == Spec => ImplementsFifo
<1>1. Init => Fifo!FifoInit
  <2> SUFFICES ASSUME Init PROVE Fifo!FifoInit
    OBVIOUS
  <2>1. Valid = 0
    BY DEF Init, Valid, ValidCount
  <2>2. RingContents(buffer, size, headPos, tailPos) \in [0 .. 0 - 1 -> Byte]
    BY <2>1 DEF RingContents, Valid
  <2> QED BY <2>1, <2>2 DEF Init, Fifo!FifoInit, Packet, Fifo!Packet
<1>2. TypeOK /\ [Next]_vars => [Fifo!FifoNext]_(Fifo!fifoVars)
  BY StepImplementsFifo
<1> QED BY <1>1, <1>2, TypeCorrect, PTL DEF Spec, ImplementsFifo, Fifo!FifoSpec
=============================================================================
