------------------------------- MODULE RingOps -------------------------------
(***************************************************************************)
(* The position arithmetic of CircularBuffer: pure operators over the size *)
(* of the buffer and its two cursors, shared by the circular buffer, the   *)
(* expandable one and the socket that keeps its unsent bytes in one.       *)
(* Storage and packets are zero-based arrays, as in the code.              *)
(***************************************************************************)
EXTENDS Integers

\* GetValidCount: the number of bytes between the cursors.
ValidCount(size, head, tail) ==
    IF tail >= head THEN tail - head ELSE size + (tail - head)

\* One slot is always kept free, so that head = tail means empty.
IsOverFlowCondition(size, head, tail, len) ==
    len >= size - ValidCount(size, head, tail)

\* The write reaches or passes the end of the storage.
IsIndexOverFlow(size, tail, len) == len + tail >= size

\* How many bytes the first of the two memcpy calls of a put copies.
FirstCopyLen(size, tail, len) ==
    IF IsIndexOverFlow(size, tail, len) THEN size - tail ELSE len

\* The tail cursor after a put of len bytes that does not overflow.
TailAfter(size, tail, len) ==
    IF IsIndexOverFlow(size, tail, len)
    THEN len - FirstCopyLen(size, tail, len) ELSE tail + len

\* The storage after the (one or two) memcpy calls of a put of data.
Written(buf, size, tail, data, len) ==
    LET first == FirstCopyLen(size, tail, len)
    IN  [k \in 0 .. size - 1 |->
           IF tail <= k /\ k < tail + first THEN data[k - tail]
           ELSE IF k < len - first          THEN data[first + k]
           ELSE buf[k]]

\* What GetData copies out: len bytes from head, wrapping at the end.
Peeked(buf, size, head, len) ==
    [i \in 0 .. len - 1 |->
        IF i < size - head THEN buf[head + i] ELSE buf[i - (size - head)]]

\* Faulty variant: the cursor runs past the end of the storage.
HeadAfter_NoWrap(size, head, n) == head + n

\* The head cursor after HeadIncrease(n).
HeadAfter(size, head, n) == (head + n) % size

-----------------------------------------------------------------------------
\* Where the i-th oldest byte of a ring with this head lies.
Position(size, head, i) ==
    IF head + i >= size THEN head + i - size ELSE head + i

\* The bytes a ring holds, oldest first.
RingContents(buf, size, head, tail) ==
    [i \in 0 .. ValidCount(size, head, tail) - 1 |-> buf[Position(size, head, i)]]
=============================================================================
