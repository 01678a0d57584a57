------------------------------- MODULE ByteFifo -------------------------------
(***************************************************************************)
(* What a byte buffer promises its users: a first-in, first-out sequence.  *)
(* A write is taken whole or not at all, a read sees the oldest bytes in   *)
(* order, and consuming n bytes removes exactly the oldest n.              *)
(***************************************************************************)
EXTENDS Integers

CONSTANTS Byte,       \* the byte values
          MaxChunk    \* longest packet put in one call

VARIABLES count,      \* how many bytes are held
          contents,   \* the bytes, oldest first, a function on 0 .. count - 1
          passed      \* the bytes the last call was given, or returned

fifoVars == <<count, contents, passed>>

Packet(len) == [0 .. len - 1 -> Byte]

FifoInit ==
    /\ count = 0
    /\ contents \in Packet(0)
    /\ passed \in Packet(0)

Put(data, len) ==
    /\ count' = count + len
    /\ contents' = [i \in 0 .. count + len - 1 |->
                       IF i < count THEN contents[i] ELSE data[i - count]]
    /\ passed' = data

Peek(n) ==
    /\ passed' = [i \in 0 .. n - 1 |-> contents[i]]
    /\ UNCHANGED <<count, contents>>

Consume(n) ==
    /\ count' = count - n
    /\ contents' = [i \in 0 .. count - n - 1 |-> contents[i + n]]
    /\ passed' \in Packet(0)

Clear ==
    /\ count' = 0
    /\ contents' \in Packet(0)
    /\ passed' \in Packet(0)

FifoNext ==
    \/ \E len \in 1 .. MaxChunk : \E data \in Packet(len) : Put(data, len)
    \/ \E n \in 1 .. count : Peek(n) \/ Consume(n)
    \/ Clear

FifoSpec == FifoInit /\ [][FifoNext]_fifoVars
=============================================================================
