--------------------------- MODULE MCCircularBuffer ---------------------------
(***************************************************************************)
(* A ring of three slots, fixed or growing to six, and packets of up to    *)
(* four bytes over two values: every pair of cursor positions, every wrap, *)
(* growth with and without wrapped bytes, and the refusal of a packet that *)
(* would fill the last slot.                                               *)
(***************************************************************************)
EXTENDS CircularBuffer
CONSTANTS b0, b1
MCByte == {b0, b1}
=============================================================================
