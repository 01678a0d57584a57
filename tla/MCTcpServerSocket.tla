-------------------------- MODULE MCTcpServerSocket --------------------------
(***************************************************************************)
(* Bounded instances of the session pool.  Slots are model values and play *)
(* symmetric roles: only their order in the id queue tells them apart.     *)
(***************************************************************************)
EXTENDS TcpServerSocket
CONSTANTS s1, s2
TwoSlots == {s1, s2}
OneSlot == {s1}
Lengths == {1, 2}
SlotSymmetry == Permutations(Ids)
=============================================================================
