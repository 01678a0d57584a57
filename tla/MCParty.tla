-------------------------------- MODULE MCParty --------------------------------
(***************************************************************************)
(* Users are model values and play symmetric roles.  Two party indices, so *)
(* that an index is given again, and three places to a party.              *)
(***************************************************************************)
EXTENDS Party, TLC
CONSTANTS u1, u2, u3, u4
Three == {u1, u2, u3}
Four == {u1, u2, u3, u4}
UserSymmetry == Permutations(Users)
=============================================================================
