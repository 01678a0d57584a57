-------------------------- MODULE MCAccountSession --------------------------
(***************************************************************************)
(* The instance of AccountSession that TLC checks: two slots and two       *)
(* accounts, all interchangeable.                                          *)
(***************************************************************************)
EXTENDS AccountSession, TLC

CONSTANTS s1, s2, a1, a2

MCSlots == {s1, s2}
MCAccounts == {a1, a2}
OneAccount == {a1}
Symmetry == Permutations(MCSlots) \cup Permutations(MCAccounts)
=============================================================================
