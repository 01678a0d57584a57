------------------------------ MODULE MCExchange ------------------------------
(***************************************************************************)
(* Two or three users; the first has the coin and the item.                *)
(***************************************************************************)
EXTENDS Exchange, TLC

CONSTANTS u1, u2, u3, i1

Pair == {u1, u2}
Trio == {u1, u2, u3}
Nobody == {}
Giver == {u1}
NoCoin == {0}
EmptyBag == {{}}
OneItem == {i1}
OneCoin == {1}
PairGold == [u \in Pair |-> IF u = u1 THEN 1 ELSE 0]
PairItems == [u \in Pair |-> IF u = u1 THEN {i1} ELSE {}]
TrioGold == [u \in Trio |-> IF u = u1 THEN 1 ELSE 0]
TrioItems == [u \in Trio |-> IF u = u1 THEN {i1} ELSE {}]
PairLists == {[u \in Pair |-> 0]}
TrioLists == {[u \in Trio |-> 0], [u \in Trio |-> IF u = u1 THEN 1 ELSE 0]}
Others == Permutations({u2, u3})
=============================================================================
