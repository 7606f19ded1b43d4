------------------------------ MODULE MCStores -------------------------------
(* Cards: two commodities, two orders and four secret ids, enough for a     *)
(* sale between two imports, a stale save between two sales, a deleted      *)
(* commodity that receives secrets again, and two orders competing for one  *)
(* shelf.  Money: two users who can each invite the other, two requests     *)
(* inside ProcessOrderCommission at once, and journals of two entries:      *)
(* enough for a charge and a credit, or two credits, of one user to         *)
(* interleave and for the server to stop between a credit and its accrual.  *)
(* 50 spent earns 2; 0 is the amount linkBalanceLogToOrder posts.           *)
EXTENDS Stores, TLC
CONSTANTS c1, c2, o1, o2, u1, u2, p1, p2
MCCommodity == {c1, c2}
MCOrder == {o1, o2}
MCUser == {u1, u2}
MCCaller == {p1, p2}
MCOpening == [u \in MCUser |-> IF u = u1 THEN 50 ELSE 0]
MCAmounts == {-50, 0, 50}
MCSymmetry == Permutations(MCOrder) \cup Permutations(MCCommodity) \cup Permutations(MCCaller)
=============================================================================
