---------------------------- MODULE MCStorefront ----------------------------
(* The shop of every Storefront run: a commodity with two secrets of its    *)
(* own and one that an upstream delivers, at most two at a time; a buyer u1 *)
(* with the price of two cards and a user u2 who invites; one coupon, of 10 *)
(* off, issued once.                                                        *)
EXTENDS StorefrontProperties, TLC
CONSTANTS r1, r2, u1, u2, card, resale
MCRequest == {r1, r2}
MCUser == {u1, u2}
MCBuyers == {u1}
MCInviters == {u2}
MCCommodity == {card, resale}
MCSource == [c \in MCCommodity |-> IF c = card THEN "self" ELSE "upstream"]
MCPrice == [c \in MCCommodity |-> 50]
MCQuantity == [c \in MCCommodity |-> [min |-> 1, max |-> IF c = card THEN 0 ELSE 2]]
MCShelf == <<card, card>>
MCTerms == [k \in {1} |-> [limit |-> 1, percent |-> FALSE, discount |-> 10, min |-> 50]]
MCOpening == [u \in MCUser |-> IF u = u1 THEN 100 ELSE 0]
MCSymmetry == Permutations(MCRequest)
MCNone == {}
MCNoTerms == [k \in {} |-> 0]
=============================================================================
