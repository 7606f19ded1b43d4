--------------------------- MODULE MCDeliveryQueue ---------------------------
(* A self order of two cards and an upstream order; a queue of one worker and *)
(* one place, pushed twice.                                                   *)
EXTENDS DeliveryQueue
CONSTANTS own, far, t1, t2
MCOrder == {own, far}
MCTask == {t1, t2}
MCSource == [o \in MCOrder |-> IF o = own THEN "self" ELSE "upstream"]
MCNum == [o \in MCOrder |-> IF o = own THEN 2 ELSE 1]
=============================================================================
