----------------------------- MODULE OrderPromise -----------------------------
(***************************************************************************)
(* What the shop promises about an order paid from a balance: it is        *)
(* charged before anything is delivered, what it receives no other order   *)
(* receives, and once charged it ends, for good, either delivered or       *)
(* refunded.                                                               *)
(***************************************************************************)
EXTENDS Integers

CONSTANTS Order, Goods

VARIABLES
  phase,        \* how far each order is
  goods         \* what each order has received

promiseVars == <<phase, goods>>

Phase == {"none", "open", "charged", "delivered", "refunded"}

PromiseInit ==
  /\ phase = [o \in Order |-> "none"]
  /\ goods = [o \in Order |-> {}]

Step(o, from, to) == phase[o] = from /\ phase' = [phase EXCEPT ![o] = to]

Open(o)   == Step(o, "none", "open") /\ UNCHANGED goods
Charge(o) == Step(o, "open", "charged") /\ UNCHANGED goods
Refund(o) == Step(o, "charged", "refunded") /\ UNCHANGED goods
Deliver(o) ==
  /\ Step(o, "charged", "delivered")
  /\ goods'[o] \in (SUBSET Goods) \ {{}}
  /\ \A p \in Order \ {o} : goods'[p] = goods[p] /\ goods[p] \cap goods'[o] = {}

PromiseNext == \E o \in Order : Open(o) \/ Charge(o) \/ Refund(o) \/ Deliver(o)

PromiseSafety == PromiseInit /\ [][PromiseNext]_promiseVars

\* A charged order does not stay charged.
PromiseKept == \A o \in Order : phase[o] = "charged" ~> phase[o] \in {"delivered", "refunded"}

PromiseSpec == PromiseSafety /\ PromiseKept
=============================================================================
