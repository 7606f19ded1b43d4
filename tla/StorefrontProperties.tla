------------------------- MODULE StorefrontProperties -------------------------
(***************************************************************************)
(* What Storefront is checked for.                                         *)
(***************************************************************************)
EXTENDS Storefront, FiniteSetsExt

\* Every table and every request is of its kind.
StorefrontTypeOK ==
  /\ Vault!VaultTypeOK
  /\ Acc!AccountsTypeOK
  /\ used \in [Coupon -> Nat] /\ usages \in Seq(Coupons!Usage)
  /\ orders \in Seq(Book!OrderRow) /\ payments \in Seq(Book!PaymentRow)
  /\ bought \in Nat
  /\ \A r \in Request : req[r] # IdleReq =>
       req[r].copy = NoCopy \/ req[r].copy \in Book!OrderRow

-----------------------------------------------------------------------------
(* The money an order has moved.                                           *)

\* The journal entries that charge or refund order o.
MoneyEntries(o) ==
  {e \in User \X (1 .. MaxEntries) :
     /\ e[2] <= Len(journal[e[1]])
     /\ journal[e[1]][e[2]].order = o
     /\ journal[e[1]][e[2]].type \in {"consume", "refund"}}

EntryAt(e) == journal[e[1]][e[2]]

HasEntry(o, type) ==
  \E e \in MoneyEntries(o) : EntryAt(e).type = type

\* The referral credits for order o.
CreditsFor(o) ==
  {e \in User \X (1 .. MaxEntries) :
     /\ e[2] <= Len(journal[e[1]])
     /\ journal[e[1]][e[2]].order = o
     /\ journal[e[1]][e[2]].type = "referral"}

\* An order's checkout posts its price at most once as a charge and at most
\* once as a refund, never another amount, and the refund only after the charge
\* and to whom it charged; an order that says delivered was not refunded: no
\* buyer keeps both the goods and the money, whichever calls fail in between
\* (the balance path of handleOrderCreateV3).
RefundsReturnCharge ==
  \A o \in Book!OrderIds :
    /\ \A e \in MoneyEntries(o) :
         \/ EntryAt(e).type = "consume" /\ EntryAt(e).amount \in {0, -orders[o].amount}
         \/ /\ EntryAt(e).type = "refund" /\ EntryAt(e).amount = orders[o].amount
            /\ \E f \in MoneyEntries(o) :
                 /\ f[1] = e[1] /\ f[2] < e[2]
                 /\ EntryAt(f).type = "consume" /\ EntryAt(f).amount = -orders[o].amount
    /\ \A e, f \in MoneyEntries(o) :
         EntryAt(e).type = EntryAt(f).type => e = f \/ 0 \in {EntryAt(e).amount, EntryAt(f).amount}
    /\ orders[o].status = Book!Delivered => ~HasEntry(o, "refund")

\* The most a single order can cost.
Dearest == Max({Price[c] * n : c \in Commodity, n \in Nums})

\* The balance check is stale when the charge comes, but not arbitrarily: only
\* the checkouts under way at once can overdraw a balance together, so that one
\* order alone never does (GetUserByID against AdjustBalance, no lower bound).
OverdraftBounded ==
  \A u \in User : balance[u] >= -(Cardinality(Request) - 1) * Dearest

-----------------------------------------------------------------------------
(* The goods an order shows.                                               *)

Cards(o) == {i \in orders[o].contents : i > 0}

\* A card an order shows was sold to that order and to no other (deliverSelf
\* and SecretEngine only show what PullSecret bound to the order), and what an
\* upstream purchase returned is shown by one order.
GoodsAreOwn ==
  /\ \A o \in Book!OrderIds : Cards(o) \subseteq {s.id : s \in Vault!SoldTo(o)}
  /\ \A o, p \in Book!OrderIds : o # p => orders[o].contents \cap orders[p].contents = {}

\* An order that says delivered shows all the cards it asked for, and a
\* refunded one shows none.
StatusMatchesGoods ==
  \A o \in Book!OrderIds :
    Source[orders[o].commodity] = "self" =>
      /\ orders[o].status = Book!Delivered => Cardinality(Cards(o)) = orders[o].num
      /\ orders[o].status = Book!Refunded => orders[o].contents = {}

\* Coupons are counted once per recorded use, and every use is of an order
\* that was granted that coupon.
CouponUsesRecorded ==
  /\ \A c \in Coupon : used[c] = Cardinality(Coupons!UsagesOf(c))
  /\ \A i \in 1 .. Len(usages) :
       /\ usages[i].order \in Book!OrderIds
       /\ orders[usages[i].order].coupon = usages[i].coupon
       /\ orders[usages[i].order].user = usages[i].user

\* What a sold order says.  The write that says delivered drops its error: if it
\* fails, the order stays pending although its goods were handed over.
SoldStatus == {Book!Delivered} \cup (IF Faults THEN {Book!Pending} ELSE {})

\* The referrer of a buyer earns once per order, only for one whose goods were
\* handed over (so never for a refunded one), and the commission on what it
\* cost after the discount.
CommissionOncePerSale ==
  \A o \in Book!OrderIds :
    /\ Cardinality(CreditsFor(o)) <= 1
    /\ \A e \in CreditsFor(o) :
         /\ orders[o].status \in SoldStatus
         /\ EntryAt(e).amount = Acc!Commission(orders[o].amount)

-----------------------------------------------------------------------------
(* The promise, as a refinement.                                           *)

PhaseOf(o) ==
  IF o \notin Book!OrderIds THEN "none"
  ELSE IF HasEntry(o, "refund") THEN "refunded"
  ELSE IF orders[o].status = Book!Delivered THEN "delivered"
  ELSE IF HasEntry(o, "consume") THEN "charged"
  ELSE "open"

Promise == INSTANCE OrderPromise WITH
  phase <- [o \in Order |-> PhaseOf(o)],
  goods <- [o \in Order |-> IF o \in Book!OrderIds THEN orders[o].contents ELSE {}]

\* Balance checkout keeps the promise of OrderPromise, whatever other checkouts
\* do in between (the "buy" path of handleOrderCreateV3).
CheckoutKeepsPromise == Promise!PromiseSafety
CheckoutSettles      == Promise!PromiseKept

-----------------------------------------------------------------------------
(* Payments.                                                               *)

\* However often and however concurrently a gateway repeats a notification,
\* one callback wins the payment and delivers.
CallbackWinsOnce == \A p \in 1 .. MaxPayments : wins[p] <= 1

\* A payment whose gateway keeps notifying of it is marked as paid
\* (handlePaymentCallback finds it by the number the gateway gave it).
NotifiedIsPaid ==
  \A p \in 1 .. MaxPayments :
    (p \in Book!PaymentIds /\ payments[p].method = "epay")
      ~> (p \in Book!PaymentIds /\ payments[p].paid)

\* FinishPaidOrder is idempotent: however often an order is finished, no more
\* cards are sold to it than it asked for.
FinishIsIdempotent ==
  \A o \in Book!OrderIds : Cardinality(Vault!SoldTo(o)) <= orders[o].num

\* When the server is at rest, a charged order has its goods or its money back.
NothingOwed ==
  (\A r \in Request : At(r, "idle")) =>
    \A o \in Book!OrderIds :
      HasEntry(o, "consume") => orders[o].contents # {} \/ HasEntry(o, "refund")

\* No more uses of a coupon are counted than the admin issued.
CouponLimitKept ==
  \A c \in Coupon : Terms[c].limit > 0 => used[c] <= Terms[c].limit
=============================================================================
