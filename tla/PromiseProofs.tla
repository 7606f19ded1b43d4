----------------------------- MODULE PromiseProofs -----------------------------
(***************************************************************************)
(* The theorems of Storefront about an instance in which orders are placed *)
(* and paid but not finished a second way: the commission is earned once   *)
(* per delivered order, and balance checkout implements OrderPromise.      *)
(***************************************************************************)
EXTENDS CheckoutProofs

-----------------------------------------------------------------------------
(* The rows requests work on.                                              *)

\* A request past CreateOrder.
Handling(q) == q \in Busy /\ q.pc \notin Ordering

\* Before and after the delivery is saved.
Unserved == {"charge", "deliver", "save", "refund", "saverefund"} \cup PayPath
Served   == {"link"} \cup EndPath

\* Where the row of a request's order is while the request is at work on it.
RowSoFar(q) ==
  /\ q.pc \in Unserved => orders[q.order].status = Book!Pending /\ orders[q.order].contents = {}
  /\ q.pc \in PayPath => q.copy.contents = {}
  /\ q.pc \in Served => orders[q.order].status \in SoldStatus

\* Only orders are called for, and no copy lost its trade number.
OnlyBuyers ==
  \A r \in Request : req[r] \in Busy => req[r].kind \in {"buy", "order"} /\ req[r].moved = FALSE

\* An order is in the hands of one request.
OwnHands ==
  \A r, s \in Request :
    Handling(req[r]) /\ Handling(req[s]) /\ req[r].order = req[s].order => r = s

SaleInv ==
  /\ CheckoutInv
  /\ OnlyBuyers
  /\ OwnHands
  /\ \A r \in Request : Handling(req[r]) => RowSoFar(req[r])

\* A request past CreateOrder has its order.
LEMMA HandlingOrders ==
  ASSUME SaleInv, NEW r \in Request, Handling(req[r])
  PROVE  /\ req[r].order \in Book!OrderIds /\ req[r].order \in Order /\ req[r].order \in Nat
         /\ req[r].copy \in Book!OrderRow /\ req[r].copy.amount \in Nat
         /\ SameOrder(req[r].copy, orders[req[r].order])
         /\ req[r].kind \in {"buy", "order"} /\ Sane(req[r]) /\ RowSoFar(req[r])
<1>1. StorefrontInv /\ IdleReq \notin Busy
  BY IdleHolds DEF SaleInv, CheckoutInv
<1>2. req[r].kind \in {"buy", "order"} /\ RowSoFar(req[r]) /\ req[r] \in Busy
  BY DEF SaleInv, OnlyBuyers, Handling
<1>3. Sane(req[r])
  BY <1>1, <1>2 DEF StorefrontInv, RequestsSane
<1>4. req[r].pc \in Place /\ At(r, req[r].pc) /\ req[r].pc \notin Reading \cup Ordering
  BY <1>2, <1>3 DEF Handling, Busy, At, Sane, Kinds, Ordering, BuyPath, EndPath, Reading
<1> QED
  BY <1>1, <1>2, <1>3, <1>4, Standing

\* What a step of request r leaves in its hands.
Hands(r, q) ==
  /\ q \in Busy => q.kind \in {"buy", "order"} /\ q.moved = FALSE
  /\ Handling(q) =>
       \/ q.order \in Book!OrderIds' /\ q.order \notin Book!OrderIds
       \/ Handling(req[r]) /\ q.order = req[r].order

\* The rows it leaves alone.
OtherRows(r) ==
  /\ Book!OrderIds \subseteq Book!OrderIds'
  /\ \A o \in Book!OrderIds :
       \/ orders'[o].status = orders[o].status /\ orders'[o].contents = orders[o].contents
       \/ Handling(req[r]) /\ o = req[r].order

LEMMA HandsKept ==
  ASSUME SaleInv, CheckoutInv', NEW r \in Request, NEW q, Becomes(r, q), Hands(r, q),
         OtherRows(r), Handling(q) => RowSoFar(q)'
  PROVE  SaleInv'
<1>1. req'[r] = q /\ \A s \in Request \ {r} : req'[s] = req[s]
  BY DEF Becomes, SaleInv, CheckoutInv, StorefrontInv, RequestsSane
<1>2. \A s \in Request : Handling(req[s]) => req[s].order \in Book!OrderIds
  BY HandlingOrders
<1>3. OnlyBuyers'
  BY <1>1 DEF OnlyBuyers, Hands, SaleInv
<1>4. OwnHands'
  <2>1. ASSUME NEW s \in Request, NEW t \in Request, Handling(req'[s]), Handling(req'[t]),
               req'[s].order = req'[t].order
        PROVE  s = t
    BY <1>1, <1>2, <2>1 DEF SaleInv, OwnHands, Hands
  <2> QED
    BY <2>1 DEF OwnHands, Handling
<1>5. ASSUME NEW s \in Request, Handling(req'[s])
      PROVE  RowSoFar(req[s])'
  <2>1. CASE s = r
    <3>1. \A y : y = req'[s] /\ RowSoFar(y)' => RowSoFar(req[s])'
      BY DEF RowSoFar
    <3> QED
      BY <1>1, <1>5, <2>1, <3>1
  <2>2. CASE s # r
    <3>1. req'[s] = req[s] /\ Handling(req[s])
      BY <1>1, <1>5, <2>2
    <3>2. /\ orders'[req[s].order].status = orders[req[s].order].status
          /\ orders'[req[s].order].contents = orders[req[s].order].contents
      BY <1>2, <2>2, <3>1 DEF OtherRows, SaleInv, OwnHands
    <3>3. RowSoFar(req[s])
      BY <3>1 DEF SaleInv
    <3> QED
      BY <3>1, <3>2, <3>3 DEF RowSoFar
  <2> QED
    BY <2>1, <2>2
<1> QED
  BY <1>3, <1>4, <1>5 DEF SaleInv, Handling

\* The step of a sale.
SaleMove(r, q) == Hands(r, q) /\ OtherRows(r) /\ (Handling(q) => RowSoFar(q)')

\* A request that stays on its side of the delivery, and writes no row.
LEMMA SideKept ==
  ASSUME SaleInv, NEW r \in Request, NEW q, UNCHANGED orders,
         q \in Busy => /\ q.kind \in {"buy", "order"} /\ q.moved = FALSE
                       /\ q.pc \in Ordering \/ (Handling(req[r]) /\ q.order = req[r].order),
         Handling(q) => /\ q.pc \in Unserved => req[r].pc \in Unserved
                        /\ q.pc \in Served => req[r].pc \in Served
                        /\ q.pc \in PayPath => req[r].pc \in PayPath /\ q.copy = req[r].copy
  PROVE  SaleMove(r, q)
<1>1. Book!OrderIds' = Book!OrderIds /\ \A o \in Book!OrderIds : orders'[o] = orders[o]
  BY RowsStay
<1>2. Hands(r, q) /\ OtherRows(r)
  BY <1>1 DEF Hands, OtherRows, Handling
<1>3. Handling(q) => RowSoFar(q)'
  BY DEF SaleInv, RowSoFar, Handling
<1> QED
  BY <1>2, <1>3 DEF SaleMove

LEMMA SaleStep ==
  ASSUME SaleInv, Handlers \subseteq {"buy", "order"}, "number" \notin Answers,
         NEW r \in Request, NEW q, Becomes(r, q), Does(r, q)
  PROVE  SaleMove(r, q)
<1> DEFINE x == req[r]
<1>1. IdleReq \notin Busy
  BY IdleHolds
<1>2. x \in Busy => x.kind \in {"buy", "order"} /\ x.moved = FALSE
  BY DEF SaleInv, OnlyBuyers
<1>3. CASE Asks(r, q)
  BY <1>3, SideKept DEF Asks, Still, Ordering, Handling
<1>4. CASE Quits(r, q)
  BY <1>1, <1>4, SideKept DEF Quits, Still, Handling
<1>5. CASE Prepares(r, q)
  BY <1>2, <1>5, SideKept DEF Prepares, Still, Ordering, Handling
<1>6. CASE Places(r, q)
  <2>1. PICK o : /\ NewRow(o, x.copy)
                 /\ \/ q = IdleReq
                    \/ /\ q \in Busy /\ q.kind = x.kind /\ q.copy = x.copy /\ q.moved = x.moved
                       /\ q.order = o /\ q.pc = (IF x.kind = "buy" THEN "charge" ELSE "payrow")
    BY <1>6 DEF Places
  <2>2. x \in Busy /\ x.copy.status = Book!Pending /\ x.copy.contents = {}
    BY <1>6 DEF Places, Sane, Copies, Ordering
  <2>3. Hands(r, q) /\ OtherRows(r)
    BY <1>1, <1>2, <2>1, <2>2 DEF Hands, OtherRows, NewRow, Handling
  <2>4. Handling(q) => RowSoFar(q)'
    BY <1>1, <2>1, <2>2 DEF NewRow, Handling, RowSoFar, Unserved, Served, EndPath, PayPath
  <2> QED
    BY <2>3, <2>4 DEF SaleMove
<1>7. CASE Moves(r, q)
  <2>1. /\ x \in Busy /\ Sane(x) /\ q \in Busy /\ SameHand(q, x) /\ UNCHANGED orders
        /\ \/ x.pc = "payrow" /\ q.pc = "paylink"
           \/ x.pc = "deliver" /\ q.pc \in {"deliver", "refund"}
           \/ x.pc = "use" /\ q.pc = "commission"
    BY <1>2, <1>7 DEF Moves, Still, Sane, Kinds, Ordering, BuyPath, EndPath
  <2>2. q.kind \in {"buy", "order"} /\ q.moved = FALSE /\ q.order = x.order /\ Handling(x)
    BY <1>2, <2>1 DEF SameHand, Handling, Ordering
  <2> QED
    BY <2>1, <2>2, SideKept DEF SameHand, Unserved, Served, PayPath, EndPath
<1>8. CASE Reads(r, q)
  BY <1>2, <1>8 DEF Reads
<1>9. CASE Receives(r, q)
  <2>1. PICK goods \in SUBSET Int, moved \in BOOLEAN :
          /\ Delivers(x, q, goods, moved) /\ (moved => "number" \in Answers)
    BY <1>9 DEF Receives
  <2>2. x \in Busy /\ Sane(x) /\ x.pc = "deliver" /\ UNCHANGED orders /\ x.kind = "buy"
    BY <1>2, <1>9 DEF Receives, Still, Sane, Kinds
  <2>3. /\ q.kind = "buy" /\ q.moved = FALSE /\ q.order = x.order /\ Handling(x)
        /\ q.pc = "save"
    BY <2>1, <2>2 DEF Delivers, Handling, Ordering
  <2> QED
    BY <2>2, <2>3, SideKept DEF Unserved, Served, PayPath, EndPath
<1>10. ASSUME NEW pc, NEW next, NEW a, NEW typ, NEW o, Enters(r, q, pc, next, a, typ, o),
              \/ pc \in {"charge", "refund"} /\ next \in {"deliver", "saverefund"}
              \/ pc = "link" /\ next \in {"use", "commission"}
              \/ pc = "paycharge" /\ next = "paylink"
       PROVE  SaleMove(r, q)
  <2>1. /\ x \in Busy /\ q \in Busy /\ x.pc = pc /\ q.pc = next /\ UNCHANGED orders
        /\ q.kind \in {"buy", "order"} /\ q.moved = FALSE /\ q.order = x.order
        /\ q.copy = x.copy
    BY <1>2, <1>10 DEF Enters, SameHand
  <2>2. Handling(x)
    BY <1>10, <2>1 DEF Handling, Ordering
  <2> QED
    BY <1>10, <2>1, <2>2, SideKept DEF Unserved, Served, PayPath, EndPath
<1>11. CASE Charges(r, q) \/ Links(r, q) \/ Refunds(r, q) \/ PayCharges(r, q)
  <2>1. AfterLink(x) \in {"use", "commission"}
    BY DEF AfterLink
  <2> QED
    BY <1>10, <1>11, <2>1 DEF Charges, Links, Refunds, PayCharges
<1>12. ASSUME x \in Busy, q \in Busy, SameHand(q, x), UNCHANGED orders,
              x.pc \in EndPath, q.pc \in EndPath
       PROVE  SaleMove(r, q)
  <2>1. Handling(x) /\ q.kind \in {"buy", "order"} /\ q.moved = FALSE /\ q.order = x.order
    BY <1>2, <1>12 DEF SameHand, Handling, Ordering, EndPath
  <2> QED
    BY <1>12, <2>1, SideKept DEF Unserved, Served, PayPath, EndPath
<1>13. CASE Earns(r, q) \/ Credits(r, q)
  BY <1>12, <1>13 DEF Earns, Credits, EndPath
<1>14. CASE Accrues(r, q)
  BY <1>1, <1>14, SideKept DEF Accrues, Handling
<1>15. CASE WritesBack(r, q)
  <2>1. /\ x \in Busy /\ x.pc = "paylink" /\ RowBecomes(x.order, x.copy) /\ q = IdleReq
        /\ Handling(x)
    BY <1>15 DEF WritesBack, Handling, Ordering
  <2> QED
    BY <1>1, <2>1 DEF SaleMove, Hands, OtherRows, RowBecomes, Handling
<1>16. CASE SavesRefund(r, q)
  <2>1. x \in Busy /\ x.pc = "saverefund" /\ q = IdleReq /\ Handling(x)
    BY <1>16 DEF SavesRefund, Handling, Ordering
  <2>2. PICK copy : RowBecomes(x.order, copy)
    BY <1>16 DEF SavesRefund
  <2> QED
    BY <1>1, <2>1, <2>2 DEF SaleMove, Hands, OtherRows, RowBecomes, Handling
<1>17. CASE Saves(r, q)
  <2>1. /\ x \in Busy /\ x.pc = "save" /\ RowBecomes(x.order, x.copy) /\ Handling(x)
        /\ x.copy.status = Book!Delivered
        /\ q \in Busy /\ q.pc = "link" /\ SameHand(q, x)
    BY <1>2, <1>17 DEF Saves, Handling, Ordering, Sane, Copies
  <2>2. q.kind \in {"buy", "order"} /\ q.moved = FALSE /\ q.order = x.order
    BY <1>2, <2>1 DEF SameHand
  <2>3. Hands(r, q) /\ OtherRows(r)
    BY <2>1, <2>2 DEF Hands, OtherRows, RowBecomes
  <2>4. RowSoFar(q)'
    BY <2>1, <2>2 DEF RowSoFar, RowBecomes, Unserved, Served, PayPath, EndPath, SoldStatus
  <2> QED
    BY <2>3, <2>4 DEF SaleMove
<1>18. CASE SavesPaid(r, q)
  BY <1>2, <1>18 DEF SavesPaid
<1>19. CASE Skips(r, q)
  <2>1. /\ x \in Busy /\ q \in Busy /\ UNCHANGED orders /\ Faults
        /\ q.kind \in {"buy", "order"} /\ q.moved = FALSE /\ q.order = x.order
        /\ \/ x.pc = "refund" /\ q.pc = "saverefund"
           \/ x.pc = "save" /\ q.pc = "link"
           \/ x.pc = "link" /\ q.pc \in {"use", "commission"}
    BY <1>2, <1>19 DEF Skips, Still, SameHand, AfterLink
  <2>2. Handling(x)
    BY <2>1 DEF Handling, Ordering
  <2>3. CASE x.pc = "save"
    <3>1. Book!OrderIds' = Book!OrderIds /\ \A o \in Book!OrderIds : orders'[o] = orders[o]
      BY <2>1, RowsStay
    <3>2. Hands(r, q) /\ OtherRows(r)
      BY <2>1, <2>2, <3>1 DEF Hands, OtherRows
    <3>3. orders[q.order].status = Book!Pending
      BY <2>1, <2>2, <2>3 DEF SaleInv, RowSoFar, Unserved
    <3>4. RowSoFar(q)'
      BY <2>1, <2>3, <3>3 DEF RowSoFar, Unserved, Served, PayPath, EndPath, SoldStatus
    <3> QED
      BY <3>2, <3>4 DEF SaleMove
  <2>4. CASE x.pc # "save"
    BY <2>1, <2>2, <2>4, SideKept DEF Unserved, Served, PayPath, EndPath
  <2> QED
    BY <2>3, <2>4
<1> QED
  BY <1>3, <1>4, <1>5, <1>6, <1>7, <1>8, <1>9, <1>11, <1>13, <1>14, <1>15, <1>16,
    <1>17, <1>18, <1>19 DEF Does

-----------------------------------------------------------------------------
(* The commission of an order.                                             *)

\* How far the commission is that a request pays for its order.
CreditSoFar(q, job) ==
  /\ q.pc # "accrue" => CreditsFor(q.order) = {}
  /\ q.pc = "credit" =>
       job.order = q.order /\ job.amount = Acc!Commission(orders[q.order].amount)

\* What CommissionOncePerSale says of one order.
CreditsFit(o) ==
  /\ \A e, f \in CreditsFor(o) : e = f
  /\ \A e \in CreditsFor(o) :
       /\ orders[o].status \in SoldStatus
       /\ EntryAt(e).amount = Acc!Commission(orders[o].amount)

EarningInv ==
  /\ SaleInv
  /\ \A o \in Order \ Book!OrderIds : CreditsFor(o) = {}
  /\ \A o \in Book!OrderIds : CreditsFit(o)
  /\ \A r \in Request : Handling(req[r]) => CreditSoFar(req[r], jobs[r])

\* The referral entries for order o stay what they are.
SameCredits(o) ==
  /\ \A e : e \in CreditsFor(o)' <=> e \in CreditsFor(o)
  /\ \A e : e \in CreditsFor(o) => EntryAt(e)' = EntryAt(e)

LEMMA CreditsStay ==
  ASSUME UNCHANGED journal
  PROVE  \A o : SameCredits(o)
<1>1. \A e : (InJournal(e)' <=> InJournal(e)) /\ EntryAt(e)' = EntryAt(e)
  BY DEF InJournal, EntryAt
<1> QED
  BY <1>1, EntriesAre DEF SameCredits

\* A new entry is a credit for its order, if it is one at all.
LEMMA CreditAdds ==
  ASSUME NEW n, NEW u, NEW typ, NEW a, NEW o, NewEntry(n, u, typ, a, o)
  PROVE  /\ \A p : p # o \/ typ # "referral" => SameCredits(p)
         /\ typ = "referral" /\ CreditsFor(o) = {} => \A e : e \in CreditsFor(o)' <=> e = n
<1>1. \A p, e : e \in CreditsFor(p)'
        <=> e \in CreditsFor(p) \/ (e = n /\ p = o /\ typ = "referral")
  BY EntriesAre DEF NewEntry
<1>2. \A p, e : e \in CreditsFor(p) => EntryAt(e)' = EntryAt(e)
  BY EntriesAre DEF NewEntry
<1> QED
  BY <1>1, <1>2 DEF SameCredits

\* A step that keeps the commissions: the amounts of the rows stay, a row's
\* status changes only before its commission, and so do the entries.
CreditMove(r, q) ==
  /\ \A o \in Order :
       SameCredits(o) \/ (Handling(req[r]) /\ o = req[r].order /\ CreditsFit(o)' /\ q.pc = "accrue")
  /\ \A o \in Book!OrderIds :
       /\ orders'[o].amount = orders[o].amount
       /\ orders'[o].status = orders[o].status \/ CreditsFor(o) = {}
  /\ \A s \in Request \ {r} : jobs'[s] = jobs[s]
  /\ Handling(q) =>
       \/ q.order \in Order \ Book!OrderIds /\ q.pc # "credit"
       \/ /\ Handling(req[r]) /\ q.order = req[r].order /\ req[r].pc # "accrue"
          /\ q.pc = "credit" => /\ jobs'[r].order = q.order
                                /\ jobs'[r].amount = Acc!Commission(orders[q.order].amount)

LEMMA CreditsKept ==
  ASSUME EarningInv, SaleInv', NEW r \in Request, NEW q, Becomes(r, q), SaleMove(r, q),
         CreditMove(r, q)
  PROVE  EarningInv'
<1>0. /\ req'[r] = q /\ \A s \in Request \ {r} : req'[s] = req[s]
      /\ StorefrontInv /\ StorefrontInv'
  BY DEF Becomes, EarningInv, SaleInv, CheckoutInv, StorefrontInv, RequestsSane
<1>1. SaleInv
  BY DEF EarningInv
<1>2. \A s \in Request : Handling(req[s]) => req[s].order \in Book!OrderIds /\ req[s].order \in Order
  BY <1>1, HandlingOrders
<1>3. /\ \A o \in Book!OrderIds : o \in Order
      /\ \A o \in Book!OrderIds' : o \in Order
      /\ Book!OrderIds \subseteq Book!OrderIds'
  <2>1. orders' \in Seq(Book!OrderRow) /\ Len(orders') <= MaxOrders
    BY <1>0 DEF StorefrontInv, BookSane
  <2>2. \A o \in Book!OrderIds' : o \in Order
    BY <2>1, StorefrontAssumption DEF Book!OrderIds, Order
  <2> QED
    BY <1>0, <2>2, IdsAreNumbers DEF SaleMove, OtherRows, StorefrontInv
<1>4. ASSUME NEW o \in Order, o \notin Book!OrderIds
      PROVE  CreditsFor(o) = {} /\ CreditsFor(o)' = {}
  <2>1. SameCredits(o) /\ CreditsFor(o) = {}
    BY <1>2, <1>4 DEF CreditMove, EarningInv
  <2> QED
    BY <2>1 DEF SameCredits
<1>5. ASSUME NEW o \in Book!OrderIds'
      PROVE  CreditsFit(o)'
  <2>1. CASE o \in Book!OrderIds
    <3>1. CASE SameCredits(o)
      BY <2>1, <3>1 DEF CreditMove, EarningInv, CreditsFit, SameCredits
    <3>2. CASE ~SameCredits(o)
      BY <1>3, <2>1, <3>2 DEF CreditMove
    <3> QED
      BY <3>1, <3>2
  <2>2. CASE o \notin Book!OrderIds
    BY <1>3, <1>4, <2>2 DEF CreditsFit
  <2> QED
    BY <2>1, <2>2
<1>6. ASSUME NEW s \in Request, Handling(req'[s])
      PROVE  CreditSoFar(req[s], jobs[s])'
  <2>1. PICK y, j : y = req'[s] /\ j = jobs'[s]
    OBVIOUS
  <2>2. y.order \in Order
    BY <1>0, <1>2, <1>6, <2>1 DEF CreditMove
  <2>3. y.pc # "accrue" => CreditsFor(y.order)' = {}
    <3>1. CASE s = r
      <4>1. CASE y.order \notin Book!OrderIds
        BY <1>4, <2>2, <4>1
      <4>2. CASE y.order \in Book!OrderIds /\ y.pc # "accrue"
        <5>1. /\ Handling(req[r]) /\ y.order = req[r].order /\ req[r].pc # "accrue"
              /\ SameCredits(y.order)
          BY <1>0, <1>6, <2>1, <2>2, <3>1, <4>2 DEF CreditMove
        <5>2. CreditsFor(y.order) = {}
          BY <5>1 DEF EarningInv, CreditSoFar
        <5> QED
          BY <5>1, <5>2 DEF SameCredits
      <4> QED
        BY <4>1, <4>2
    <3>2. CASE s # r
      <4>1. /\ req[s] = y /\ Handling(req[s]) /\ y.order \in Book!OrderIds
            /\ ~(Handling(req[r]) /\ y.order = req[r].order)
        BY <1>0, <1>1, <1>2, <1>6, <2>1, <3>2 DEF SaleInv, OwnHands
      <4>2. SameCredits(y.order) /\ (y.pc # "accrue" => CreditsFor(y.order) = {})
        BY <2>2, <4>1 DEF CreditMove, EarningInv, CreditSoFar
      <4> QED
        BY <4>2 DEF SameCredits
    <3> QED
      BY <3>1, <3>2
  <2>4. y.pc = "credit" =>
          /\ y.order \in Book!OrderIds
          /\ j.order = y.order /\ j.amount = Acc!Commission(orders[y.order].amount)
    <3>1. CASE s = r
      BY <1>0, <1>2, <1>6, <2>1, <3>1 DEF CreditMove
    <3>2. CASE s # r
      <4>1. req[s] = y /\ jobs[s] = j /\ Handling(req[s])
        BY <1>0, <1>6, <2>1, <3>2 DEF CreditMove
      <4> QED
        BY <1>2, <4>1 DEF EarningInv, CreditSoFar
    <3> QED
      BY <3>1, <3>2
  <2>5. CreditSoFar(y, j)'
    BY <2>3, <2>4 DEF CreditSoFar, CreditMove
  <2>6. \A z, k : z = req'[s] /\ k = jobs'[s] /\ CreditSoFar(z, k)' => CreditSoFar(req[s], jobs[s])'
    BY DEF CreditSoFar, CreditsFor
  <2> QED
    BY <2>1, <2>5, <2>6
<1>7. \A o \in Order \ Book!OrderIds' : CreditsFor(o)' = {}
  BY <1>3, <1>4
<1> QED
  BY <1>5, <1>6, <1>7 DEF EarningInv, Handling

\* No step changes what an order costs.
LEMMA AmountsStay ==
  ASSUME CheckoutInv, NEW r \in Request, NEW q, Becomes(r, q), Does(r, q)
  PROVE  \A o \in Book!OrderIds : orders'[o].amount = orders[o].amount
<1>1. CASE ~Charges(r, q) /\ ~Links(r, q) /\ ~Refunds(r, q)
  BY <1>1, QuietStep DEF QuietMoney
<1>2. CASE Charges(r, q) \/ Links(r, q) \/ Refunds(r, q)
  BY <1>2 DEF Charges, Links, Refunds, Enters
<1> QED
  BY <1>1, <1>2

\* A charge or a refund credits nobody.
LEMMA EntersNoCredit ==
  ASSUME StorefrontInv, NEW r \in Request, NEW q, NEW pc, NEW next, NEW a \in Int,
         NEW typ \in {"consume", "refund"}, NEW o \in Nat, o \in Order, req[r].user \in User,
         Enters(r, q, pc, next, a, typ, o)
  PROVE  \A p : SameCredits(p)
<1>1. Acc!AccountsTypeOK /\ Acc!Post(req[r].user, typ, a, o, NoUser) /\ typ \in Acc!EntryType
  BY DEF StorefrontInv, Enters, Acc!EntryType
<1>2. PICK u \in User : u = req[r].user
  OBVIOUS
<1>3. PICK n : NewEntry(n, u, typ, a, o)
  BY <1>1, <1>2, Posted
<1> QED
  BY <1>3, CreditAdds

\* The credit of a commission.
LEMMA CreditsMove ==
  ASSUME EarningInv, NEW r \in Request, NEW q, Credits(r, q)
  PROVE  CreditMove(r, q)
<1>1. StorefrontInv /\ Acc!AccountsTypeOK /\ SaleInv
  BY DEF EarningInv, SaleInv, CheckoutInv, StorefrontInv
<1>2. /\ Handling(req[r]) /\ req[r].pc = "credit" /\ q.pc = "accrue" /\ q.order = req[r].order
      /\ UNCHANGED orders /\ jobs[r] \in Acc!Job
      /\ Acc!Post(jobs[r].referrer, "referral", jobs[r].amount, jobs[r].order, jobs[r].buyer)
      /\ jobs' = [jobs EXCEPT ![r].step = "accrue"]
  BY DEF Credits, Handling, Ordering, SameHand
<1>3. PICK o, u, a, b : o = jobs[r].order /\ u = jobs[r].referrer /\ a = jobs[r].amount
                        /\ b = jobs[r].buyer
  OBVIOUS
<1>4. /\ o \in Order /\ o \in Nat /\ u \in User /\ a \in Int /\ b \in User
      /\ "referral" \in Acc!EntryType
  BY <1>2, <1>3, StorefrontAssumption DEF Acc!Job, Order, Acc!EntryType
<1>5. PICK n : NewEntry(n, u, "referral", a, o)
  BY <1>1, <1>2, <1>3, <1>4, Posted
<1>6. /\ o = req[r].order /\ o \in Book!OrderIds /\ CreditsFor(o) = {}
      /\ a = Acc!Commission(orders[o].amount) /\ orders[o].status \in SoldStatus
  <2>1. CreditSoFar(req[r], jobs[r]) /\ RowSoFar(req[r])
    BY <1>1, <1>2, HandlingOrders DEF EarningInv
  <2> QED
    BY <1>1, <1>2, <1>3, <2>1, HandlingOrders DEF CreditSoFar, RowSoFar, Served, EndPath
<1>7. /\ \A p : p # o => SameCredits(p)
      /\ \A e : e \in CreditsFor(o)' <=> e = n
      /\ EntryAt(n)'.amount = a
  BY <1>5, <1>6, CreditAdds DEF NewEntry
<1>8. CreditsFit(o)'
  BY <1>2, <1>6, <1>7 DEF CreditsFit
<1>9. \A s \in Request \ {r} : jobs'[s] = jobs[s]
  BY <1>1, <1>2 DEF Acc!AccountsTypeOK
<1> QED
  BY <1>2, <1>6, <1>7, <1>8, <1>9 DEF CreditMove

LEMMA EarningStep ==
  ASSUME EarningInv, NEW r \in Request, NEW q, Becomes(r, q), Does(r, q), SaleMove(r, q)
  PROVE  CreditMove(r, q)
<1> DEFINE x == req[r]
<1>1. /\ StorefrontInv /\ Acc!AccountsTypeOK /\ SaleInv /\ CheckoutInv /\ IdleReq \notin Busy
      /\ x \in Busy => x.kind \in {"buy", "order"}
  BY IdleHolds DEF EarningInv, SaleInv, CheckoutInv, StorefrontInv, OnlyBuyers
<1>2. \A o \in Book!OrderIds : orders'[o].amount = orders[o].amount
  BY <1>1, AmountsStay
<1>3. Handling(x) /\ x.pc # "accrue" => CreditsFor(x.order) = {}
  BY DEF EarningInv, CreditSoFar
<1>4. ASSUME UNCHANGED jobs, \A o \in Order : SameCredits(o), UNCHANGED orders \/ x.pc # "accrue",
             Handling(q) => /\ q.pc # "credit"
                            /\ Handling(x) /\ q.order = x.order /\ x.pc # "accrue"
      PROVE  CreditMove(r, q)
  BY <1>2, <1>3, <1>4 DEF CreditMove, SaleMove, OtherRows
<1>5. CASE Asks(r, q) \/ Quits(r, q) \/ Prepares(r, q)
  <2>1. ~Handling(q) /\ UNCHANGED <<jobs, journal, orders>>
    BY <1>1, <1>5 DEF Asks, Quits, Prepares, Still, Handling, Ordering, SaleMove, Hands
  <2> QED
    BY <1>4, <2>1, CreditsStay
<1>6. CASE Places(r, q)
  <2>1. PICK o : /\ NewRow(o, x.copy)
                 /\ \/ q = IdleReq
                    \/ q.order = o /\ q.pc = (IF x.kind = "buy" THEN "charge" ELSE "payrow")
    BY <1>6 DEF Places
  <2>2. UNCHANGED <<journal, jobs>> /\ x.pc = "create"
    BY <1>6 DEF Places
  <2>3. Handling(q) => q.order \in Order \ Book!OrderIds /\ q.pc # "credit"
    BY <1>1, <2>1 DEF NewRow, Handling
  <2>4. \A p \in Book!OrderIds : orders'[p].status = orders[p].status
    BY <2>1 DEF NewRow
  <2> QED
    BY <1>2, <2>2, <2>3, <2>4, CreditsStay DEF CreditMove
<1>7. CASE Moves(r, q) \/ Skips(r, q)
  <2>1. /\ UNCHANGED <<jobs, journal, orders>> /\ x \in Busy /\ q.order = x.order
        /\ x.pc \notin Ordering \cup {"accrue"} /\ q.pc # "credit"
    BY <1>7 DEF Moves, Skips, AfterLink, Still, SameHand, Ordering
  <2> QED
    BY <1>4, <2>1, CreditsStay DEF Handling
<1>8. CASE Reads(r, q)
  BY <1>1, <1>8 DEF Reads
<1>9. CASE Receives(r, q)
  <2>1. /\ UNCHANGED <<jobs, journal, orders>> /\ x \in Busy /\ q.order = x.order
        /\ x.pc = "deliver" /\ q.pc # "credit"
    BY <1>9 DEF Receives, Still, Delivers
  <2> QED
    BY <1>4, <2>1, CreditsStay DEF Handling, Ordering
<1>10. CASE Charges(r, q) \/ Links(r, q) \/ Refunds(r, q)
  <2>1. /\ UNCHANGED <<jobs, orders>> /\ x \in Busy /\ q.order = x.order
        /\ x.pc \in {"charge", "link", "refund"} /\ q.pc # "credit"
    BY <1>10 DEF Charges, Links, Refunds, Enters, SameHand, AfterLink
  <2>2. Handling(x)
    BY <2>1 DEF Handling, Ordering
  <2>3. PICK o, a : o = x.order /\ a = x.copy.amount
    OBVIOUS
  <2>4. o \in Order /\ o \in Nat /\ a \in Nat /\ x.user \in User
    BY <1>1, <2>2, <2>3, HandlingOrders DEF Sane, Kinds
  <2>5. PICK m \in Int : m = -a
    BY <2>4
  <2>6. 0 \in Int /\ a \in Int
    BY <2>4
  <2>7. \A p : SameCredits(p)
    BY <1>1, <1>10, <2>3, <2>4, <2>5, <2>6, EntersNoCredit DEF Charges, Links, Refunds
  <2> QED
    BY <1>4, <2>1, <2>2, <2>7
<1>11. CASE PayCharges(r, q)
  BY <1>1, <1>11 DEF PayCharges, Enters, Sane, Kinds, Ordering, BuyPath, EndPath
<1>12. CASE Earns(r, q)
  <2>1. /\ UNCHANGED <<journal, orders>> /\ Handling(x) /\ q.order = x.order
        /\ x.pc = "commission" /\ q.pc = "credit"
    BY <1>12 DEF Earns, SameHand, Handling, Ordering
  <2>2. PICK job \in Acc!Job :
          /\ job.order = x.order /\ job.amount = Acc!Commission(x.copy.amount)
          /\ jobs' = [jobs EXCEPT ![r] = job]
    BY <1>12 DEF Earns
  <2>3. x.copy.amount = orders[x.order].amount
    BY <1>1, <2>1, HandlingOrders DEF SameOrder
  <2>4. jobs'[r] = job /\ \A s \in Request \ {r} : jobs'[s] = jobs[s]
    BY <1>1, <2>2 DEF Acc!AccountsTypeOK
  <2> QED
    BY <2>1, <2>2, <2>3, <2>4, CreditsStay DEF CreditMove
<1>13. CASE Credits(r, q)
  BY <1>13, CreditsMove
<1>14. CASE Accrues(r, q)
  <2>1. UNCHANGED <<journal, orders>> /\ ~Handling(q)
    BY <1>1, <1>14 DEF Accrues, Handling
  <2>2. \A s \in Request \ {r} : jobs'[s] = jobs[s]
    BY <1>1, <1>14 DEF Accrues, Acc!AccountsTypeOK
  <2> QED
    BY <2>1, <2>2, CreditsStay DEF CreditMove
<1>15. CASE WritesBack(r, q) \/ SavesRefund(r, q)
  <2>1. UNCHANGED <<jobs, journal>> /\ x.pc # "accrue" /\ ~Handling(q)
    BY <1>1, <1>15 DEF WritesBack, SavesRefund, RowBecomes, Handling
  <2> QED
    BY <1>4, <2>1, CreditsStay
<1>16. CASE Saves(r, q)
  <2>1. /\ UNCHANGED <<jobs, journal>> /\ x.pc = "save" /\ x \in Busy
        /\ q.order = x.order /\ q.pc = "link"
    BY <1>16 DEF Saves, RowBecomes, SameHand
  <2> QED
    BY <1>4, <2>1, CreditsStay DEF Handling, Ordering
<1>17. CASE SavesPaid(r, q)
  BY <1>1, <1>17 DEF SavesPaid
<1> QED
  BY <1>5, <1>6, <1>7, <1>8, <1>9, <1>10, <1>11, <1>12, <1>13, <1>14, <1>15, <1>16, <1>17
  DEF Does

-----------------------------------------------------------------------------
(* The steps of no request, the start, and the theorem.                    *)

\* The server stops, or nothing happens: rows and entries stay, and a request
\* stays as it is or is gone.
LEMMA Rests ==
  ASSUME StorefrontInv, Crash \/ UNCHANGED vars
  PROVE  /\ UNCHANGED <<journal, orders>>
         /\ \/ \A r \in Request : req'[r] = IdleReq /\ req'[r] \notin Busy
            \/ req' = req /\ jobs' = jobs
BY IdleHolds DEF Crash, Acc!CrashJobs, vars, bookVars, accountVars

LEMMA SaleInvNext ==
  ASSUME Handlers \subseteq {"buy", "order"}, "number" \notin Answers,
         SaleInv, [Next]_vars
  PROVE  SaleInv'
<1>1. CheckoutInv /\ CheckoutInv' /\ StorefrontInv
  BY CheckoutInvNext DEF SaleInv, CheckoutInv
<1>2. ASSUME NEW r \in Request, Begin(r) \/ Proceed(r) \/ StoreFails(r)
      PROVE  SaleInv'
  <2>1. PICK q : Becomes(r, q) /\ Does(r, q)
    BY <1>1, <1>2, EveryStep
  <2>2. SaleMove(r, q)
    BY <2>1, SaleStep
  <2> QED
    BY <1>1, <2>1, <2>2, HandsKept DEF SaleMove
<1>3. CASE Crash \/ UNCHANGED vars
  <2>1. /\ UNCHANGED orders
        /\ (\A r \in Request : req'[r] \notin Busy) \/ req' = req
    BY <1>1, <1>3, Rests
  <2> QED
    BY <1>1, <2>1 DEF SaleInv, OnlyBuyers, OwnHands, Handling, RowSoFar
<1> QED
  BY <1>2, <1>3 DEF Next

LEMMA SaleInvInit == Init => SaleInv
<1> SUFFICES ASSUME Init PROVE SaleInv
  OBVIOUS
<1>1. \A r \in Request : req[r] \notin Busy
  BY IdleHolds DEF Init
<1> QED
  BY <1>1, CheckoutInvInit DEF SaleInv, OnlyBuyers, OwnHands, Handling

LEMMA EarningInvNext ==
  ASSUME Handlers \subseteq {"buy", "order"}, "number" \notin Answers,
         EarningInv, [Next]_vars
  PROVE  EarningInv'
<1>1. SaleInv /\ SaleInv' /\ StorefrontInv
  BY SaleInvNext DEF EarningInv, SaleInv, CheckoutInv
<1>2. ASSUME NEW r \in Request, Begin(r) \/ Proceed(r) \/ StoreFails(r)
      PROVE  EarningInv'
  <2>1. PICK q : Becomes(r, q) /\ Does(r, q)
    BY <1>1, <1>2, EveryStep
  <2>2. SaleMove(r, q) /\ CreditMove(r, q)
    BY <1>1, <2>1, SaleStep, EarningStep
  <2> QED
    BY <1>1, <2>1, <2>2, CreditsKept
<1>3. CASE Crash \/ UNCHANGED vars
  <2>1. /\ UNCHANGED <<journal, orders>>
        /\ (\A r \in Request : req'[r] \notin Busy) \/ (req' = req /\ jobs' = jobs)
    BY <1>1, <1>3, Rests
  <2>2. \A o : SameCredits(o)
    BY <2>1, CreditsStay
  <2>3. Book!OrderIds' = Book!OrderIds /\ \A o : orders'[o] = orders[o]
    BY <2>1 DEF Book!OrderIds
  <2>4. \A o \in Order \ Book!OrderIds' : CreditsFor(o)' = {}
    BY <2>2, <2>3 DEF EarningInv, SameCredits
  <2>5. \A o \in Book!OrderIds' : CreditsFit(o)'
    BY <2>2, <2>3 DEF EarningInv, CreditsFit, SameCredits
  <2>6. ASSUME NEW r \in Request, Handling(req'[r])
        PROVE  CreditSoFar(req[r], jobs[r])'
    <3>1. PICK y, j : y = req[r] /\ j = jobs[r]
      OBVIOUS
    <3>2. req'[r] = y /\ jobs'[r] = j /\ CreditSoFar(y, j)
      BY <2>1, <2>6, <3>1 DEF Handling, EarningInv
    <3>3. CreditSoFar(y, j)'
      BY <2>2, <2>3, <3>2 DEF CreditSoFar, SameCredits
    <3>4. \A z, k : z = req'[r] /\ k = jobs'[r] /\ CreditSoFar(z, k)'
                      => CreditSoFar(req[r], jobs[r])'
      BY DEF CreditSoFar, CreditsFor
    <3> QED
      BY <3>2, <3>3, <3>4
  <2> QED
    BY <1>1, <2>4, <2>5, <2>6 DEF EarningInv, Handling
<1> QED
  BY <1>2, <1>3 DEF Next

LEMMA EarningInvInit == Init => EarningInv
<1> SUFFICES ASSUME Init PROVE EarningInv
  OBVIOUS
<1>1. SaleInv
  BY SaleInvInit
<1>2. \A u \in User : journal[u] = <<>>
  BY DEF Init, Acc!AccountsInit
<1>3. \A o : CreditsFor(o) = {}
  <2>1. ASSUME NEW e, InJournal(e)
        PROVE  FALSE
    <3>1. e[1] \in User /\ e[2] \in 1 .. MaxEntries /\ e[2] <= Len(journal[e[1]])
      BY <2>1 DEF InJournal
    <3>2. e[2] <= 0 /\ e[2] >= 1 /\ e[2] \in Int
      BY <1>2, <3>1, StorefrontAssumption DEF MaxEntries
    <3> QED
      BY <3>2
  <2> QED
    BY <2>1, EntriesAre
<1>4. Book!OrderIds = {}
  BY DEF Init, Book!BookInit, Book!OrderIds
<1>5. \A r \in Request : ~Handling(req[r])
  BY IdleHolds DEF Init, Handling
<1> QED
  BY <1>1, <1>3, <1>4, <1>5 DEF EarningInv

\* Where orders are placed and paid but finished in no other way, and upstreams
\* return no trade number of their own, a referrer earns at most once for an
\* order, for one whose goods were handed over, on what it cost, whichever calls
\* of the store fail (ProcessOrderCommission at the end of handleOrderCreateV3).
THEOREM CommissionsOnce ==
  ASSUME Handlers \subseteq {"buy", "order"}, "number" \notin Answers
  PROVE  Spec => []CommissionOncePerSale
<1>1. Init => EarningInv
  BY EarningInvInit
<1>2. EarningInv /\ [Next]_vars => EarningInv'
  BY EarningInvNext
<1>3. EarningInv => CommissionOncePerSale
  <2> SUFFICES ASSUME EarningInv, NEW o \in Book!OrderIds
               PROVE  /\ Cardinality(CreditsFor(o)) <= 1
                      /\ \A e \in CreditsFor(o) :
                           /\ orders[o].status \in SoldStatus
                           /\ EntryAt(e).amount = Acc!Commission(orders[o].amount)
    BY DEF CommissionOncePerSale
  <2>1. CreditsFit(o)
    BY DEF EarningInv
  <2>2. CreditsFor(o) = {} \/ \E e : CreditsFor(o) = {e}
    BY <2>1 DEF CreditsFit
  <2>3. Cardinality(CreditsFor(o)) \in {0, 1}
    BY <2>2, FS_EmptySet, FS_Singleton, Zenon
  <2> QED
    BY <2>1, <2>3 DEF CreditsFit
<1> QED
  BY <1>1, <1>2, <1>3, PTL DEF Spec

-----------------------------------------------------------------------------
(* Balance checkout implements OrderPromise.                               *)

\* A delivery that is about to be saved has goods.
PromiseInv ==
  /\ SaleInv
  /\ \A r \in Request : req[r] \in Busy /\ req[r].pc = "save" => req[r].copy.contents # {}

\* What order o has received.
GoodsOf(o) == IF o \in Book!OrderIds THEN orders[o].contents ELSE {}

\* The states of the promise, and its steps.
LEMMA PhaseMoves ==
  ASSUME NEW o \in Order, NEW from, NEW to, PhaseOf(o) = from, PhaseOf(o)' = to,
         \A p \in Order \ {o} : PhaseOf(p)' = PhaseOf(p)
  PROVE  Promise!Step(o, from, to)
BY DEF Promise!Step

LEMMA GoodsStay ==
  ASSUME \A p \in Order : GoodsOf(p)' = GoodsOf(p)
  PROVE  UNCHANGED [o \in Order |-> IF o \in Book!OrderIds THEN orders[o].contents ELSE {}]
BY DEF GoodsOf

\* Order o looks as before.
Alike(o) == PhaseOf(o)' = PhaseOf(o) /\ GoodsOf(o)' = GoodsOf(o)

LEMMA NothingHappens ==
  ASSUME \A o \in Order : Alike(o)
  PROVE  [Promise!PromiseNext]_Promise!promiseVars
<1>1. UNCHANGED [o \in Order |-> PhaseOf(o)]
  BY DEF Alike
<1>2. UNCHANGED [o \in Order |-> IF o \in Book!OrderIds THEN orders[o].contents ELSE {}]
  BY GoodsStay DEF Alike
<1> QED
  BY <1>1, <1>2 DEF Promise!promiseVars

\* An order looks alike while its entries, its status and its contents stay.
LEMMA LooksAlike ==
  ASSUME NEW o, SameEntries(o), o \in Book!OrderIds' <=> o \in Book!OrderIds,
         o \in Book!OrderIds => /\ orders'[o].status = orders[o].status
                                /\ orders'[o].contents = orders[o].contents
  PROVE  Alike(o)
<1>1. \A t : HasEntry(o, t)' <=> HasEntry(o, t)
  BY DEF HasEntry, SameEntries
<1> QED
  BY <1>1 DEF Alike, PhaseOf, GoodsOf


LEMMA OpenStep ==
  ASSUME SaleInv, NEW r \in Request, NEW q, Places(r, q)
  PROVE  [Promise!PromiseNext]_Promise!promiseVars
<1>1. PICK o : NewRow(o, req[r].copy)
  BY DEF Places
<1>2. /\ o \in Order /\ o \notin Book!OrderIds
      /\ Book!OrderIds' = Book!OrderIds \cup {o}
      /\ orders'[o].status = Book!Pending /\ orders'[o].contents = {}
      /\ \A p \in Book!OrderIds : orders'[p] = orders[p]
  BY <1>1 DEF NewRow, Places, Sane, Copies, Ordering
<1>3. \A p : SameEntries(p)
  BY JournalStays DEF Places
<1>4. MoneyEntries(o) = {}
  BY <1>2 DEF SaleInv, CheckoutInv, NamesOrders
<1>5. PhaseOf(o) = "none" /\ PhaseOf(o)' = "open"
  <2>1. ~HasEntry(o, "refund")' /\ ~HasEntry(o, "consume")'
    BY <1>3, <1>4 DEF HasEntry, SameEntries
  <2> QED
    BY <1>2, <2>1 DEF PhaseOf, Book!Pending, Book!Delivered
<1>6. \A p \in Order \ {o} : Alike(p)
  BY <1>2, <1>3, LooksAlike
<1>7. GoodsOf(o)' = GoodsOf(o)
  BY <1>2 DEF GoodsOf
<1>8. Promise!Step(o, "none", "open")
  BY <1>2, <1>5, <1>6, PhaseMoves DEF Alike
<1>9. UNCHANGED [p \in Order |-> IF p \in Book!OrderIds THEN orders[p].contents ELSE {}]
  BY <1>6, <1>7, GoodsStay DEF Alike
<1>10. Promise!Open(o)
  BY <1>8, <1>9 DEF Promise!Open
<1> QED
  BY <1>2, <1>10 DEF Promise!PromiseNext

\* A posting of the balance path touches what its order looks like in one way.
LEMMA GrownLooks ==
  ASSUME StorefrontInv, NEW r \in Request, NEW o, NEW u, NEW typ, NEW a,
         Enlarges(r, o, u, typ, a)
  PROVE  /\ o \in Order /\ o \in Book!OrderIds /\ o \in Book!OrderIds'
         /\ orders'[o] = orders[o] /\ GoodsOf(o)' = GoodsOf(o)
         /\ \A t : HasEntry(o, t)' <=> HasEntry(o, t) \/ t = typ
         /\ \A p \in Order \ {o} : Alike(p)
<1>1. o \in Order /\ o \in Book!OrderIds
  BY IdsAreNumbers DEF Enlarges, StorefrontInv
<1>2. Book!OrderIds' = Book!OrderIds /\ \A p \in Book!OrderIds : orders'[p] = orders[p]
  BY RowsStay DEF Enlarges
<1>3. PICK n : Grown(o, n, u, typ, a)
  BY DEF Enlarges
<1>4. \A t : HasEntry(o, t)' <=> HasEntry(o, t) \/ t = typ
  BY <1>3 DEF HasEntry, Grown
<1>5. \A p \in Order \ {o} : Alike(p)
  BY <1>2, LooksAlike DEF Enlarges
<1> QED
  BY <1>1, <1>2, <1>4, <1>5 DEF GoodsOf

\* A posting is a step of the promise, if it changes the phase.
LEMMA PostingMoves ==
  ASSUME StorefrontInv, NEW r \in Request, NEW o, NEW u, NEW typ, NEW a,
         Enlarges(r, o, u, typ, a),
         NEW from, NEW to, PhaseOf(o) = from, PhaseOf(o)' = to
  PROVE  /\ Promise!Step(o, from, to) /\ o \in Order
         /\ UNCHANGED [p \in Order |-> IF p \in Book!OrderIds THEN orders[p].contents ELSE {}]
<1>1. o \in Order /\ GoodsOf(o)' = GoodsOf(o) /\ \A p \in Order \ {o} : Alike(p)
  BY GrownLooks
<1>2. Promise!Step(o, from, to)
  BY <1>1, PhaseMoves DEF Alike
<1>3. \A p \in Order : GoodsOf(p)' = GoodsOf(p)
  BY <1>1 DEF Alike
<1> QED
  BY <1>1, <1>2, <1>3, GoodsStay

LEMMA ChargeKeepsPromise ==
  ASSUME SaleInv, NEW r \in Request, NEW q, Charges(r, q)
  PROVE  [Promise!PromiseNext]_Promise!promiseVars
<1>0. StorefrontInv /\ CheckoutInv
  BY DEF SaleInv, CheckoutInv
<1>1. Buying(req[r]) /\ req[r].pc = "charge" /\ req[r].copy.amount \in Nat
  BY <1>0, PostingBuyers DEF Charges
<1>2. PICK a \in Int : a = -req[r].copy.amount
  BY <1>1
<1>3. PICK o, u : Enlarges(r, o, u, "consume", a)
  BY <1>0, <1>1, <1>2, Entered DEF Charges
<1>4. MoneyEntries(o) = {} /\ orders[o].status = Book!Pending
  BY <1>1, <1>3 DEF SaleInv, Handling, Buying, Ordering, RowSoFar, Unserved, Enlarges, Progress
<1>5. PhaseOf(o) = "open" /\ PhaseOf(o)' = "charged"
  <2>1. ~HasEntry(o, "refund") /\ ~HasEntry(o, "consume")
    BY <1>4 DEF HasEntry
  <2>2. ~HasEntry(o, "refund")' /\ HasEntry(o, "consume")'
    BY <1>0, <1>3, <2>1, GrownLooks
  <2>3. o \in Book!OrderIds /\ o \in Book!OrderIds' /\ orders'[o] = orders[o]
    BY <1>0, <1>3, GrownLooks
  <2> QED
    BY <1>4, <2>1, <2>2, <2>3 DEF PhaseOf, Book!Pending, Book!Delivered
<1>6. Promise!Charge(o) /\ o \in Order
  BY <1>0, <1>3, <1>5, PostingMoves DEF Promise!Charge
<1> QED
  BY <1>6 DEF Promise!PromiseNext

LEMMA LinkKeepsPromise ==
  ASSUME SaleInv, NEW r \in Request, NEW q, Links(r, q)
  PROVE  [Promise!PromiseNext]_Promise!promiseVars
<1>0. StorefrontInv /\ CheckoutInv
  BY DEF SaleInv, CheckoutInv
<1>1. Buying(req[r]) /\ req[r].pc = "link"
  BY <1>0, PostingBuyers DEF Links
<1>2. PICK a \in Int : a = 0
  OBVIOUS
<1>3. PICK o, u : Enlarges(r, o, u, "consume", a)
  BY <1>0, <1>1, <1>2, Entered DEF Links
<1>4. HasEntry(o, "consume") /\ HasEntry(o, "consume")'
  <2>1. ChargedTo(o, u, req[r].copy.amount)
    BY <1>1, <1>3 DEF Enlarges, Progress, Charged
  <2> QED
    BY <1>0, <1>3, <2>1, GrownLooks DEF ChargedTo, HasEntry
<1>5. /\ o \in Book!OrderIds /\ o \in Book!OrderIds' /\ orders'[o] = orders[o]
      /\ HasEntry(o, "refund")' <=> HasEntry(o, "refund")
      /\ GoodsOf(o)' = GoodsOf(o) /\ \A p \in Order \ {o} : Alike(p)
  BY <1>0, <1>3, GrownLooks
<1>6. Alike(o)
  BY <1>4, <1>5 DEF Alike, PhaseOf
<1> QED
  BY <1>5, <1>6, NothingHappens

LEMMA RefundKeepsPromise ==
  ASSUME SaleInv, NEW r \in Request, NEW q, Refunds(r, q)
  PROVE  [Promise!PromiseNext]_Promise!promiseVars
<1>0. StorefrontInv /\ CheckoutInv
  BY DEF SaleInv, CheckoutInv
<1>1. Buying(req[r]) /\ req[r].pc = "refund" /\ req[r].copy.amount \in Nat
  BY <1>0, PostingBuyers DEF Refunds
<1>2. PICK a \in Int : a = req[r].copy.amount
  BY <1>1
<1>3. PICK o, u : Enlarges(r, o, u, "refund", a)
  BY <1>0, <1>1, <1>2, Entered DEF Refunds
<1>4. /\ orders[o].status = Book!Pending
      /\ HasEntry(o, "consume") /\ ~HasEntry(o, "refund")
  <2>1. orders[o].status = Book!Pending
    BY <1>1, <1>3 DEF SaleInv, Handling, Buying, Ordering, RowSoFar, Unserved, Enlarges
  <2>2. ChargedTo(o, u, a) /\ ~HasEntry(o, "refund")
    BY <1>1, <1>2, <1>3 DEF Enlarges, Progress, Charged
  <2> QED
    BY <2>1, <2>2 DEF ChargedTo, HasEntry
<1>5. PhaseOf(o) = "charged" /\ PhaseOf(o)' = "refunded"
  <2>1. HasEntry(o, "refund")' /\ o \in Book!OrderIds /\ o \in Book!OrderIds'
    BY <1>0, <1>3, GrownLooks
  <2> QED
    BY <1>4, <2>1 DEF PhaseOf, Book!Pending, Book!Delivered
<1>6. Promise!Refund(o) /\ o \in Order
  BY <1>0, <1>3, <1>5, PostingMoves DEF Promise!Refund
<1> QED
  BY <1>6 DEF Promise!PromiseNext

\* The goods a delivery saves are in no other order's hands.
LEMMA SaveKeepsPromise ==
  ASSUME PromiseInv, NEW r \in Request, NEW q, Saves(r, q)
  PROVE  [Promise!PromiseNext]_Promise!promiseVars
<1>0. StorefrontInv /\ CheckoutInv /\ SaleInv
  BY DEF PromiseInv, SaleInv, CheckoutInv
<1>1. PICK x, o : x = req[r] /\ o = x.order
  OBVIOUS
<1>2. /\ x \in Busy /\ x.pc = "save" /\ Handling(x) /\ x.moved = FALSE /\ x.kind = "buy"
      /\ x.copy.status = Book!Delivered /\ x.copy.contents # {}
      /\ RowBecomes(o, x.copy)
  <2>1. x \in Busy /\ x.pc = "save" /\ Sane(x)
    BY <1>1 DEF Saves
  <2>2. x.moved = FALSE /\ x.kind \in {"buy", "order"}
    BY <1>0, <1>1, <2>1 DEF SaleInv, OnlyBuyers
  <2>3. x.kind = "buy" /\ x.copy.status = Book!Delivered
    BY <2>1, <2>2 DEF Sane, Kinds, Copies
  <2>4. RowBecomes(o, x.copy)
    BY <1>1, <2>2 DEF Saves
  <2> QED
    BY <1>1, <2>1, <2>2, <2>3, <2>4 DEF Handling, Ordering, PromiseInv
<1>3. /\ o \in Book!OrderIds /\ o \in Order /\ orders[o].status = Book!Pending
      /\ x.copy.contents \in SUBSET Int
  BY <1>0, <1>1, <1>2, HandlingOrders DEF RowSoFar, Unserved, Book!OrderRow, Goods
<1>4. /\ Book!OrderIds' = Book!OrderIds /\ orders'[o] = x.copy
      /\ \A p \in Book!OrderIds \ {o} : orders'[p] = orders[p]
      /\ \A p : SameEntries(p)
  BY <1>2, JournalStays DEF RowBecomes
<1>5. PhaseOf(o) = "charged" /\ PhaseOf(o)' = "delivered"
  <2>1. ChargedTo(o, x.user, x.copy.amount) /\ ~HasEntry(o, "refund")
    BY <1>0, <1>1, <1>2 DEF CheckoutInv, Buying, BuyPath, Progress, Charged
  <2>2. HasEntry(o, "consume") /\ ~HasEntry(o, "refund")'
    BY <1>4, <2>1 DEF ChargedTo, HasEntry, SameEntries
  <2> QED
    BY <1>2, <1>3, <1>4, <2>1, <2>2 DEF PhaseOf, Book!Pending, Book!Delivered
<1>6. \A p \in Order \ {o} : Alike(p)
  BY <1>4, LooksAlike
<1>7. Promise!Step(o, "charged", "delivered")
  BY <1>3, <1>5, <1>6, PhaseMoves DEF Alike
<1>8. GoodsOf(o)' = x.copy.contents
  BY <1>3, <1>4 DEF GoodsOf
<1>9. ASSUME NEW p \in Order \ {o}
      PROVE  GoodsOf(p)' = GoodsOf(p) /\ GoodsOf(p) \cap x.copy.contents = {}
  <2>1. ASSUME NEW g \in GoodsOf(p), g \in x.copy.contents
        PROVE  FALSE
    <3>1. g \in Int
      BY <1>3, <2>1
    <3>2. Holds(p, g)
      BY <2>1 DEF GoodsOf, Holds
    <3>3. Holds(o, g)
      BY <1>1, <1>2, <2>1 DEF Holds, AtHand, Reading
    <3> QED
      BY <1>0, <1>3, <1>9, <3>1, <3>2, <3>3 DEF StorefrontInv, GoodsSane
  <2> QED
    BY <1>6, <2>1 DEF Alike
<1>10. Promise!Deliver(o)
  <2>1. PICK now, then :
          /\ now = [p \in Order |-> IF p \in Book!OrderIds THEN orders[p].contents ELSE {}]
          /\ then = [p \in Order |-> IF p \in Book!OrderIds' THEN orders'[p].contents ELSE {}]
    OBVIOUS
  <2>2. then[o] \in (SUBSET Int) \ {{}}
    BY <1>2, <1>3, <1>8, <2>1 DEF GoodsOf
  <2>3. \A p \in Order : now[p] = GoodsOf(p) /\ then[p] = GoodsOf(p)'
    BY <2>1 DEF GoodsOf
  <2>4. \A p \in Order \ {o} : then[p] = now[p] /\ now[p] \cap then[o] = {}
    BY <1>3, <1>8, <1>9, <2>3
  <2> QED
    BY <1>7, <2>1, <2>2, <2>4 DEF Promise!Deliver, Goods
<1> QED
  BY <1>3, <1>10 DEF Promise!PromiseNext

\* A late copy changes nothing that the promise shows.
LEMMA WriteKeepsPromise ==
  ASSUME SaleInv, NEW r \in Request, NEW q, WritesBack(r, q) \/ SavesRefund(r, q)
  PROVE  [Promise!PromiseNext]_Promise!promiseVars
<1>0. StorefrontInv /\ CheckoutInv
  BY DEF SaleInv, CheckoutInv
<1>1. PICK x, o : x = req[r] /\ o = x.order
  OBVIOUS
<1>2. /\ x \in Busy /\ x.pc \in {"paylink", "saverefund"} /\ Sane(x) /\ Handling(x)
      /\ UNCHANGED journal
  BY <1>1 DEF WritesBack, SavesRefund, RowBecomes, Handling, Ordering
<1>3. orders[o].status = Book!Pending /\ orders[o].contents = {} /\ o \in Book!OrderIds
  BY <1>0, <1>1, <1>2, HandlingOrders DEF RowSoFar, Unserved, PayPath
<1>4. PICK copy : /\ RowBecomes(o, copy) /\ copy.contents = {}
                  /\ copy.status # Book!Delivered
  <2>1. CASE WritesBack(r, q)
    <3>1. x.copy.status = Book!Pending /\ x.copy.contents = {} /\ RowBecomes(o, x.copy)
      BY <1>0, <1>1, <1>2, <2>1, HandlingOrders
      DEF WritesBack, Sane, Copies, PayPath, RowSoFar
    <3> QED
      BY <3>1 DEF Book!Pending, Book!Delivered
  <2>2. CASE SavesRefund(r, q)
    <3>1. x.copy.contents = {}
      BY <1>1, <1>2, <2>2 DEF SavesRefund, Sane, Copies
    <3>2. PICK copy : /\ RowBecomes(o, copy) /\ copy.contents = x.copy.contents
                      /\ copy.status = Book!Refunded
      BY <1>1, <2>2 DEF SavesRefund
    <3> QED
      BY <3>1, <3>2 DEF Book!Refunded, Book!Delivered
  <2> QED
    BY <2>1, <2>2, <1>2, <1>1 DEF WritesBack, SavesRefund
<1>5. \A p : SameEntries(p)
  BY <1>2, JournalStays
<1>6. /\ Book!OrderIds' = Book!OrderIds /\ orders'[o] = copy
      /\ \A p \in Book!OrderIds \ {o} : orders'[p] = orders[p]
  BY <1>4 DEF RowBecomes
<1>7. Alike(o)
  <2>1. \A t : HasEntry(o, t)' <=> HasEntry(o, t)
    BY <1>5 DEF HasEntry, SameEntries
  <2>2. GoodsOf(o)' = GoodsOf(o)
    BY <1>3, <1>4, <1>6 DEF GoodsOf
  <2> QED
    BY <1>3, <1>4, <1>6, <2>1, <2>2 DEF Alike, PhaseOf, Book!Pending, Book!Delivered
<1>8. \A p \in Order \ {o} : Alike(p)
  BY <1>5, <1>6, LooksAlike
<1> QED
  BY <1>7, <1>8, NothingHappens

LEMMA StepKeepsPromise ==
  ASSUME PromiseInv, NEW r \in Request, NEW q, Becomes(r, q), Does(r, q)
  PROVE  [Promise!PromiseNext]_Promise!promiseVars
<1>1. SaleInv /\ CheckoutInv
  BY DEF PromiseInv, SaleInv
<1>2. ASSUME UNCHANGED orders, ~Charges(r, q), ~Links(r, q), ~Refunds(r, q)
      PROVE  [Promise!PromiseNext]_Promise!promiseVars
  <2>1. \A o \in Order : SameEntries(o)
    BY <1>1, <1>2, QuietStep DEF QuietMoney
  <2>2. \A o \in Order : Alike(o)
    BY <1>2, <2>1, RowsStay, LooksAlike
  <2> QED
    BY <2>2, NothingHappens
<1>3. CASE Charges(r, q) \/ Links(r, q) \/ Refunds(r, q)
  BY <1>1, <1>3, ChargeKeepsPromise, LinkKeepsPromise, RefundKeepsPromise
<1>4. CASE Places(r, q)
  BY <1>1, <1>4, OpenStep
<1>5. CASE Saves(r, q)
  BY <1>5, SaveKeepsPromise
<1>6. CASE WritesBack(r, q) \/ SavesRefund(r, q)
  BY <1>1, <1>6, WriteKeepsPromise
<1>7. CASE SavesPaid(r, q)
  BY <1>1, <1>7 DEF SavesPaid, SaleInv, OnlyBuyers
<1>8. CASE \/ Asks(r, q) \/ Quits(r, q) \/ Prepares(r, q) \/ Moves(r, q) \/ Reads(r, q)
           \/ Skips(r, q) \/ Receives(r, q) \/ PayCharges(r, q) \/ Earns(r, q) \/ Credits(r, q) \/ Accrues(r, q)
  <2>1. UNCHANGED orders
    BY <1>8 DEF Asks, Quits, Prepares, Moves, Reads, Receives, PayCharges, Enters, Earns,
      Skips, Credits, Accrues, Still
  <2> QED
    BY <1>2, <1>3, <2>1
<1> QED
  BY <1>3, <1>4, <1>5, <1>6, <1>7, <1>8 DEF Does

\* Only an answer with goods is saved, when no upstream refuses.
LEMMA SavesGoods ==
  ASSUME "refusal" \notin Answers, NEW r \in Request, NEW q, Does(r, q), q \in Busy, q.pc = "save"
  PROVE  q.copy.contents # {}
<1>1. IdleReq \notin Busy /\ AfterLink(req[r]) # "save"
  BY IdleHolds DEF AfterLink
<1>2. Receives(r, q)
  BY <1>1 DEF Does, Asks, Reading, Quits, Prepares, Places, Moves, Skips, Reads, Charges, Links, Refunds,
    PayCharges, Enters, Earns, Credits, Accrues, WritesBack, Saves, SavesRefund, SavesPaid, EndPath
<1> QED
  BY <1>2 DEF Receives, Delivers

LEMMA PromiseInvNext ==
  ASSUME Handlers \subseteq {"buy", "order"}, {"number", "refusal"} \cap Answers = {},
         PromiseInv, [Next]_vars
  PROVE  PromiseInv' /\ [Promise!PromiseNext]_Promise!promiseVars
<1>1. /\ SaleInv /\ SaleInv' /\ CheckoutInv /\ StorefrontInv
  BY SaleInvNext DEF PromiseInv, SaleInv, CheckoutInv
<1>2. ASSUME NEW r \in Request, Begin(r) \/ Proceed(r) \/ StoreFails(r)
      PROVE  PromiseInv' /\ [Promise!PromiseNext]_Promise!promiseVars
  <2>1. PICK q : Becomes(r, q) /\ Does(r, q)
    BY <1>1, <1>2, EveryStep
  <2>2. [Promise!PromiseNext]_Promise!promiseVars
    BY <2>1, StepKeepsPromise
  <2>3. req'[r] = q /\ \A s \in Request \ {r} : req'[s] = req[s]
    BY <1>1, <2>1 DEF Becomes, StorefrontInv, RequestsSane
  <2>4. q \in Busy /\ q.pc = "save" => q.copy.contents # {}
    BY <2>1, SavesGoods
  <2> QED
    BY <1>1, <2>2, <2>3, <2>4 DEF PromiseInv
<1>3. CASE Crash \/ UNCHANGED vars
  <2>1. /\ UNCHANGED <<journal, orders>>
        /\ (\A r \in Request : req'[r] \notin Busy) \/ req' = req
    BY <1>1, <1>3, Rests
  <2>2. \A o \in Order : Alike(o)
    BY <2>1, JournalStays, RowsStay, LooksAlike
  <2>3. [Promise!PromiseNext]_Promise!promiseVars
    BY <2>2, NothingHappens
  <2> QED
    BY <1>1, <2>1, <2>3 DEF PromiseInv
<1> QED
  BY <1>2, <1>3 DEF Next

LEMMA PromiseInvInit == Init => PromiseInv /\ Promise!PromiseInit
<1> SUFFICES ASSUME Init PROVE PromiseInv /\ Promise!PromiseInit
  OBVIOUS
<1>1. \A r \in Request : req[r] \notin Busy
  BY IdleHolds DEF Init
<1>2. Book!OrderIds = {}
  BY DEF Init, Book!BookInit, Book!OrderIds
<1>3. \A o \in Order : PhaseOf(o) = "none"
  BY <1>2 DEF PhaseOf
<1>4. Promise!PromiseInit
  BY <1>2, <1>3 DEF Promise!PromiseInit
<1> QED
  BY <1>1, <1>4, SaleInvInit DEF PromiseInv

\* Where orders are placed and paid but finished in no other way, and upstreams
\* answer with goods or an error, balance checkout implements OrderPromise
\* under every interleaving, restart and failed call of the store: every step of
\* the server is a step of the promise or changes nothing it shows (the "buy"
\* path of handleOrderCreateV3).
THEOREM CheckoutImplementsPromise ==
  ASSUME Handlers \subseteq {"buy", "order"}, {"number", "refusal"} \cap Answers = {}
  PROVE  Spec => CheckoutKeepsPromise
<1>1. Init => PromiseInv /\ Promise!PromiseInit
  BY PromiseInvInit
<1>2. PromiseInv /\ [Next]_vars => PromiseInv' /\ [Promise!PromiseNext]_Promise!promiseVars
  BY PromiseInvNext
<1> QED
  BY <1>1, <1>2, PTL DEF Spec, CheckoutKeepsPromise, Promise!PromiseSafety
=============================================================================
