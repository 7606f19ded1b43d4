----------------------------- MODULE CheckoutProofs -----------------------------
(***************************************************************************)
(* The theorems about the money of orders: what a checkout charges, refunds *)
(* and pays as commission, how far it overdraws, and that it keeps the      *)
(* promise of OrderPromise.                                                 *)
(***************************************************************************)
EXTENDS StorefrontProofs

-----------------------------------------------------------------------------
(* What a step of request r does to balances, journals, order rows and the  *)
(* request's memory, which becomes q: one operator for each kind of step.   *)

Still == UNCHANGED <<balance, journal, jobs, orders>>

\* The request goes on with the same order in hand.
SameHand(q, x) ==
  /\ q.kind = x.kind /\ q.user = x.user /\ q.order = x.order /\ q.copy = x.copy
  /\ q.moved = x.moved

\* It begins.
Asks(r, q) ==
  /\ Still /\ At(r, "idle") /\ q \in Busy
  /\ \/ /\ q.kind \in {"buy", "order"} \cap Handlers /\ q.pc \in {"bind", "coupon"}
        /\ q.copy \in Book!OrderRow /\ q.copy.num \in Nums /\ q.moved = FALSE
        /\ q.copy.amount = Price[q.copy.commodity] * q.copy.num
     \/ q.kind = "pay" /\ "pay" \in Handlers /\ q.pc = "newpay"
     \/ q.kind = "finish" /\ {"check", "callback", "finish"} \cap Handlers # {} /\ q.pc \in Reading

\* It is answered.
Quits(r, q) == Still /\ q = IdleReq

\* It binds a referrer, takes a coupon or compares the balance.
Prepares(r, q) ==
  LET x == req[r] IN
  /\ Still /\ x \in Busy /\ x.kind \in {"buy", "order"}
  /\ q \in Busy /\ q.kind = x.kind /\ q.user = x.user /\ q.moved = x.moved
  /\ q.copy \in Book!OrderRow
  /\ q.copy.commodity = x.copy.commodity /\ q.copy.num = x.copy.num
  /\ q.copy.amount <= x.copy.amount
  /\ \/ x.pc = "bind" /\ q.pc = "coupon"
     \/ x.pc = "coupon" /\ q.pc = (IF x.kind = "buy" THEN "check" ELSE "create")
     \/ /\ x.pc = "check" /\ q.pc = "create" /\ x.kind = "buy"
        /\ q.copy = x.copy /\ balance[x.user] >= x.copy.amount

NewRow(o, row) ==
  /\ o \in Nat /\ o \in Order /\ o \notin Book!OrderIds
  /\ Book!OrderIds' = Book!OrderIds \cup {o}
  /\ orders'[o] = row
  /\ \A p \in Book!OrderIds : orders'[p] = orders[p]

\* It creates its order.
Places(r, q) ==
  LET x == req[r] IN
  /\ UNCHANGED <<balance, journal, jobs>> /\ x \in Busy /\ Sane(x) /\ x.pc = "create"
  /\ \E o : /\ NewRow(o, x.copy)
            /\ \/ q = IdleReq /\ x.kind = "order"
               \/ /\ q \in Busy /\ q.kind = x.kind /\ q.user = x.user /\ q.copy = x.copy
                  /\ q.moved = x.moved /\ q.order = o
                  /\ q.pc = (IF x.kind = "buy" THEN "charge" ELSE "payrow")

\* It goes on with nothing moved that matters here.
Moves(r, q) ==
  LET x == req[r] IN
  /\ Still /\ x \in Busy /\ Sane(x) /\ q \in Busy /\ SameHand(q, x)
  /\ \/ x.pc \in {"payrow", "newpay"} /\ q.pc = "paylink"
     \/ x.pc = "newpay" /\ q.pc = "paycharge" /\ x.kind = "pay"
     \/ x.pc = "deliver" /\ q.pc = "deliver"
     \/ x.pc = "deliver" /\ q.pc = "refund" /\ x.kind = "buy"
     \/ x.pc = "use" /\ q.pc = "commission"

\* It is about to finish an order.
Reads(r, q) ==
  /\ Still /\ req[r] \in Busy /\ req[r].kind = "finish"
  /\ q \in Busy /\ q.kind = "finish" /\ q.pc \in {"finish", "savepaid"}

\* The delivery is complete.
Receives(r, q) ==
  LET x == req[r] IN
  /\ Still /\ x \in Busy /\ Sane(x) /\ x.pc = "deliver" /\ q \in Busy
  /\ \E goods \in SUBSET Int, moved \in BOOLEAN :
       /\ Delivers(x, q, goods, moved)
       /\ goods = {} => "refusal" \in Answers
       /\ moved => "number" \in Answers

\* It posts an entry for its user.
Enters(r, q, pc, next, a, typ, o) ==
  LET x == req[r] IN
  /\ UNCHANGED <<jobs, orders>> /\ x \in Busy /\ Sane(x) /\ q \in Busy /\ SameHand(q, x)
  /\ x.pc = pc /\ q.pc = next
  /\ Acc!Post(x.user, typ, a, o, NoUser)

Charges(r, q)    == Enters(r, q, "charge", "deliver", -req[r].copy.amount, "consume", req[r].order)
Links(r, q)      == Enters(r, q, "link", AfterLink(req[r]), 0, "consume", req[r].order)
Refunds(r, q)    == Enters(r, q, "refund", "saverefund", req[r].copy.amount, "refund", req[r].order)
PayCharges(r, q) == Enters(r, q, "paycharge", "paylink", -req[r].copy.amount, "consume", NoOrder)

\* The refund, the empty entry or the write of the delivered row fails, and it
\* goes on.
Skips(r, q) ==
  LET x == req[r] IN
  /\ Faults /\ Still /\ x \in Busy /\ Sane(x) /\ q \in Busy /\ SameHand(q, x)
  /\ \/ x.pc = "refund" /\ q.pc = "saverefund"
     \/ x.pc = "save" /\ q.pc = "link"
     \/ x.pc = "link" /\ q.pc = AfterLink(x)

\* It starts a commission, credits it, ends it.
Earns(r, q) ==
  LET x == req[r] IN
  /\ UNCHANGED <<balance, journal, orders>> /\ x \in Busy /\ Sane(x) /\ q \in Busy
  /\ SameHand(q, x) /\ x.pc = "commission" /\ q.pc = "credit"
  /\ \E job \in Acc!Job :
       /\ job.step = "credit" /\ job.order = x.order /\ job.amount = Acc!Commission(x.copy.amount)
       /\ jobs' = [jobs EXCEPT ![r] = job]

Credits(r, q) ==
  LET x == req[r] IN
  /\ UNCHANGED orders /\ x \in Busy /\ Sane(x) /\ q \in Busy /\ SameHand(q, x)
  /\ x.pc = "credit" /\ q.pc = "accrue"
  /\ jobs[r] \in Acc!Job /\ jobs[r].step = "credit"
  /\ Acc!Post(jobs[r].referrer, "referral", jobs[r].amount, jobs[r].order, jobs[r].buyer)
  /\ jobs' = [jobs EXCEPT ![r].step = "accrue"]

Accrues(r, q) ==
  /\ UNCHANGED <<balance, journal, orders>> /\ q = IdleReq
  /\ jobs' = [jobs EXCEPT ![r] = Acc!Idle]

\* Row o becomes the copy; the others stay.
RowBecomes(o, copy) ==
  /\ UNCHANGED <<balance, journal, jobs>>
  /\ o \in Book!OrderIds /\ Book!OrderIds' = Book!OrderIds
  /\ orders'[o] = copy
  /\ \A p \in Book!OrderIds \ {o} : orders'[p] = orders[p]

\* It writes its copy to the order: unpaid, delivered, refunded or paid.
WritesBack(r, q) ==
  LET x == req[r] IN
  /\ x \in Busy /\ Sane(x) /\ x.pc = "paylink" /\ q = IdleReq
  /\ RowBecomes(x.order, x.copy)
Saves(r, q) ==
  LET x == req[r] IN
  /\ x \in Busy /\ Sane(x) /\ x.pc = "save" /\ q \in Busy /\ q.pc = "link" /\ SameHand(q, x)
  /\ RowBecomes(x.order, IF x.moved THEN orders[x.order] ELSE x.copy)
SavesRefund(r, q) ==
  LET x == req[r] IN
  /\ x \in Busy /\ Sane(x) /\ x.pc = "saverefund" /\ q = IdleReq
  /\ \E copy \in Book!OrderRow :
       /\ SameOrder(copy, x.copy) /\ copy.status = Book!Refunded /\ copy.contents = x.copy.contents
       /\ RowBecomes(x.order, copy)
SavesPaid(r, q) ==
  LET x == req[r] IN
  /\ x \in Busy /\ Sane(x) /\ x.pc = "savepaid" /\ x.kind = "finish"
  /\ q \in Busy /\ q.kind = "finish" /\ q.pc \in {"deliver"} \cup EndPath
  /\ RowBecomes(x.order, x.copy)

\* What a request does in a step is one of these.
Does(r, q) ==
  \/ Asks(r, q) \/ Quits(r, q) \/ Prepares(r, q) \/ Places(r, q)
  \/ Skips(r, q) \/ Moves(r, q) \/ Reads(r, q) \/ Receives(r, q)
  \/ Charges(r, q) \/ Links(r, q) \/ Refunds(r, q) \/ PayCharges(r, q)
  \/ Earns(r, q) \/ Credits(r, q) \/ Accrues(r, q)
  \/ WritesBack(r, q) \/ Saves(r, q) \/ SavesRefund(r, q) \/ SavesPaid(r, q)

Becomes(r, q) == req' = [req EXCEPT ![r] = q]

-----------------------------------------------------------------------------
\* A begin asks.
LEMMA AskStep ==
  ASSUME StorefrontInv, NEW r \in Request, Begin(r)
  PROVE  \E q : Becomes(r, q) /\ Does(r, q)
<1>1. CASE BeginOrder(r, "buy") \/ BeginOrder(r, "order")
  <2>1. PICK kind \in {"buy", "order"} : BeginOrder(r, kind)
    BY <1>1
  <2>2. PICK u \in Buyers, c \in Commodity, n \in Nums,
             pc \in {"coupon"} \cup (IF Inviters = {} THEN {} ELSE {"bind"}) :
          req' = [req EXCEPT ![r] = NewReq(kind, pc, u, 0,
              [user |-> u, commodity |-> c, num |-> n, amount |-> Price[c] * n,
               coupon |-> Book!NoCoupon, status |-> Book!Pending, contents |-> {}])]
    BY <2>1 DEF BeginOrder
  <2> DEFINE amount == Price[c] * n
             copy == [user |-> u, commodity |-> c, num |-> n, amount |-> amount,
                      coupon |-> Book!NoCoupon, status |-> Book!Pending, contents |-> {}]
  <2>3. PICK q : q = NewReq(kind, pc, u, 0, copy)
    OBVIOUS
  <2>4. Becomes(r, q)
    BY <2>2, <2>3 DEF Becomes
  <2>5. amount \in Nat /\ n \in Nat \ {0} /\ u \in User
    BY StorefrontAssumption
  <2>6. copy.commodity = c /\ copy.num = n /\ copy.amount = amount
    OBVIOUS
  <2>7. amount = Price[c] * n
    OBVIOUS
  <2> HIDE DEF amount
  <2>8. copy \in Book!OrderRow
    BY <2>5 DEF Book!OrderRow, Book!Status
  <2> HIDE DEF copy
  <2>9. pc \in {"bind", "coupon"}
    OBVIOUS
  <2>10. q \in Busy
    BY <2>3, <2>5, <2>8, <2>9, StorefrontAssumption DEF NewReq, Busy, Place, Ordering, Book!NoNumber
  <2>11. q.kind = kind /\ q.pc = pc /\ q.copy = copy /\ q.moved = FALSE
    BY <2>3 DEF NewReq
  <2>12. kind \in Handlers /\ At(r, "idle") /\ Still
    BY <2>1 DEF BeginOrder, Still, accountVars, bookVars
  <2>13. q.copy.amount = Price[q.copy.commodity] * q.copy.num
    BY <2>6, <2>7, <2>11
  <2>14. Asks(r, q)
    BY <2>6, <2>8, <2>9, <2>10, <2>11, <2>12, <2>13 DEF Asks
  <2> QED
    BY <2>4, <2>14 DEF Does
<1>2. CASE BeginPayment(r)
  <2>1. PICK u \in Buyers, o \in Book!OrderIds, m \in Book!Method :
          req' = [req EXCEPT ![r] = [NewReq("pay", "newpay", u, o, orders[o]) EXCEPT !.method = m]]
    BY <1>2 DEF BeginPayment
  <2> DEFINE x == NewReq("pay", "newpay", u, o, orders[o])
  <2>2. PICK q : q = [x EXCEPT !.method = m]
    OBVIOUS
  <2>3. Becomes(r, q)
    BY <2>1, <2>2 DEF Becomes
  <2>4. o \in Nat /\ orders[o] \in Book!OrderRow /\ u \in User
    BY IdsAreNumbers, StorefrontAssumption DEF StorefrontInv
  <2>5. x \in Busy /\ x.kind = "pay" /\ x.pc = "newpay"
    BY <2>4, NewRequest
  <2> HIDE DEF x
  <2>6. q \in Busy /\ q.kind = "pay" /\ q.pc = "newpay"
    BY <2>2, <2>5, SMTT(20) DEF Busy
  <2>7. "pay" \in Handlers /\ At(r, "idle") /\ Still
    BY <1>2 DEF BeginPayment, Still, accountVars, bookVars
  <2>8. Asks(r, q)
    BY <2>6, <2>7 DEF Asks
  <2> QED
    BY <2>3, <2>8 DEF Does
<1>3. CASE BeginCheck(r) \/ BeginCallback(r) \/ BeginFinish(r)
  <2>1. PICK q : req' = [req EXCEPT ![r] = q] /\ ToFinish(q)
    BY <1>3, ReadingBegun
  <2>2. {"check", "callback", "finish"} \cap Handlers # {} /\ At(r, "idle") /\ Still
    BY <1>3 DEF BeginCheck, BeginCallback, BeginFinish, Still, accountVars, bookVars
  <2>3. Asks(r, q)
    BY <2>1, <2>2 DEF Asks, ToFinish
  <2> QED
    BY <2>1, <2>3 DEF Does, Becomes
<1> QED
  BY <1>1, <1>2, <1>3 DEF Begin

\* Where a request is, with its memory, and where it goes from there.
LEMMA Standing ==
  ASSUME StorefrontInv, NEW r \in Request, NEW pc \in Place, At(r, pc)
  PROVE  /\ RequestsSane /\ req[r] \in Busy /\ Sane(req[r]) /\ req[r].pc = pc
         /\ pc \notin Reading =>
              /\ req[r].copy \in Book!OrderRow /\ req[r].copy.amount \in Nat
              /\ req[r].copy.user \in User
         /\ pc \notin Reading \cup Ordering =>
              /\ req[r].order \in Book!OrderIds /\ req[r].order \in Nat /\ req[r].order \in Order
              /\ SameOrder(req[r].copy, orders[req[r].order])
<1>1. RequestsSane
  BY DEF StorefrontInv
<1>2. req[r] \in Busy /\ Sane(req[r]) /\ req[r].pc = pc
  BY <1>1, AtSane
<1>3. pc \notin Reading => req[r].copy \in Book!OrderRow
  BY <1>2 DEF Sane, Copies
<1>4. pc \notin Reading \cup Ordering =>
        req[r].order \in Book!OrderIds /\ SameOrder(req[r].copy, orders[req[r].order])
  BY <1>2 DEF Sane, Copies
<1>5. req[r].copy \in Book!OrderRow => req[r].copy.amount \in Nat /\ req[r].copy.user \in User
  BY DEF Book!OrderRow
<1> QED
  BY <1>1, <1>2, <1>3, <1>4, <1>5, IdsAreNumbers DEF StorefrontInv

Goes(r, q, next) == Becomes(r, q) /\ q \in Busy /\ q.pc = next /\ SameHand(q, req[r])

LEMMA HandGoes ==
  ASSUME RequestsSane, NEW r \in Request, req[r] \in Busy, NEW next \in Place, Goto(r, next),
         req[r].pc \in Reading => next \in Reading
  PROVE  \E q : Goes(r, q, next)
<1>1. PICK q \in Busy :
           /\ req' = [req EXCEPT ![r] = q] /\ q.pc = next
           /\ q.kind = req[r].kind /\ q.user = req[r].user /\ q.order = req[r].order
           /\ q.copy = req[r].copy /\ q.moved = req[r].moved /\ q.got = req[r].got
           /\ q.pay = req[r].pay /\ q.method = req[r].method /\ q.number = req[r].number
           /\ \A g \in Int : AtHand(q, g) => Holds(q.order, g)
  BY GoesTo
<1> QED
  BY <1>1 DEF Goes, Becomes, SameHand

\* A request that is answered, with nothing moved.
LEMMA QuitStep ==
  ASSUME NEW r \in Request, Answer(r), Still
  PROVE  \E q : Becomes(r, q) /\ Does(r, q)
<1>1. Becomes(r, IdleReq) /\ Quits(r, IdleReq)
  BY DEF Answer, Becomes, Quits
<1> QED
  BY <1>1 DEF Does

LEMMA PlacesKnown ==
  /\ Ordering \cup BuyPath \cup EndPath \cup PayPath \cup Reading \subseteq Place
  /\ "savepaid" \in Place /\ "savepaid" \notin Reading \cup Ordering
  /\ (BuyPath \cup EndPath \cup PayPath) \cap (Reading \cup Ordering) = {}
  /\ Ordering \cap Reading = {}
BY DEF Place, Ordering, Reading, BuyPath, EndPath, PayPath

\* Bind, TakeCoupon and CheckBalance.
LEMMA PrepareStep ==
  ASSUME StorefrontInv, NEW r \in Request, Bind(r) \/ TakeCoupon(r) \/ CheckBalance(r)
  PROVE  \E q : Becomes(r, q) /\ Does(r, q)
<1>1. \E pc \in {"bind", "coupon", "check"} : At(r, pc)
  BY DEF Bind, TakeCoupon, CheckBalance
<1>2. /\ RequestsSane /\ req[r] \in Busy /\ Sane(req[r]) /\ req[r].pc \in {"bind", "coupon", "check"}
      /\ req[r].copy \in Book!OrderRow /\ req[r].copy.amount \in Nat
  BY <1>1, Standing, PlacesKnown DEF Ordering
<1>3. req[r].kind \in {"buy", "order"} /\ (req[r].pc = "check" => req[r].kind = "buy")
  BY <1>2 DEF Sane, Kinds, Ordering, Reading, BuyPath, EndPath, PayPath, Busy
<1>4. Still
  <2>1. CASE Bind(r)
    <3>1. UNCHANGED <<balance, journal, jobs>>
      BY <2>1 DEF Bind, Acc!BindReferrer, accountVars
    <3> QED
      BY <2>1, <3>1 DEF Bind, Still, bookVars
  <2> QED
    BY <2>1 DEF TakeCoupon, CheckBalance, Still, bookVars, accountVars
<1>5. ASSUME NEW next \in Ordering, Goto(r, next),
             \/ req[r].pc = "bind" /\ next = "coupon"
             \/ req[r].pc = "coupon" /\ next = (IF req[r].kind = "buy" THEN "check" ELSE "create")
             \/ /\ req[r].pc = "check" /\ next = "create"
                /\ balance[req[r].user] >= req[r].copy.amount
      PROVE  \E q : Becomes(r, q) /\ Does(r, q)
  <2>1. PICK q : Goes(r, q, next)
    BY <1>2, <1>5, HandGoes, PlacesKnown DEF Reading
  <2>2. Prepares(r, q)
    BY <1>2, <1>3, <1>4, <1>5, <2>1 DEF Goes, SameHand, Prepares
  <2> QED
    BY <2>1, <2>2 DEF Goes, Does
<1>6. CASE Bind(r)
  BY <1>5, <1>6 DEF Bind, At, Ordering
<1>7. CASE CheckBalance(r)
  <2>1. CASE balance[req[r].user] < req[r].copy.amount
    BY <1>4, <1>7, <2>1, QuitStep DEF CheckBalance
  <2>2. CASE ~(balance[req[r].user] < req[r].copy.amount)
    <3>1. balance[req[r].user] \in Int
      BY <1>2, <1>3 DEF StorefrontInv, Acc!AccountsTypeOK, Sane, Kinds
    <3>2. balance[req[r].user] >= req[r].copy.amount
      BY <1>2, <2>2, <3>1
    <3> QED
      BY <1>5, <1>7, <2>2, <3>2 DEF CheckBalance, At, Ordering
  <2> QED
    BY <2>1, <2>2
<1>8. CASE TakeCoupon(r)
  <2> DEFINE next == IF req[r].kind = "buy" THEN "check" ELSE "create"
  <2>0. req[r].pc = "coupon" /\ next \in Ordering /\ next \in Place
    BY <1>8, PlacesKnown DEF TakeCoupon, At, Ordering
  <2>1. CASE Goto(r, next)
    BY <1>5, <2>0, <2>1
  <2>2. ASSUME NEW c \in Coupon,
               req' = [req EXCEPT ![r].pc = next, ![r].copy.coupon = c,
                                  ![r].copy.amount = @ - Coupons!Discount(c, @)]
        PROVE  \E q : Becomes(r, q) /\ Does(r, q)
    <3> DEFINE a == req[r].copy.amount - Coupons!Discount(c, req[r].copy.amount)
    <3>1. PICK copy : copy = [req[r].copy EXCEPT !.coupon = c, !.amount = a]
      OBVIOUS
    <3>2. PICK q : q = [req[r] EXCEPT !.pc = next, !.copy = copy]
      OBVIOUS
    <3>3. Becomes(r, q)
      <4>1. req = [y \in Request |-> req[y]]
        BY <1>2 DEF RequestsSane
      <4>2. /\ req[r] = [kind |-> req[r].kind, pc |-> req[r].pc, user |-> req[r].user,
                         order |-> req[r].order, copy |-> req[r].copy, moved |-> req[r].moved,
                         got |-> req[r].got, pay |-> req[r].pay, method |-> req[r].method,
                         number |-> req[r].number]
            /\ req[r].copy = [user |-> req[r].copy.user, commodity |-> req[r].copy.commodity,
                              num |-> req[r].copy.num, amount |-> req[r].copy.amount,
                              coupon |-> req[r].copy.coupon, status |-> req[r].copy.status,
                              contents |-> req[r].copy.contents]
        BY <1>2 DEF Busy, Book!OrderRow
      <4>3. req' = [req EXCEPT ![r] = q]
        BY <2>2, <3>1, <3>2, <4>1, <4>2, ZenonT(30)
      <4> QED
        BY <4>3 DEF Becomes
    <3>4. a \in Nat /\ a <= req[r].copy.amount
      <4>1. PICK full \in Nat : full = req[r].copy.amount
        BY <1>2
      <4>2. Coupons!Discount(c, full) \in Nat /\ full - Coupons!Discount(c, full) \in Nat
        BY DiscountBounded
      <4>3. PICK d \in Nat : d = Coupons!Discount(c, full)
        BY <4>2
      <4>4. a = full - d
        BY <4>1, <4>3
      <4> QED
        BY <4>1, <4>2, <4>3, <4>4
    <3> HIDE DEF a
    <3>5. /\ copy \in Book!OrderRow /\ copy.amount = a
          /\ copy.commodity = req[r].copy.commodity /\ copy.num = req[r].copy.num
      BY <1>2, <3>1, <3>4 DEF Book!OrderRow
    <3>6. /\ q.pc = next /\ q.kind = req[r].kind /\ q.user = req[r].user /\ q.moved = req[r].moved
          /\ q.copy = copy
      BY <1>2, <3>2 DEF Busy
    <3>7. q \in Busy
      <4> DEFINE x == [req[r] EXCEPT !.pc = next]
      <4>1. x \in Busy
        BY <1>2, <2>0, GoneTo
      <4>2. q = [x EXCEPT !.copy = copy]
        BY <1>2, <3>2 DEF Busy
      <4> HIDE DEF x
      <4> QED
        BY <3>5, <4>1, <4>2 DEF Busy
    <3>8. Prepares(r, q)
      BY <1>2, <1>3, <1>4, <2>0, <3>4, <3>5, <3>6, <3>7 DEF Prepares
    <3> QED
      BY <3>3, <3>8 DEF Does
  <2> QED
    BY <1>8, <2>1, <2>2 DEF TakeCoupon
<1> QED
  BY <1>6, <1>7, <1>8

\* CreateOrder.
LEMMA PlaceStep ==
  ASSUME StorefrontInv, NEW r \in Request, CreateOrder(r)
  PROVE  \E q : Becomes(r, q) /\ Does(r, q)
<1> DEFINE row == req[r].copy
           Placed(kind, pc) ==
             req[r].kind = kind /\ req' = [req EXCEPT ![r].pc = pc, ![r].order = Len(orders) + 1]
<1>1. /\ At(r, "create") /\ Book!CreateOrder(row)
      /\ \/ Placed("buy", "charge") \/ Placed("order", "payrow")
         \/ Answer(r) /\ req[r].kind = "order"
      /\ UNCHANGED <<vaultVars, accountVars, couponVars, bought, wins>>
  BY DEF CreateOrder
<1>2. /\ RequestsSane /\ BookSane /\ "create" \in Place /\ "create" \in Ordering
  BY PlacesKnown DEF StorefrontInv, Ordering
<1>3. req[r] \in Busy /\ Sane(req[r]) /\ req[r].pc = "create"
  BY <1>1, <1>2, Standing
<1>4. row \in Book!OrderRow /\ row.status = Book!Pending
  BY <1>2, <1>3 DEF Sane, Copies, Ordering, Reading
<1>5. PICK o : o = Len(orders) + 1
  OBVIOUS
<1>6. NewRow(o, row)
  <2>1. /\ Len(orders) + 1 \in Order
        /\ Book!OrderIds' = Book!OrderIds \cup {Len(orders) + 1}
        /\ Len(orders) + 1 \notin Book!OrderIds
        /\ orders'[Len(orders) + 1] = row
        /\ \A p \in Book!OrderIds : orders'[p] = orders[p]
    BY <1>1, <1>2, <1>4, OrderCreated
  <2>2. o \in Nat
    BY <1>2, <1>5 DEF BookSane
  <2> QED
    BY <1>5, <2>1, <2>2 DEF NewRow
<1>7. UNCHANGED <<balance, journal, jobs>>
  BY <1>1 DEF accountVars
<1>8. CASE Answer(r) /\ req[r].kind = "order"
  <2>1. Becomes(r, IdleReq) /\ Places(r, IdleReq)
    BY <1>3, <1>6, <1>7, <1>8 DEF Answer, Becomes, Places
  <2> QED
    BY <2>1 DEF Does
<1>9. ASSUME NEW kind \in {"buy", "order"}, NEW pc \in {"charge", "payrow"},
             kind = "buy" <=> pc = "charge", Placed(kind, pc)
      PROVE  \E q : Becomes(r, q) /\ Does(r, q)
  <2>1. PICK q : q = [req[r] EXCEPT !.pc = pc, !.order = o]
    OBVIOUS
  <2>2. Becomes(r, q)
    <3>1. req = [y \in Request |-> req[y]]
      BY <1>2 DEF RequestsSane
    <3>2. req[r] = [kind |-> req[r].kind, pc |-> req[r].pc, user |-> req[r].user,
                    order |-> req[r].order, copy |-> req[r].copy, moved |-> req[r].moved,
                    got |-> req[r].got, pay |-> req[r].pay, method |-> req[r].method,
                    number |-> req[r].number]
      BY <1>3 DEF Busy
    <3>3. req' = [req EXCEPT ![r] = q]
      BY <1>5, <1>9, <2>1, <3>1, <3>2
    <3> QED
      BY <3>3 DEF Becomes
  <2>3. o \in Nat /\ pc \in Place
    BY <1>6, PlacesKnown DEF NewRow, BuyPath, PayPath
  <2>4. /\ q.kind = req[r].kind /\ q.user = req[r].user /\ q.copy = req[r].copy
        /\ q.moved = req[r].moved /\ q.order = o /\ q.pc = pc
    BY <1>3, <2>1, <2>3 DEF Busy
  <2>5. q \in Busy
    <3> DEFINE x == [req[r] EXCEPT !.pc = pc]
    <3>1. x \in Busy
      BY <1>3, <2>3, GoneTo
    <3>2. q = [x EXCEPT !.order = o]
      BY <1>3, <2>1 DEF Busy
    <3> HIDE DEF x
    <3> QED
      BY <2>3, <3>1, <3>2 DEF Busy
  <2>6. Places(r, q)
    BY <1>3, <1>6, <1>7, <1>9, <2>4, <2>5 DEF Places
  <2> QED
    BY <2>2, <2>6 DEF Does
<1> HIDE DEF Placed
<1> QED
  BY <1>1, <1>8, <1>9

\* PayRow, NewPayment, UseCoupon, CheckMark and CallbackMark.
LEMMA MoveStep ==
  ASSUME StorefrontInv, NEW r \in Request,
         PayRow(r) \/ NewPayment(r) \/ UseCoupon(r) \/ CheckMark(r) \/ CallbackMark(r)
  PROVE  \E q : Becomes(r, q) /\ Does(r, q)
<1>1. Still
  BY DEF PayRow, NewPayment, UseCoupon, CheckMark, CallbackMark, Still, accountVars, bookVars,
    Book!CreatePayment, Book!MarkPaymentPaid
<1>2. \E pc \in {"payrow", "newpay", "use", "mark", "callback"} : At(r, pc)
  BY DEF PayRow, NewPayment, UseCoupon, CheckMark, CallbackMark
<1>3. /\ RequestsSane /\ req[r] \in Busy /\ Sane(req[r])
      /\ req[r].pc \in {"payrow", "newpay", "use", "mark", "callback"}
  BY <1>2, Standing, PlacesKnown DEF PayPath, EndPath, Reading
<1>4. /\ req[r].pc \in Reading => req[r].kind = "finish"
      /\ req[r].pc = "newpay" => req[r].kind = "pay"
  BY <1>3 DEF Sane, Kinds, Ordering, Reading, BuyPath, EndPath, PayPath, Busy
<1>5. ASSUME NEW next \in Place, Goto(r, next),
             \/ req[r].pc \in {"payrow", "newpay"} /\ next = "paylink"
             \/ req[r].pc = "newpay" /\ next = "paycharge"
             \/ req[r].pc = "use" /\ next = "commission"
      PROVE  \E q : Becomes(r, q) /\ Does(r, q)
  <2>1. PICK q : Goes(r, q, next)
    BY <1>3, <1>5, HandGoes DEF Reading
  <2>2. Moves(r, q)
    BY <1>1, <1>3, <1>4, <1>5, <2>1 DEF Goes, Moves, Reading
  <2> QED
    BY <2>1, <2>2 DEF Goes, Does
<1>6. CASE Goto(r, "finish") /\ req[r].pc \in Reading
  <2>1. "finish" \in Place /\ "finish" \in Reading
    BY PlacesKnown DEF Reading
  <2>2. PICK q : Goes(r, q, "finish")
    BY <1>3, <1>6, <2>1, HandGoes
  <2>3. Reads(r, q)
    BY <1>1, <1>3, <1>4, <1>6, <2>2 DEF Goes, Reads, SameHand
  <2> QED
    BY <2>2, <2>3 DEF Goes, Does
<1>7. "paylink" \in Place /\ "paycharge" \in Place /\ "commission" \in Place
  BY PlacesKnown DEF PayPath, EndPath
<1>8. CASE Answer(r)
  BY <1>1, <1>8, QuitStep
<1>9. CASE PayRow(r)
  BY <1>5, <1>7, <1>9 DEF PayRow, At
<1>10. CASE NewPayment(r)
  BY <1>5, <1>7, <1>8, <1>10 DEF NewPayment, At
<1>11. CASE UseCoupon(r)
  BY <1>5, <1>7, <1>11 DEF UseCoupon, At
<1>12. CASE CheckMark(r)
  BY <1>6, <1>12 DEF CheckMark, At, Reading
<1>13. CASE CallbackMark(r)
  BY <1>6, <1>8, <1>13 DEF CallbackMark, At, Reading
<1> QED
  BY <1>9, <1>10, <1>11, <1>12, <1>13

\* FinishPaidOrder reads the row.
LEMMA ReadStep ==
  ASSUME StorefrontInv, NEW r \in Request, Finish(r)
  PROVE  \E q : Becomes(r, q) /\ Does(r, q)
<1>1. /\ At(r, "finish") /\ Still
      /\ \/ Answer(r)
         \/ req' = [req EXCEPT ![r].pc = "savepaid",
                               ![r].copy = [orders[req[r].order] EXCEPT !.status = Book!Paid]]
  BY DEF Finish, Still, accountVars, bookVars
<1>2. RequestsSane /\ req[r] \in Busy /\ Sane(req[r]) /\ req[r].pc = "finish"
  BY <1>1, Standing, PlacesKnown DEF Reading
<1>3. req[r].kind = "finish" /\ req[r].order \in Book!OrderIds
  BY <1>2 DEF Sane, Kinds, Copies, Ordering, Reading, BuyPath, EndPath, PayPath, Busy
<1>4. CASE Answer(r)
  BY <1>1, <1>4, QuitStep
<1>5. CASE req' = [req EXCEPT ![r].pc = "savepaid",
                             ![r].copy = [orders[req[r].order] EXCEPT !.status = Book!Paid]]
  <2>1. orders[req[r].order] \in Book!OrderRow
    BY <1>3, IdsAreNumbers DEF StorefrontInv
  <2>2. PICK copy : copy = [orders[req[r].order] EXCEPT !.status = Book!Paid]
    OBVIOUS
  <2>3. copy \in Book!OrderRow
    BY <2>1, <2>2 DEF Book!OrderRow, Book!Status
  <2>4. PICK q : q = [req[r] EXCEPT !.pc = "savepaid", !.copy = copy]
    OBVIOUS
  <2>5. Becomes(r, q)
    <3>1. req = [y \in Request |-> req[y]]
      BY <1>2 DEF RequestsSane
    <3>2. req[r] = [kind |-> req[r].kind, pc |-> req[r].pc, user |-> req[r].user,
                    order |-> req[r].order, copy |-> req[r].copy, moved |-> req[r].moved,
                    got |-> req[r].got, pay |-> req[r].pay, method |-> req[r].method,
                    number |-> req[r].number]
      BY <1>2 DEF Busy
    <3>3. req' = [req EXCEPT ![r] = q]
      BY <1>5, <2>2, <2>4, <3>1, <3>2
    <3> QED
      BY <3>3 DEF Becomes
  <2>6. q.kind = "finish" /\ q.pc = "savepaid"
    BY <1>2, <1>3, <2>4 DEF Busy
  <2>7. q \in Busy
    <3> DEFINE x == [req[r] EXCEPT !.pc = "savepaid"]
    <3>1. x \in Busy
      BY <1>2, PlacesKnown, GoneTo
    <3>2. q = [x EXCEPT !.copy = copy]
      BY <1>2, <2>4 DEF Busy
    <3> HIDE DEF x
    <3> QED
      BY <2>3, <3>1, <3>2 DEF Busy
  <2>8. Reads(r, q)
    BY <1>1, <1>2, <1>3, <2>6, <2>7 DEF Reads
  <2> QED
    BY <2>5, <2>8 DEF Does
<1> QED
  BY <1>1, <1>4, <1>5

\* Charge, LinkLog, Refund and PayCharge.
LEMMA EnterStep ==
  ASSUME StorefrontInv, NEW r \in Request, Charge(r) \/ LinkLog(r) \/ Refund(r) \/ PayCharge(r)
  PROVE  \E q : Becomes(r, q) /\ Does(r, q)
<1>1. \/ Posts(r, "charge", "deliver", -req[r].copy.amount, "consume", req[r].order)
      \/ Posts(r, "link", AfterLink(req[r]), 0, "consume", req[r].order)
      \/ Posts(r, "refund", "saverefund", req[r].copy.amount, "refund", req[r].order)
      \/ Posts(r, "paycharge", "paylink", -req[r].copy.amount, "consume", NoOrder)
  BY MoneySteps
<1>2. ASSUME NEW pc \in {"charge", "link", "refund", "paycharge"}, NEW next \in Place,
             NEW a, NEW typ, NEW o, Posts(r, pc, next, a, typ, o)
      PROVE  \E q : Becomes(r, q) /\ Enters(r, q, pc, next, a, typ, o)
  <2>1. /\ RequestsSane /\ req[r] \in Busy /\ Sane(req[r]) /\ req[r].pc = pc
        /\ pc \notin Reading
    BY <1>2, Standing, PlacesKnown DEF Posts, BuyPath, PayPath, Reading
  <2>2. PICK q : Goes(r, q, next)
    BY <1>2, <2>1, HandGoes DEF Posts
  <2>3. UNCHANGED <<jobs, orders>> /\ Acc!Post(req[r].user, typ, a, o, NoUser)
    BY <1>2 DEF Posts, Acc!AdjustBalance, bookVars
  <2> QED
    BY <2>1, <2>2, <2>3 DEF Goes, Enters
<1>3. /\ "deliver" \in Place /\ "saverefund" \in Place /\ "paylink" \in Place
      /\ AfterLink(req[r]) \in Place
  BY PlacesKnown DEF BuyPath, PayPath, EndPath, AfterLink
<1>4. CASE Posts(r, "charge", "deliver", -req[r].copy.amount, "consume", req[r].order)
  BY <1>2, <1>3, <1>4 DEF Does, Charges
<1>5. CASE Posts(r, "link", AfterLink(req[r]), 0, "consume", req[r].order)
  BY <1>2, <1>3, <1>5 DEF Does, Links
<1>6. CASE Posts(r, "refund", "saverefund", req[r].copy.amount, "refund", req[r].order)
  BY <1>2, <1>3, <1>6 DEF Does, Refunds
<1>7. CASE Posts(r, "paycharge", "paylink", -req[r].copy.amount, "consume", NoOrder)
  BY <1>2, <1>3, <1>7 DEF Does, PayCharges
<1> QED
  BY <1>1, <1>4, <1>5, <1>6, <1>7

\* A delivery that failed.
LEMMA FailStep ==
  ASSUME StorefrontInv, NEW r \in Request, At(r, "deliver"), Fail(r), Still
  PROVE  \E q : Becomes(r, q) /\ Does(r, q)
<1>1. RequestsSane /\ req[r] \in Busy /\ Sane(req[r]) /\ req[r].pc = "deliver"
  BY Delivering
<1>2. CASE req[r].kind # "buy"
  <2>1. Answer(r)
    BY <1>1, <1>2 DEF Fail, Answer, RequestsSane
  <2> QED
    BY <2>1, QuitStep
<1>3. CASE req[r].kind = "buy"
  <2>1. PICK q : q = [req[r] EXCEPT !.pc = "refund", !.got = {}]
    OBVIOUS
  <2>2. Becomes(r, q)
    BY <1>1, <1>3, <2>1 DEF Fail, RequestsSane, Becomes
  <2>3. q.pc = "refund" /\ SameHand(q, req[r])
    BY <1>1, <2>1 DEF Busy, SameHand
  <2>4. q \in Busy
    <3> DEFINE x == [req[r] EXCEPT !.pc = "refund"]
    <3>1. x \in Busy
      BY <1>1, GoneTo, PlacesKnown DEF BuyPath
    <3>2. q = [x EXCEPT !.got = {}]
      BY <1>1, <2>1 DEF Busy
    <3> HIDE DEF x
    <3> QED
      BY <3>1, <3>2 DEF Busy
  <2>5. Moves(r, q)
    BY <1>1, <1>3, <2>3, <2>4 DEF Moves
  <2> QED
    BY <2>2, <2>5 DEF Does
<1> QED
  BY <1>2, <1>3

\* A delivery that is complete.
LEMMA GotStep ==
  ASSUME StorefrontInv, NEW r \in Request, At(r, "deliver"), Still,
         NEW goods \in SUBSET Int, NEW moved \in BOOLEAN, Got(r, goods, moved),
         Enough(req[r], goods),
         goods = {} => "refusal" \in Answers, moved => "number" \in Answers
  PROVE  \E q : Becomes(r, q) /\ Does(r, q)
<1>1. /\ RequestsSane /\ req[r] \in Busy /\ Sane(req[r]) /\ req[r].pc = "deliver"
      /\ req[r].pc \in {"deliver", "savepaid"}
  BY Delivering
<1>10. Obtains(r, goods, moved)
  BY <1>1, GotGoods
<1>2. PICK q \in Busy : req' = [req EXCEPT ![r] = q] /\ Delivers(req[r], q, goods, moved)
  BY <1>10 DEF Obtains
<1>3. Receives(r, q)
  BY <1>1, <1>2 DEF Receives
<1> QED
  BY <1>2, <1>3 DEF Does, Becomes

\* Pull.
LEMMA PullStep ==
  ASSUME StorefrontInv, NEW r \in Request, Pull(r)
  PROVE  \E q : Becomes(r, q) /\ Does(r, q)
<1>1. At(r, "deliver") /\ Still
  BY DEF Pull, Still, accountVars, bookVars
<1>2. PICK c \in {req[r].copy.commodity}, o \in {req[r].order} :
        \/ /\ Vault!PullSecret(c, o)
           /\ LET got == req[r].got \cup {s.id : s \in secrets' \ secrets}
              IN IF Cardinality(got) = req[r].copy.num THEN Got(r, got, FALSE)
                 ELSE req' = [req EXCEPT ![r].got = got]
        \/ Fail(r)
  BY DEF Pull
<1>3. /\ RequestsSane /\ req[r] \in Busy /\ Sane(req[r]) /\ req[r].pc = "deliver"
      /\ req[r].got \in SUBSET (Nat \ {0}) /\ o \in Order /\ c \in Commodity
  BY <1>1, Delivering
<1>4. CASE Fail(r)
  BY <1>1, <1>4, FailStep
<1>5. ASSUME Vault!PullSecret(c, o),
             LET got == req[r].got \cup {s.id : s \in secrets' \ secrets}
             IN IF Cardinality(got) = req[r].copy.num THEN Got(r, got, FALSE)
                ELSE req' = [req EXCEPT ![r].got = got]
      PROVE  \E q : Becomes(r, q) /\ Does(r, q)
  <2>1. \E g \in Nat \ {0} :
             /\ NewIds = {g}
             /\ \E s \in Vault!SoldTo(o)' : s.id = g
             /\ \A p : \A s \in Vault!SoldTo(p) : s.id # g
    BY <1>3, <1>5, SecretPulled DEF StorefrontInv
  <2>2. PICK g \in Nat \ {0} : NewIds = {g}
    BY <2>1
  <2>3. PICK got \in SUBSET (Nat \ {0}) : got = req[r].got \cup {g}
    BY <1>3
  <2>4. IF Cardinality(got) = req[r].copy.num THEN Got(r, got, FALSE)
        ELSE req' = [req EXCEPT ![r].got = got]
    BY <1>5, <2>2, <2>3 DEF NewIds
  <2>5. CASE Cardinality(got) = req[r].copy.num
    <3>1. CardsIn(got) = got
      <4>1. \A i \in got : i > 0
        OBVIOUS
      <4> QED
        BY <4>1 DEF CardsIn
    <3>2. PICK goods \in SUBSET Int : goods = got
      OBVIOUS
    <3>3. PICK moved \in BOOLEAN : moved = FALSE
      OBVIOUS
    <3>4. Got(r, goods, moved) /\ Enough(req[r], goods) /\ goods # {}
      BY <2>3, <2>4, <2>5, <3>1, <3>2, <3>3 DEF Enough
    <3> QED
      BY <1>1, <3>3, <3>4, GotStep
  <2>6. CASE Cardinality(got) # req[r].copy.num
    <3>1. PICK q : q = [req[r] EXCEPT !.got = got]
      OBVIOUS
    <3>2. Becomes(r, q)
      BY <2>4, <2>6, <3>1 DEF Becomes
    <3>3. q \in Busy /\ q.pc = req[r].pc /\ SameHand(q, req[r])
      BY <1>3, <3>1 DEF Busy, SameHand
    <3>4. Moves(r, q)
      BY <1>1, <1>3, <3>3 DEF Moves
    <3> QED
      BY <3>2, <3>4 DEF Does
  <2> QED
    BY <2>5, <2>6
<1> QED
  BY <1>2, <1>4, <1>5

\* Trade.
LEMMA TradeStep ==
  ASSUME StorefrontInv, NEW r \in Request, Trade(r)
  PROVE  \E q : Becomes(r, q) /\ Does(r, q)
<1>1. At(r, "deliver") /\ Still /\ Source[req[r].copy.commodity] = "upstream"
  BY DEF Trade, Still, accountVars, bookVars
<1>2. \/ \E a \in Answers \cap {"goods", "number"} : Got(r, {-(bought + 1)}, a = "number")
      \/ "refusal" \in Answers /\ Got(r, {}, FALSE)
      \/ Fail(r)
  BY DEF Trade
<1>3. \A goods : Enough(req[r], goods)
  BY <1>1 DEF Enough
<1>4. CASE Fail(r)
  BY <1>1, <1>4, FailStep
<1>5. CASE "refusal" \in Answers /\ Got(r, {}, FALSE)
  <2>1. PICK goods \in SUBSET Int : goods = {}
    OBVIOUS
  <2>2. PICK moved \in BOOLEAN : moved = FALSE
    OBVIOUS
  <2>3. Got(r, goods, moved)
    BY <1>5, <2>1, <2>2
  <2> QED
    BY <1>1, <1>3, <1>5, <2>2, <2>3, GotStep
<1>6. ASSUME NEW a \in Answers \cap {"goods", "number"}, Got(r, {-(bought + 1)}, a = "number")
      PROVE  \E q : Becomes(r, q) /\ Does(r, q)
  <2>1. bought \in Nat
    BY DEF StorefrontInv, GoodsSane
  <2>0. PICK k \in Int : k = -(bought + 1)
    BY <2>1
  <2>2. PICK goods \in SUBSET Int : goods = {k}
    OBVIOUS
  <2>3. PICK moved \in BOOLEAN : moved = (a = "number")
    OBVIOUS
  <2>4. Got(r, goods, moved) /\ goods # {} /\ (moved => "number" \in Answers)
    BY <1>6, <2>0, <2>2, <2>3
  <2> QED
    BY <1>1, <1>3, <2>4, GotStep
<1> QED
  BY <1>2, <1>4, <1>5, <1>6

\* BeginCommission, CreditReferrer and AccrueCommission.
LEMMA CommissionStep ==
  ASSUME StorefrontInv, NEW r \in Request,
         BeginCommission(r) \/ CreditReferrer(r) \/ AccrueCommission(r)
  PROVE  \E q : Becomes(r, q) /\ Does(r, q)
<1>1. UNCHANGED orders
  BY DEF BeginCommission, CreditReferrer, AccrueCommission, bookVars
<1>2. Acc!AccountsTypeOK /\ "credit" \in Place /\ "accrue" \in Place /\ "commission" \in Place
  BY PlacesKnown DEF StorefrontInv, EndPath
<1>3. \A pc \in EndPath : pc \notin Reading /\ pc \notin Ordering
  BY PlacesKnown
<1>4. CASE BeginCommission(r)
  <2>1. /\ RequestsSane /\ req[r] \in Busy /\ Sane(req[r]) /\ req[r].pc = "commission"
        /\ req[r].copy \in Book!OrderRow /\ req[r].copy.amount \in Nat /\ req[r].copy.user \in User
        /\ req[r].order \in Order /\ req[r].pc \notin Reading
    BY <1>2, <1>3, <1>4, Standing DEF BeginCommission, EndPath
  <2>2. CASE Answer(r) /\ UNCHANGED accountVars
    <3>1. Still
      BY <1>1, <2>2 DEF Still, accountVars
    <3> QED
      BY <2>2, <3>1, QuitStep
  <2>3. CASE /\ Acc!StartCommission(r, req[r].copy.user, req[r].order, req[r].copy.amount)
             /\ Goto(r, "credit")
    <3> DEFINE u == req[r].copy.user
    <3>1. PICK job : job = [step |-> "credit", buyer |-> u, referrer |-> referrer[u],
                            order |-> req[r].order, amount |-> Acc!Commission(req[r].copy.amount)]
      OBVIOUS
    <3>2. /\ jobs' = [jobs EXCEPT ![r] = job] /\ referrer[u] # NoUser
          /\ UNCHANGED <<balance, journal>>
      BY <2>3, <3>1 DEF Acc!StartCommission, Acc!CommissionDue
    <3>3. referrer[u] \in User
      BY <1>2, <2>1, <3>2 DEF Acc!AccountsTypeOK
    <3>4. PICK a \in Nat : a = Acc!Commission(req[r].copy.amount)
      BY <2>1, CommissionIsNat
    <3>5. /\ job \in Acc!Job /\ job.step = "credit" /\ job.order = req[r].order
          /\ job.amount = Acc!Commission(req[r].copy.amount)
      BY <2>1, <3>1, <3>3, <3>4 DEF Acc!Job
    <3>6. PICK q : Goes(r, q, "credit")
      BY <1>2, <2>1, <2>3, HandGoes
    <3>7. Earns(r, q)
      BY <1>1, <2>1, <3>2, <3>5, <3>6 DEF Goes, Earns
    <3> QED
      BY <3>6, <3>7 DEF Goes, Does
  <2> QED
    BY <1>4, <2>2, <2>3 DEF BeginCommission
<1>5. CASE CreditReferrer(r)
  <2>1. RequestsSane /\ req[r] \in Busy /\ Sane(req[r]) /\ req[r].pc = "credit" /\ "credit" \notin Reading
    BY <1>2, <1>3, <1>5, Standing DEF CreditReferrer, EndPath
  <2>2. /\ jobs[r].step = "credit"
        /\ Acc!Post(jobs[r].referrer, "referral", jobs[r].amount, jobs[r].order, jobs[r].buyer)
        /\ jobs' = [jobs EXCEPT ![r].step = "accrue"]
    BY <1>5 DEF CreditReferrer, Acc!Credit
  <2>3. jobs[r] \in Acc!Job
    BY <1>2, <2>2 DEF Acc!AccountsTypeOK, Acc!Idle
  <2>4. PICK q : Goes(r, q, "accrue")
    BY <1>2, <1>5, <2>1, HandGoes DEF CreditReferrer
  <2>5. Credits(r, q)
    BY <1>1, <2>1, <2>2, <2>3, <2>4 DEF Goes, Credits
  <2> QED
    BY <2>4, <2>5 DEF Goes, Does
<1>6. CASE AccrueCommission(r)
  <2>1. Becomes(r, IdleReq) /\ Accrues(r, IdleReq)
    BY <1>1, <1>6 DEF AccrueCommission, Acc!Accrue, Answer, Becomes, Accrues
  <2> QED
    BY <2>1 DEF Does
<1> QED
  BY <1>4, <1>5, <1>6

\* UpdateOrder with a copy of the request's order.
LEMMA RowStep ==
  ASSUME StorefrontInv, NEW o \in Book!OrderIds, NEW copy \in Book!OrderRow, NEW moved \in BOOLEAN,
         SameOrder(copy, orders[o]), RowFits(copy), Book!UpdateOrder(o, copy, moved),
         UNCHANGED accountVars
  PROVE  RowBecomes(o, IF moved THEN orders[o] ELSE copy)
<1>1. BookSane
  BY DEF StorefrontInv
<1>2. /\ Book!OrderIds' = Book!OrderIds
      /\ \A p \in Book!OrderIds \ {o} : orders'[p] = orders[p]
      /\ orders'[o] = IF moved THEN orders[o] ELSE copy
  BY <1>1, OrderUpdated
<1> QED
  BY <1>2 DEF RowBecomes, accountVars

\* PayLink, SaveDelivery and SaveRefund.
LEMMA WriteStep ==
  ASSUME StorefrontInv, NEW r \in Request, PayLink(r) \/ SaveDelivery(r) \/ SaveRefund(r)
  PROVE  \E q : Becomes(r, q) /\ Does(r, q)
<1>1. UNCHANGED accountVars
  BY DEF PayLink, SaveDelivery, SaveRefund
<1>2. \E pc \in {"paylink", "save", "saverefund"} : At(r, pc)
  BY DEF PayLink, SaveDelivery, SaveRefund
<1>3. /\ RequestsSane /\ req[r] \in Busy /\ Sane(req[r])
      /\ req[r].pc \in {"paylink", "save", "saverefund"} /\ req[r].copy \in Book!OrderRow
      /\ req[r].order \in Book!OrderIds /\ SameOrder(req[r].copy, orders[req[r].order])
      /\ req[r].pc \notin Reading
  BY <1>2, Standing, PlacesKnown DEF PayPath, BuyPath
<1>4. PICK o \in Book!OrderIds : o = req[r].order
  BY <1>3
<1>5. PICK no \in BOOLEAN : no = FALSE
  OBVIOUS
<1>6. CASE PayLink(r)
  <2>1. req[r].pc = "paylink"
    BY <1>6 DEF PayLink, At
  <2>2. RowFits(req[r].copy)
    BY <1>3, <2>1 DEF Sane, Copies, PayPath, RowFits, Book!Pending, Book!Delivered, Book!Refunded
  <2>3. RowBecomes(o, IF no THEN orders[o] ELSE req[r].copy)
    BY <1>1, <1>3, <1>4, <1>5, <1>6, <2>2, RowStep DEF PayLink
  <2>4. RowBecomes(req[r].order, req[r].copy)
    BY <1>4, <1>5, <2>3
  <2>5. Becomes(r, IdleReq) /\ WritesBack(r, IdleReq)
    BY <1>3, <1>6, <2>1, <2>4 DEF PayLink, Answer, Becomes, WritesBack
  <2> QED
    BY <2>5 DEF Does
<1>7. CASE SaveDelivery(r)
  <2>1. req[r].pc = "save"
    BY <1>7 DEF SaveDelivery, At
  <2>2. RowFits(req[r].copy)
    BY <1>3, <2>1 DEF Sane, Copies
  <2>3. PICK moved \in BOOLEAN : moved = req[r].moved
    BY <1>3 DEF Busy
  <2>4. RowBecomes(o, IF moved THEN orders[o] ELSE req[r].copy)
    BY <1>1, <1>3, <1>4, <1>7, <2>2, <2>3, RowStep DEF SaveDelivery
  <2>5. RowBecomes(req[r].order, IF req[r].moved THEN orders[req[r].order] ELSE req[r].copy)
    BY <1>4, <2>3, <2>4
  <2>6. "link" \in Place
    BY PlacesKnown DEF BuyPath
  <2>7. PICK q : Goes(r, q, "link")
    BY <1>3, <1>7, <2>6, HandGoes DEF SaveDelivery
  <2>8. Saves(r, q)
    BY <1>3, <2>1, <2>5, <2>7 DEF Saves, Goes
  <2> QED
    BY <2>7, <2>8 DEF Does, Goes
<1>8. CASE SaveRefund(r)
  <2>1. req[r].pc = "saverefund"
    BY <1>8 DEF SaveRefund, At
  <2>2. PICK copy : copy = [req[r].copy EXCEPT !.status = Book!Refunded]
    OBVIOUS
  <2>3. req[r].copy.contents = {}
    BY <1>3, <2>1 DEF Sane, Copies
  <2>4. /\ copy \in Book!OrderRow /\ SameOrder(copy, req[r].copy) /\ copy.status = Book!Refunded
        /\ copy.contents = req[r].copy.contents /\ SameOrder(copy, orders[req[r].order])
    BY <1>3, <2>2 DEF Book!OrderRow, Book!Status, SameOrder
  <2>5. RowFits(copy)
    BY <2>3, <2>4 DEF RowFits, Book!Refunded, Book!Delivered
  <2>6. RowBecomes(o, IF no THEN orders[o] ELSE copy)
    BY <1>1, <1>4, <1>5, <1>8, <2>2, <2>4, <2>5, RowStep DEF SaveRefund
  <2>7. RowBecomes(req[r].order, copy)
    BY <1>4, <1>5, <2>6
  <2>8. Becomes(r, IdleReq) /\ SavesRefund(r, IdleReq)
    BY <1>3, <1>8, <2>1, <2>4, <2>7 DEF SaveRefund, Answer, Becomes, SavesRefund
  <2> QED
    BY <2>8 DEF Does
<1> QED
  BY <1>6, <1>7, <1>8

\* SavePaid.
LEMMA PaidStep ==
  ASSUME StorefrontInv, NEW r \in Request, SavePaid(r)
  PROVE  \E q : Becomes(r, q) /\ Does(r, q)
<1>1. /\ At(r, "savepaid") /\ Book!UpdateOrder(req[r].order, req[r].copy, FALSE)
      /\ IF req[r].copy.contents # {} THEN Got(r, req[r].copy.contents, FALSE)
         ELSE Goto(r, "deliver")
      /\ UNCHANGED accountVars
  BY DEF SavePaid
<1>2. /\ RequestsSane /\ req[r] \in Busy /\ Sane(req[r])
      /\ req[r].pc = "savepaid" /\ req[r].copy \in Book!OrderRow
      /\ req[r].order \in Book!OrderIds /\ SameOrder(req[r].copy, orders[req[r].order])
      /\ req[r].pc \notin Reading
  BY <1>1, Standing, PlacesKnown
<1>3. req[r].kind = "finish" /\ req[r].copy.status = Book!Paid
  BY <1>2 DEF Sane, Kinds, Copies, Ordering, Reading, BuyPath, EndPath, PayPath, Busy
<1>4. RowFits(req[r].copy)
  BY <1>3 DEF RowFits, Book!Paid, Book!Delivered, Book!Refunded
<1>5. PICK moved \in BOOLEAN : moved = FALSE
  OBVIOUS
<1>6. PICK o \in Book!OrderIds : o = req[r].order
  BY <1>2
<1>7. RowBecomes(o, IF moved THEN orders[o] ELSE req[r].copy)
  BY <1>1, <1>2, <1>4, <1>5, <1>6, RowStep
<1>8. RowBecomes(req[r].order, req[r].copy)
  BY <1>5, <1>6, <1>7
<1>9. CASE req[r].copy.contents = {}
  <2>1. "deliver" \in Place
    BY PlacesKnown DEF BuyPath
  <2>2. PICK q : Goes(r, q, "deliver")
    BY <1>1, <1>2, <1>9, <2>1, HandGoes
  <2>3. SavesPaid(r, q)
    BY <1>2, <1>3, <1>8, <2>2 DEF Goes, SameHand, SavesPaid
  <2> QED
    BY <2>2, <2>3 DEF Goes, Does
<1>10. CASE req[r].copy.contents # {}
  <2>1. PICK goods \in SUBSET Int : goods = req[r].copy.contents
    BY <1>2 DEF Book!OrderRow, Goods
  <2>2. Got(r, goods, moved) /\ Enough(req[r], goods) /\ req[r].pc \in {"deliver", "savepaid"}
    BY <1>1, <1>2, <1>3, <1>5, <1>10, <2>1 DEF Enough
  <2>3. Obtains(r, goods, moved)
    BY <1>2, <2>2, GotGoods
  <2>4. PICK q \in Busy : req' = [req EXCEPT ![r] = q] /\ Delivers(req[r], q, goods, moved)
    BY <2>3 DEF Obtains
  <2>5. q.kind = "finish" /\ q.pc \in EndPath
    BY <1>3, <2>4 DEF Delivers, EndPath
  <2>6. SavesPaid(r, q)
    BY <1>2, <1>3, <1>8, <2>4, <2>5 DEF SavesPaid
  <2> QED
    BY <2>4, <2>6 DEF Becomes, Does
<1> QED
  BY <1>9, <1>10

\* A call of the store that fails.
LEMMA FaultStep ==
  ASSUME StorefrontInv, NEW r \in Request, StoreFails(r)
  PROVE  \E q : Becomes(r, q) /\ Does(r, q)
<1> DEFINE x == req[r]
<1>1. x \in Busy /\ Sane(x)
  BY StoreFailed
<1>2. PICK q : /\ req' = [req EXCEPT ![r] = q]
               /\ \/ q = IdleReq
                  \/ /\ q \in Busy /\ Onwards(x, q)
                     /\ q.kind = x.kind /\ q.user = x.user
                     /\ q.order = x.order /\ q.copy = x.copy /\ q.moved = x.moved
  BY StoreFailed
<1>3. Faults /\ UNCHANGED orders
  BY DEF StoreFails, bookVars
<1>4. CASE q = IdleReq
  <2>1. CASE x.pc \in {"credit", "accrue"}
    <3>1. Accrues(r, q)
      BY <1>3, <1>4, <2>1 DEF StoreFails, Acc!Abandon, Accrues
    <3> QED
      BY <1>2, <3>1 DEF Becomes, Does
  <2>2. CASE x.pc \notin {"credit", "accrue"}
    <3>1. Quits(r, q)
      BY <1>3, <1>4, <2>2 DEF StoreFails, accountVars, Still, Quits
    <3> QED
      BY <1>2, <3>1 DEF Becomes, Does
  <2> QED
    BY <2>1, <2>2
<1>5. CASE q \in Busy /\ Onwards(x, q)
  <2>1. SameHand(q, x)
    BY <1>2, <1>5, IdleHolds DEF SameHand
  <2>2. Still
    <3>1. x.pc \notin {"credit", "accrue"}
      BY <1>5 DEF Onwards
    <3> QED
      BY <1>3, <3>1 DEF StoreFails, accountVars, Still
  <2>3. CASE x.pc = "bind" /\ q.pc = "coupon"
    <3>1. x.kind \in {"buy", "order"}
      BY <1>1, <2>3 DEF Sane, Kinds, Ordering, Reading, BuyPath, EndPath, PayPath, Busy
    <3>2. x.copy \in Book!OrderRow /\ x.copy.amount \in Nat
      BY <2>3, Standing, PlacesKnown DEF At, Ordering
    <3>3. Prepares(r, q)
      BY <1>1, <1>5, <2>1, <2>2, <2>3, <3>1, <3>2 DEF Prepares, SameHand
    <3> QED
      BY <1>2, <3>3 DEF Becomes, Does
  <2>4. CASE x.pc = "mark" /\ q.pc = "finish"
    <3>1. x.kind = "finish"
      BY <1>1, <2>4 DEF Sane, Kinds, Ordering, Reading, BuyPath, EndPath, PayPath, Busy
    <3>2. Reads(r, q)
      BY <1>1, <1>5, <2>1, <2>2, <2>4, <3>1 DEF Reads, SameHand
    <3> QED
      BY <1>2, <3>2 DEF Becomes, Does
  <2>5. CASE x.pc \in {"use", "deliver"}
    <3>1. Moves(r, q)
      BY <1>1, <1>5, <2>1, <2>2, <2>5 DEF Moves, Onwards
    <3> QED
      BY <1>2, <3>1 DEF Becomes, Does
  <2>6. CASE x.pc \in {"refund", "save", "link"}
    <3>1. Skips(r, q)
      BY <1>1, <1>3, <1>5, <2>1, <2>2, <2>6 DEF Skips, Onwards
    <3> QED
      BY <1>2, <3>1 DEF Becomes, Does
  <2> QED
    BY <1>5, <2>3, <2>4, <2>5, <2>6 DEF Onwards
<1> QED
  BY <1>2, <1>4, <1>5

\* Every step of a request is one of the kinds above.
LEMMA EveryStep ==
  ASSUME StorefrontInv, NEW r \in Request, Begin(r) \/ Proceed(r) \/ StoreFails(r)
  PROVE  \E q : Becomes(r, q) /\ Does(r, q)
<1>1. CASE Begin(r)
  BY <1>1, AskStep
<1>2. CASE Proceed(r)
  BY <1>2, PrepareStep, PlaceStep, MoveStep, ReadStep, EnterStep, PullStep, TradeStep,
    CommissionStep, WriteStep, PaidStep DEF Proceed
<1> QED
  BY <1>1, <1>2, FaultStep

-----------------------------------------------------------------------------
(* The entries of the journals.                                            *)

InJournal(e) == e \in User \X (1 .. MaxEntries) /\ e[2] <= Len(journal[e[1]])

LEMMA EntriesAre ==
  /\ \A o, e : e \in MoneyEntries(o) <=>
       InJournal(e) /\ EntryAt(e).order = o /\ EntryAt(e).type \in {"consume", "refund"}
  /\ \A o, e : e \in MoneyEntries(o)' <=>
       InJournal(e)' /\ EntryAt(e)'.order = o /\ EntryAt(e)'.type \in {"consume", "refund"}
  /\ \A o, e : e \in CreditsFor(o) <=>
       InJournal(e) /\ EntryAt(e).order = o /\ EntryAt(e).type = "referral"
  /\ \A o, e : e \in CreditsFor(o)' <=>
       InJournal(e)' /\ EntryAt(e)'.order = o /\ EntryAt(e)'.type = "referral"
BY DEF MoneyEntries, CreditsFor, InJournal, EntryAt

\* The entry a post adds.
NewEntry(n, u, typ, a, o) ==
  /\ n[1] = u /\ ~InJournal(n)
  /\ EntryAt(n)'.type = typ /\ EntryAt(n)'.amount = a /\ EntryAt(n)'.order = o
  /\ \A f : InJournal(f)' <=> InJournal(f) \/ f = n
  /\ \A f : InJournal(f) => EntryAt(f)' = EntryAt(f)
  /\ \A f : InJournal(f) /\ f[1] = u => f[2] < n[2]

\* A post adds one entry and changes one balance.
LEMMA Posted ==
  ASSUME Acc!AccountsTypeOK, NEW u \in User, NEW typ \in Acc!EntryType, NEW a \in Int,
         NEW o \in Nat, o \in Order \cup {NoOrder}, NEW b \in User \cup {NoUser},
         Acc!Post(u, typ, a, o, b)
  PROVE  /\ \E n : NewEntry(n, u, typ, a, o)
         /\ balance' \in [User -> Int] /\ balance'[u] = balance[u] + a
         /\ \A v \in User \ {u} : balance'[v] = balance[v]
<1> DEFINE len == Len(journal[u])
<1>1. /\ balance' \in [User -> Int] /\ balance'[u] = balance[u] + a
      /\ len \in Nat /\ len < MaxEntries
      /\ Len(journal'[u]) = len + 1
      /\ \A i \in 1 .. len : journal'[u][i] = journal[u][i]
      /\ journal'[u][len + 1] =
           [type |-> typ, amount |-> a, balance |-> balance[u] + a, order |-> o, buyer |-> b]
      /\ \A v \in User \ {u} : balance'[v] = balance[v] /\ journal'[v] = journal[v]
  BY EntryPosted
<1>2. PICK k \in Nat : k = len
  BY <1>1
<1>3. PICK n : n = <<u, k + 1>>
  OBVIOUS
<1>4. n \in User \X (1 .. MaxEntries) /\ n[1] = u /\ n[2] = k + 1
  BY <1>1, <1>2, <1>3, StorefrontAssumption DEF MaxEntries
<1>5. ~InJournal(n)
  BY <1>2, <1>4 DEF InJournal
<1>6. EntryAt(n)'.type = typ /\ EntryAt(n)'.amount = a /\ EntryAt(n)'.order = o
  BY <1>1, <1>2, <1>4 DEF EntryAt
<1>7. ASSUME NEW f
      PROVE  /\ InJournal(f)' <=> InJournal(f) \/ f = n
             /\ InJournal(f) => EntryAt(f)' = EntryAt(f)
             /\ InJournal(f) /\ f[1] = u => f[2] < n[2]
  <2>1. f \in User \X (1 .. MaxEntries) => f = <<f[1], f[2]>> /\ f[1] \in User /\ f[2] \in 1 .. MaxEntries
    OBVIOUS
  <2>2. CASE f \in User \X (1 .. MaxEntries) /\ f[1] = u
    <3>1. f[2] \in Nat /\ f[2] >= 1 /\ (f = n <=> f[2] = k + 1)
      BY <1>3, <2>1, <2>2, StorefrontAssumption DEF MaxEntries
    <3>2. InJournal(f) <=> f[2] <= k
      BY <1>2, <2>2 DEF InJournal
    <3>3. InJournal(f)' <=> f[2] <= k + 1
      BY <1>1, <1>2, <2>2 DEF InJournal
    <3>4. InJournal(f) => EntryAt(f)' = EntryAt(f)
      BY <1>1, <1>2, <2>2, <3>1, <3>2 DEF EntryAt
    <3> QED
      BY <1>4, <3>1, <3>2, <3>3, <3>4
  <2>3. CASE f \in User \X (1 .. MaxEntries) /\ f[1] # u
    <3>1. journal'[f[1]] = journal[f[1]] /\ f # n
      BY <1>1, <1>4, <2>1, <2>3
    <3> QED
      BY <2>3, <3>1 DEF InJournal, EntryAt
  <2>4. CASE f \notin User \X (1 .. MaxEntries)
    BY <1>4, <2>4 DEF InJournal
  <2> QED
    BY <2>2, <2>3, <2>4
<1>8. NewEntry(n, u, typ, a, o)
  BY <1>4, <1>5, <1>6, <1>7 DEF NewEntry
<1> QED
  BY <1>1, <1>8

-----------------------------------------------------------------------------
(* The money of an order.                                                  *)

\* Order o was charged to u.
ChargedTo(o, u, a) ==
  \E e \in MoneyEntries(o) : e[1] = u /\ EntryAt(e).type = "consume" /\ EntryAt(e).amount = -a

\* A request inside the balance path, and how far the money is there.
Buying(q) == q \in Busy /\ q.kind = "buy" /\ q.pc \in BuyPath
Charged == {"deliver", "save", "link", "refund"}
Undelivered == {"charge", "deliver", "refund"}

Progress(q) ==
  /\ q.pc = "charge" => MoneyEntries(q.order) = {}
  /\ q.pc \in Charged =>
       ChargedTo(q.order, q.user, q.copy.amount) /\ ~HasEntry(q.order, "refund")
  /\ q.pc \in Undelivered => orders[q.order].status # Book!Delivered

\* What RefundsReturnCharge says of one order.
OrderFits(o) ==
  /\ \A e \in MoneyEntries(o) :
       \/ EntryAt(e).type = "consume" /\ EntryAt(e).amount \in {0, -orders[o].amount}
       \/ /\ EntryAt(e).type = "refund" /\ EntryAt(e).amount = orders[o].amount
          /\ \E f \in MoneyEntries(o) :
               /\ f[1] = e[1] /\ f[2] < e[2]
               /\ EntryAt(f).type = "consume" /\ EntryAt(f).amount = -orders[o].amount
  /\ \A e, f \in MoneyEntries(o) :
       EntryAt(e).type = EntryAt(f).type => e = f \/ 0 \in {EntryAt(e).amount, EntryAt(f).amount}
  /\ orders[o].status = Book!Delivered => ~HasEntry(o, "refund")

\* No entry is about an order that does not exist yet.
NamesOrders == \A o \in Order \ Book!OrderIds : MoneyEntries(o) = {}

\* A request in the balance path is alone with its order there.
OwnOrders ==
  \A r, s \in Request :
    Buying(req[r]) /\ Buying(req[s]) /\ req[r].order = req[s].order => r = s

CheckoutInv ==
  /\ StorefrontInv
  /\ NamesOrders
  /\ OwnOrders
  /\ \A r \in Request : Buying(req[r]) => Progress(req[r])
  /\ \A o \in Book!OrderIds : OrderFits(o)

\* The entries about order o stay what they are.
SameEntries(o) ==
  /\ \A e : e \in MoneyEntries(o)' <=> e \in MoneyEntries(o)
  /\ \A e : e \in MoneyEntries(o) => EntryAt(e)' = EntryAt(e)

\* What a request is told of its order is told of the order it names.
LEMMA ProgressOf ==
  ASSUME NEW s \in Request, NEW y, y = req'[s], Progress(y)'
  PROVE  Progress(req[s])'
<1>1. (req[s].pc = "charge" => MoneyEntries(req[s].order) = {})'
  BY DEF Progress, MoneyEntries, EntryAt
<1>2. (req[s].pc \in Charged => ChargedTo(req[s].order, req[s].user, req[s].copy.amount))'
  BY DEF Progress, ChargedTo, MoneyEntries, EntryAt
<1>3. (req[s].pc \in Charged => ~HasEntry(req[s].order, "refund"))'
  BY DEF Progress, HasEntry, MoneyEntries, EntryAt
<1>4. (req[s].pc \in Undelivered => orders[req[s].order].status # Book!Delivered)'
  BY DEF Progress
<1> QED
  BY <1>1, <1>2, <1>3, <1>4 DEF Progress

LEMMA JournalStays ==
  ASSUME UNCHANGED journal
  PROVE  \A o : SameEntries(o)
<1>1. \A e : (InJournal(e)' <=> InJournal(e)) /\ EntryAt(e)' = EntryAt(e)
  BY DEF InJournal, EntryAt
<1> QED
  BY <1>1, EntriesAre DEF SameEntries

\* A new entry concerns its order, and only if it is a charge or a refund.
LEMMA EntryAdds ==
  ASSUME NEW n, NEW u, NEW typ, NEW a, NEW o, NewEntry(n, u, typ, a, o)
  PROVE  /\ \A p : p # o \/ typ \notin {"consume", "refund"} => SameEntries(p)
         /\ typ \in {"consume", "refund"} =>
              /\ \A e : e \in MoneyEntries(o)' <=> e \in MoneyEntries(o) \/ e = n
              /\ \A e : e \in MoneyEntries(o) => EntryAt(e)' = EntryAt(e) /\ e # n
              /\ \A e : e \in MoneyEntries(o) /\ e[1] = u => e[2] < n[2]
<1>1. \A p, e : e \in MoneyEntries(p)'
        <=> e \in MoneyEntries(p) \/ (e = n /\ p = o /\ typ \in {"consume", "refund"})
  BY EntriesAre DEF NewEntry
<1>2. \A p, e : e \in MoneyEntries(p) => EntryAt(e)' = EntryAt(e) /\ e # n
  BY EntriesAre DEF NewEntry
<1>3. \A p, e : e \in MoneyEntries(p) /\ e[1] = u => e[2] < n[2]
  BY EntriesAre DEF NewEntry
<1> QED
  BY <1>1, <1>2, <1>3 DEF SameEntries

LEMMA ProgressKept ==
  ASSUME NEW q, NEW x, Progress(x), SameEntries(x.order),
         q.order = x.order, q.user = x.user, q.copy.amount = x.copy.amount,
         (x.pc \in Charged /\ q.pc \in Charged) \/ q.pc = x.pc,
         q.pc \in Undelivered =>
           /\ x.pc \in Undelivered
           /\ orders'[x.order].status = Book!Delivered => orders[x.order].status = Book!Delivered
  PROVE  Progress(q)'
<1>1. \A u, a : ChargedTo(x.order, u, a) => ChargedTo(x.order, u, a)'
  BY DEF ChargedTo, SameEntries
<1>2. \A t : HasEntry(x.order, t)' <=> HasEntry(x.order, t)
  BY DEF HasEntry, SameEntries
<1>3. MoneyEntries(x.order) = {} => MoneyEntries(x.order)' = {}
  BY DEF SameEntries
<1>4. q.order = x.order => /\ ChargedTo(q.order, q.user, q.copy.amount)'
                                <=> ChargedTo(x.order, q.user, q.copy.amount)'
                           /\ \A t : HasEntry(q.order, t)' <=> HasEntry(x.order, t)'
                           /\ MoneyEntries(q.order)' = MoneyEntries(x.order)'
  BY DEF ChargedTo, HasEntry, MoneyEntries, EntryAt
<1> QED
  BY <1>1, <1>2, <1>3, <1>4 DEF Progress, Charged

LEMMA FitsKept ==
  ASSUME NEW o, SameEntries(o), OrderFits(o), orders'[o].amount = orders[o].amount,
         orders'[o].status = Book!Delivered =>
           orders[o].status = Book!Delivered \/ ~HasEntry(o, "refund")
  PROVE  OrderFits(o)'
<1>1. \A t : HasEntry(o, t)' <=> HasEntry(o, t)
  BY DEF HasEntry, SameEntries
<1> QED
  BY <1>1 DEF OrderFits, SameEntries

\* A step that posts nothing about an order: what it may do.
QuietMoney(r, q) ==
  /\ \A o \in Order : SameEntries(o)
  /\ \A o \in Book!OrderIds' :
       \/ /\ o \in Book!OrderIds /\ orders'[o].amount = orders[o].amount
          /\ orders'[o].status = Book!Delivered =>
               \/ orders[o].status = Book!Delivered
               \/ Buying(req[r]) /\ req[r].order = o /\ req[r].pc = "save"
       \/ /\ o \in Order \ Book!OrderIds /\ orders'[o].status # Book!Delivered
  /\ Book!OrderIds \subseteq Book!OrderIds'
  /\ Buying(q) =>
       \/ q.pc = "charge" /\ q.order \in Book!OrderIds' \ Book!OrderIds /\ q.order \in Order
       \/ /\ Buying(req[r]) /\ req[r].pc \in Charged /\ q.pc \in Charged
          /\ q.order = req[r].order /\ q.user = req[r].user
          /\ q.copy.amount = req[r].copy.amount
          /\ q.pc \in Undelivered => req[r].pc \in Undelivered
       \/ q.pc = "saverefund" /\ Buying(req[r]) /\ q.order = req[r].order

\* The orders of the balance path exist.
LEMMA BuyingOrders ==
  ASSUME StorefrontInv, NEW r \in Request, Buying(req[r])
  PROVE  /\ req[r].order \in Book!OrderIds /\ req[r].order \in Order /\ req[r].order \in Nat
         /\ req[r].user \in User /\ req[r].copy \in Book!OrderRow /\ req[r].copy.amount \in Nat
         /\ SameOrder(req[r].copy, orders[req[r].order])
<1>1. req[r].pc \in Place /\ At(r, req[r].pc) /\ req[r].pc \notin Reading \cup Ordering
  BY PlacesKnown DEF Buying, At
<1>2. req[r].user \in User
  <2>1. Sane(req[r])
    BY <1>1, Standing
  <2> QED
    BY <2>1 DEF Sane, Kinds, Buying
<1> QED
  BY <1>1, <1>2, Standing

\* The parts of the invariant that are about all requests, after a step of r.
LEMMA OthersKept ==
  ASSUME CheckoutInv, StorefrontInv', NEW r \in Request, NEW q, Becomes(r, q),
         \A o \in Order : SameEntries(o) \/ (Buying(req[r]) /\ o = req[r].order),
         Book!OrderIds \subseteq Book!OrderIds',
         \A o \in Book!OrderIds :
           \/ orders'[o].status = Book!Delivered => orders[o].status = Book!Delivered
           \/ Buying(req[r]) /\ o = req[r].order,
         Buying(q) => \/ q.order \notin Book!OrderIds
                      \/ Buying(req[r]) /\ q.order = req[r].order,
         Buying(q) => Progress(q)',
         \A o \in Book!OrderIds' : OrderFits(o)'
  PROVE  CheckoutInv'
<1>1. /\ req'[r] = q /\ \A s \in Request \ {r} : req'[s] = req[s]
      /\ RequestsSane /\ StorefrontInv
  BY DEF Becomes, CheckoutInv, StorefrontInv, RequestsSane
<1>2. \A s \in Request : Buying(req[s]) => req[s].order \in Book!OrderIds /\ req[s].order \in Order
  BY <1>1, BuyingOrders
<1>3. NamesOrders'
  <2>1. ASSUME NEW o \in Order, o \notin Book!OrderIds'
        PROVE  MoneyEntries(o)' = {}
    <3>1. o \notin Book!OrderIds /\ MoneyEntries(o) = {}
      BY <2>1 DEF CheckoutInv, NamesOrders
    <3>2. SameEntries(o)
      BY <1>2, <3>1
    <3> QED
      BY <3>1, <3>2 DEF SameEntries
  <2> QED
    BY <2>1 DEF NamesOrders
<1>4. OwnOrders'
  <2>1. ASSUME NEW s \in Request, NEW t \in Request, Buying(req'[s]), Buying(req'[t]),
               req'[s].order = req'[t].order
        PROVE  s = t
    BY <1>1, <1>2, <2>1 DEF CheckoutInv, OwnOrders
  <2> QED
    BY <2>1 DEF OwnOrders, Buying
<1>5. ASSUME NEW s \in Request, Buying(req'[s])
      PROVE  Progress(req[s])'
  <2>1. CASE s = r
    <3>1. PICK y : y = req'[s]
      OBVIOUS
    <3>2. Progress(y)'
      BY <1>1, <1>5, <2>1, <3>1
    <3> QED
      BY <3>1, <3>2, ProgressOf
  <2>2. CASE s # r
    <3>1. PICK y : y = req[s]
      OBVIOUS
    <3>2. req'[s] = y /\ Buying(y) /\ Progress(y)
      BY <1>1, <1>5, <2>2, <3>1 DEF CheckoutInv
    <3>3. /\ SameEntries(y.order)
          /\ orders'[y.order].status = Book!Delivered => orders[y.order].status = Book!Delivered
      BY <1>2, <2>2, <3>1, <3>2 DEF CheckoutInv, OwnOrders
    <3>4. Progress(y)'
      BY <3>2, <3>3, ProgressKept
    <3> QED
      BY <3>2, <3>4, ProgressOf
  <2> QED
    BY <2>1, <2>2
<1> QED
  BY <1>3, <1>4, <1>5 DEF CheckoutInv, Buying

LEMMA QuietKeeps ==
  ASSUME CheckoutInv, StorefrontInv', NEW r \in Request, NEW q, Becomes(r, q), QuietMoney(r, q)
  PROVE  CheckoutInv'
<1>1. StorefrontInv
  BY DEF CheckoutInv
<1>2. Buying(q) => Progress(q)'
  <2>1. CASE q.pc = "charge" /\ q.order \in Book!OrderIds' \ Book!OrderIds /\ q.order \in Order
    <3>1. MoneyEntries(q.order) = {} /\ SameEntries(q.order)
      BY <2>1 DEF CheckoutInv, NamesOrders, QuietMoney
    <3>2. orders'[q.order].status # Book!Delivered
      BY <2>1 DEF QuietMoney
    <3> QED
      BY <2>1, <3>1, <3>2 DEF Progress, SameEntries, Charged
  <2>2. CASE /\ Buying(req[r]) /\ req[r].pc \in Charged /\ q.pc \in Charged
             /\ q.order = req[r].order /\ q.user = req[r].user
             /\ q.copy.amount = req[r].copy.amount
             /\ q.pc \in Undelivered => req[r].pc \in Undelivered
    <3>1. PICK x : x = req[r]
      OBVIOUS
    <3>2. Progress(x) /\ SameEntries(x.order) /\ x.order \in Book!OrderIds
      BY <1>1, <2>2, <3>1, BuyingOrders DEF CheckoutInv, QuietMoney
    <3>3. q.pc \in Undelivered =>
            /\ x.pc \in Undelivered
            /\ orders'[x.order].status = Book!Delivered => orders[x.order].status = Book!Delivered
      BY <2>2, <3>1, <3>2 DEF QuietMoney, Undelivered
    <3> QED
      BY <2>2, <3>1, <3>2, <3>3, ProgressKept
  <2>3. CASE q.pc = "saverefund"
    BY <2>3 DEF Progress, Charged, Undelivered
  <2> QED
    BY <2>1, <2>2, <2>3 DEF QuietMoney
<1>3. ASSUME NEW o \in Book!OrderIds'
      PROVE  OrderFits(o)'
  <2>1. CASE /\ o \in Book!OrderIds /\ orders'[o].amount = orders[o].amount
             /\ orders'[o].status = Book!Delivered =>
                  \/ orders[o].status = Book!Delivered
                  \/ Buying(req[r]) /\ req[r].order = o /\ req[r].pc = "save"
    <3>1. SameEntries(o)
      BY <1>1, <2>1, IdsAreNumbers DEF QuietMoney, StorefrontInv
    <3>2. Buying(req[r]) /\ req[r].order = o /\ req[r].pc = "save" => ~HasEntry(o, "refund")
      BY DEF CheckoutInv, Progress, Charged
    <3> QED
      BY <2>1, <3>1, <3>2, FitsKept DEF CheckoutInv
  <2>2. CASE o \in Order \ Book!OrderIds /\ orders'[o].status # Book!Delivered
    <3>1. MoneyEntries(o) = {} /\ SameEntries(o)
      BY <2>2 DEF CheckoutInv, NamesOrders, QuietMoney
    <3> QED
      BY <2>2, <3>1 DEF OrderFits, SameEntries
  <2> QED
    BY <2>1, <2>2 DEF QuietMoney
<1>4. Buying(q) => \/ q.order \notin Book!OrderIds
                   \/ Buying(req[r]) /\ q.order = req[r].order
  BY DEF QuietMoney
<1>5. \A o \in Book!OrderIds :
        \/ orders'[o].status = Book!Delivered => orders[o].status = Book!Delivered
        \/ Buying(req[r]) /\ o = req[r].order
  BY DEF QuietMoney
<1> QED
  BY <1>2, <1>3, <1>4, <1>5, OthersKept DEF QuietMoney

\* Rows that stay, or that one copy replaces.
LEMMA RowsStay ==
  ASSUME UNCHANGED orders
  PROVE  /\ Book!OrderIds' = Book!OrderIds
         /\ \A o \in Book!OrderIds' : o \in Book!OrderIds /\ orders'[o] = orders[o]
BY DEF Book!OrderIds

LEMMA QuietStep ==
  ASSUME CheckoutInv, NEW r \in Request, NEW q, Becomes(r, q), Does(r, q),
         ~Charges(r, q), ~Links(r, q), ~Refunds(r, q)
  PROVE  QuietMoney(r, q)
<1> DEFINE x == req[r]
           SameBuyer == /\ Buying(x) /\ x.pc \in Charged /\ q.pc \in Charged
                        /\ q.order = x.order /\ q.user = x.user /\ q.copy.amount = x.copy.amount
                        /\ q.pc \in Undelivered => x.pc \in Undelivered
<1>0. StorefrontInv /\ Acc!AccountsTypeOK
  BY DEF CheckoutInv, StorefrontInv
<1>1. IdleReq \notin Busy
  BY IdleHolds
<1>2. ASSUME UNCHANGED <<journal, orders>>, Buying(q) => SameBuyer
      PROVE  QuietMoney(r, q)
  BY <1>2, JournalStays, RowsStay DEF QuietMoney
<1>3. CASE Asks(r, q)
  <2>1. ~Buying(q)
    BY <1>3 DEF Asks, Buying, BuyPath, Reading
  <2> QED
    BY <1>2, <1>3, <2>1 DEF Asks, Still
<1>4. CASE Quits(r, q)
  BY <1>1, <1>2, <1>4 DEF Quits, Still, Buying
<1>5. CASE Prepares(r, q)
  <2>1. ~Buying(q)
    BY <1>5 DEF Prepares, Buying, BuyPath
  <2> QED
    BY <1>2, <1>5, <2>1 DEF Prepares, Still
<1>6. CASE Places(r, q)
  <2>1. PICK o : /\ NewRow(o, x.copy)
                 /\ \/ q = IdleReq
                    \/ q.order = o /\ q.kind = x.kind
                       /\ q.pc = (IF x.kind = "buy" THEN "charge" ELSE "payrow")
    BY <1>6 DEF Places
  <2>2. x.copy.status = Book!Pending
    BY <1>6 DEF Places, Sane, Copies, Ordering
  <2>3. \A p \in Order : SameEntries(p)
    BY <1>6, JournalStays DEF Places
  <2>4. Buying(q) => /\ q.pc = "charge" /\ q.order \in Book!OrderIds' \ Book!OrderIds
                     /\ q.order \in Order
    BY <1>1, <2>1 DEF Buying, NewRow, BuyPath
  <2>5. \A p \in Book!OrderIds' :
          \/ p \in Book!OrderIds /\ orders'[p] = orders[p]
          \/ p \in Order \ Book!OrderIds /\ orders'[p].status # Book!Delivered
    BY <2>1, <2>2 DEF NewRow, Book!Pending, Book!Delivered
  <2>6. Book!OrderIds \subseteq Book!OrderIds'
    BY <2>1 DEF NewRow
  <2> QED
    BY <2>3, <2>4, <2>5, <2>6 DEF QuietMoney
<1>7. CASE Moves(r, q)
  <2>1. Buying(q) => SameBuyer
    BY <1>7 DEF Moves, SameHand, Buying, Charged, Undelivered, BuyPath
  <2> QED
    BY <1>2, <1>7, <2>1 DEF Moves, Still
<1>8. CASE Reads(r, q)
  BY <1>2, <1>8 DEF Reads, Still, Buying
<1>9. CASE Receives(r, q)
  <2>1. Buying(q) => SameBuyer
    BY <1>9 DEF Receives, Delivers, SameOrder, Buying, Charged, Undelivered, BuyPath
  <2> QED
    BY <1>2, <1>9, <2>1 DEF Receives, Still
<1>10. CASE PayCharges(r, q)
  <2>1. /\ UNCHANGED orders /\ Acc!Post(x.user, "consume", -x.copy.amount, NoOrder, NoUser)
        /\ x \in Busy /\ Sane(x) /\ x.pc = "paycharge" /\ q.pc = "paylink"
    BY <1>10 DEF PayCharges, Enters
  <2>2. x.user \in User /\ x.copy.amount \in Nat
    BY <2>1 DEF Sane, Kinds, Copies, Reading, Ordering, BuyPath, EndPath, PayPath, Busy, Book!OrderRow
  <2>3. PICK a \in Int : a = -x.copy.amount
    BY <2>2
  <2>4. PICK n : NewEntry(n, x.user, "consume", a, NoOrder)
    <3>1. "consume" \in Acc!EntryType /\ NoOrder \in Nat /\ NoUser \in User \cup {NoUser}
      BY DEF Acc!EntryType, NoOrder
    <3> QED
      BY <1>0, <2>1, <2>2, <2>3, <3>1, Posted
  <2>5. NoOrder \notin Order
    BY DEF NoOrder, Order
  <2>6. \A o \in Order : SameEntries(o)
    BY <2>4, <2>5, EntryAdds
  <2>7. ~Buying(q)
    BY <2>1 DEF Buying, BuyPath
  <2> QED
    BY <2>1, <2>6, <2>7, RowsStay DEF QuietMoney
<1>11. CASE Earns(r, q)
  <2>1. ~Buying(q)
    BY <1>11 DEF Earns, Buying, BuyPath
  <2> QED
    BY <1>2, <1>11, <2>1 DEF Earns
<1>12. CASE Credits(r, q)
  <2>1. /\ UNCHANGED orders /\ q.pc = "accrue" /\ jobs[r] \in Acc!Job
        /\ Acc!Post(jobs[r].referrer, "referral", jobs[r].amount, jobs[r].order, jobs[r].buyer)
    BY <1>12 DEF Credits
  <2>2. /\ jobs[r].referrer \in User /\ jobs[r].buyer \in User /\ jobs[r].order \in Order
        /\ jobs[r].order \in Nat /\ jobs[r].amount \in Int
    BY <2>1, StorefrontAssumption DEF Acc!Job, Order
  <2>3. PICK n : NewEntry(n, jobs[r].referrer, "referral", jobs[r].amount, jobs[r].order)
    <3>1. "referral" \in Acc!EntryType
      BY DEF Acc!EntryType
    <3> QED
      BY <1>0, <2>1, <2>2, <3>1, Posted
  <2>4. \A o \in Order : SameEntries(o)
    BY <2>3, EntryAdds
  <2>5. ~Buying(q)
    BY <2>1 DEF Buying, BuyPath
  <2> QED
    BY <2>1, <2>4, <2>5, RowsStay DEF QuietMoney
<1>13. CASE Accrues(r, q)
  BY <1>1, <1>2, <1>13 DEF Accrues, Buying
<1>14. ASSUME NEW copy, SameOrder(copy, orders[x.order]), RowBecomes(x.order, copy),
              copy.status = Book!Delivered =>
                orders[x.order].status = Book!Delivered \/ (Buying(x) /\ x.pc = "save"),
              Buying(q) => SameBuyer
       PROVE  QuietMoney(r, q)
  <2>1. \A o \in Order : SameEntries(o)
    BY <1>14, JournalStays DEF RowBecomes
  <2>2. \A p \in Book!OrderIds' :
          /\ p \in Book!OrderIds /\ orders'[p].amount = orders[p].amount
          /\ orders'[p].status = Book!Delivered =>
               orders[p].status = Book!Delivered \/ (Buying(x) /\ x.order = p /\ x.pc = "save")
    BY <1>14 DEF RowBecomes, SameOrder
  <2> QED
    BY <1>14, <2>1, <2>2 DEF QuietMoney, RowBecomes
<1>15. CASE WritesBack(r, q)
  <2>1. SameOrder(x.copy, orders[x.order]) /\ x.copy.status # Book!Delivered
    BY <1>15 DEF WritesBack, Sane, Copies, Ordering, Reading, PayPath, Book!Pending, Book!Delivered
  <2> QED
    BY <1>1, <1>14, <1>15, <2>1 DEF WritesBack, Buying
<1>16. CASE Saves(r, q)
  <2>1. SameOrder(x.copy, orders[x.order]) /\ Buying(x) /\ x.pc = "save"
    BY <1>16 DEF Saves, Sane, Kinds, Copies, Ordering, Reading, BuyPath, EndPath, PayPath,
      Buying, Busy
  <2>2. Buying(q) => SameBuyer
    BY <1>16 DEF Saves, SameHand, Buying, Charged, Undelivered, BuyPath
  <2>3. PICK copy : copy = IF x.moved THEN orders[x.order] ELSE x.copy
    OBVIOUS
  <2>4. SameOrder(copy, orders[x.order]) /\ RowBecomes(x.order, copy)
    BY <1>16, <2>1, <2>3 DEF Saves, SameOrder
  <2> QED
    BY <1>14, <2>1, <2>2, <2>4
<1>17. CASE SavesRefund(r, q)
  <2>1. SameOrder(x.copy, orders[x.order])
    BY <1>17 DEF SavesRefund, Sane, Copies, Ordering, Reading
  <2>2. PICK copy : /\ SameOrder(copy, x.copy) /\ RowBecomes(x.order, copy)
                    /\ copy.status = Book!Refunded
    BY <1>17 DEF SavesRefund
  <2>3. SameOrder(copy, orders[x.order]) /\ copy.status # Book!Delivered
    BY <2>1, <2>2 DEF SameOrder, Book!Refunded, Book!Delivered
  <2> QED
    BY <1>1, <1>14, <1>17, <2>2, <2>3 DEF SavesRefund, Buying
<1>18. CASE SavesPaid(r, q)
  <2>1. /\ SameOrder(x.copy, orders[x.order]) /\ x.copy.status # Book!Delivered
        /\ RowBecomes(x.order, x.copy) /\ ~Buying(q)
    BY <1>18 DEF SavesPaid, Sane, Copies, Ordering, Reading, PayPath, BuyPath, Book!Paid,
      Book!Delivered, Buying
  <2> QED
    BY <1>14, <2>1
<1>19. CASE Skips(r, q)
  <2>1. UNCHANGED <<journal, orders>> /\ SameHand(q, x) /\ x \in Busy /\ Sane(x)
    BY <1>19 DEF Skips, Still
  <2>2. Buying(q) => SameBuyer \/ (q.pc = "saverefund" /\ Buying(x) /\ q.order = x.order)
    BY <1>19 DEF Skips, AfterLink, SameHand, Buying, Charged, Undelivered, BuyPath
  <2> QED
    BY <2>1, <2>2, JournalStays, RowsStay DEF QuietMoney
<1> QED
  BY <1>3, <1>4, <1>5, <1>6, <1>7, <1>8, <1>9, <1>10, <1>11, <1>12, <1>13, <1>15, <1>16,
    <1>17, <1>18, <1>19 DEF Does

\* One entry more about order o.
Grown(o, n, u, typ, a) ==
  /\ n[1] = u /\ EntryAt(n)'.type = typ /\ EntryAt(n)'.amount = a
  /\ \A e : e \in MoneyEntries(o)' <=> e \in MoneyEntries(o) \/ e = n
  /\ \A e : e \in MoneyEntries(o) => EntryAt(e)' = EntryAt(e) /\ e # n
  /\ \A e : e \in MoneyEntries(o) /\ e[1] = u => e[2] < n[2]

\* What a posting by the balance path does: o and u are the order and the user.
Enlarges(r, o, u, typ, a) ==
  /\ o \in Book!OrderIds /\ u \in User
  /\ o = req[r].order /\ u = req[r].user /\ req[r].copy.amount = orders[o].amount
  /\ UNCHANGED orders
  /\ OrderFits(o) /\ Progress(req[r])
  /\ \A p \in Order \ {o} : SameEntries(p)
  /\ \E n : Grown(o, n, u, typ, a)

LEMMA Entered ==
  ASSUME CheckoutInv, NEW r \in Request, NEW q, NEW pc, NEW next, NEW a \in Int,
         NEW typ \in {"consume", "refund"},
         Enters(r, q, pc, next, a, typ, req[r].order), Buying(req[r])
  PROVE  \E o, u : Enlarges(r, o, u, typ, a)
<1>1. PICK o : o = req[r].order
  OBVIOUS
<1>2. PICK u : u = req[r].user
  OBVIOUS
<1>3. /\ StorefrontInv /\ Acc!AccountsTypeOK /\ Progress(req[r])
      /\ UNCHANGED orders /\ Acc!Post(u, typ, a, o, NoUser)
  BY <1>1, <1>2 DEF CheckoutInv, StorefrontInv, Enters
<1>4. /\ o \in Book!OrderIds /\ o \in Order /\ o \in Nat /\ u \in User
      /\ req[r].copy.amount = orders[o].amount
  BY <1>1, <1>2, <1>3, BuyingOrders DEF SameOrder
<1>5. PICK n : NewEntry(n, u, typ, a, o)
  <2>1. typ \in Acc!EntryType /\ NoUser \in User \cup {NoUser}
    BY DEF Acc!EntryType
  <2> QED
    BY <1>3, <1>4, <2>1, Posted
<1>6. Grown(o, n, u, typ, a) /\ \A p \in Order \ {o} : SameEntries(p)
  <2>1. n[1] = u /\ EntryAt(n)'.type = typ /\ EntryAt(n)'.amount = a
    BY <1>5 DEF NewEntry
  <2> QED
    BY <1>5, <2>1, EntryAdds DEF Grown
<1> QED
  BY <1>1, <1>2, <1>3, <1>4, <1>6 DEF Enlarges, CheckoutInv

\* The parts of the invariant that are not about order o and request r.
LEMMA GrownKeeps ==
  ASSUME CheckoutInv, StorefrontInv', NEW r \in Request, NEW q, Becomes(r, q),
         NEW o, NEW u, NEW typ, NEW a, Enlarges(r, o, u, typ, a), Buying(req[r]),
         Buying(q) => q.order = o /\ Progress(q)', OrderFits(o)'
  PROVE  CheckoutInv'
<1>1. \A p \in Order : SameEntries(p) \/ (Buying(req[r]) /\ p = req[r].order)
  BY DEF Enlarges
<1>2. Book!OrderIds' = Book!OrderIds /\ \A p \in Book!OrderIds : orders'[p] = orders[p]
  BY RowsStay DEF Enlarges
<1>3. \A p \in Book!OrderIds' : OrderFits(p)'
  <2>1. ASSUME NEW p \in Book!OrderIds', p # o
        PROVE  OrderFits(p)'
    <3>1. p \in Order /\ p \in Book!OrderIds
      BY <1>2, <2>1, IdsAreNumbers DEF CheckoutInv, StorefrontInv
    <3>2. SameEntries(p) /\ OrderFits(p)
      BY <2>1, <3>1 DEF Enlarges, CheckoutInv
    <3> QED
      BY <1>2, <3>1, <3>2, FitsKept
  <2> QED
    BY <2>1
<1>4. Buying(q) => /\ Progress(q)'
                   /\ q.order \notin Book!OrderIds \/ (Buying(req[r]) /\ q.order = req[r].order)
  BY DEF Enlarges
<1>5. \A p \in Book!OrderIds :
        orders'[p].status = Book!Delivered => orders[p].status = Book!Delivered
  BY <1>2
<1> QED
  BY <1>1, <1>2, <1>3, <1>4, <1>5, OthersKept

\* Where the charge, the empty entry and the refund are posted.
LEMMA PostingBuyers ==
  ASSUME StorefrontInv, NEW r \in Request, NEW q, NEW pc \in {"charge", "link", "refund"},
         NEW next, NEW a, NEW typ, NEW o, Enters(r, q, pc, next, a, typ, o)
  PROVE  Buying(req[r]) /\ req[r].pc = pc /\ req[r].copy.amount \in Nat
<1>1. Buying(req[r]) /\ req[r].pc = pc
  BY DEF Enters, Sane, Kinds, Buying, BuyPath, Ordering, EndPath, PayPath, Reading, Busy
<1> QED
  BY <1>1, BuyingOrders

LEMMA ChargesKeeps ==
  ASSUME CheckoutInv, StorefrontInv', NEW r \in Request, NEW q, Becomes(r, q), Charges(r, q)
  PROVE  CheckoutInv'
<1>1. Buying(req[r]) /\ req[r].pc = "charge" /\ req[r].copy.amount \in Nat
  BY PostingBuyers DEF Charges, CheckoutInv
<1>2. PICK a \in Int : a = -req[r].copy.amount
  BY <1>1
<1>3. PICK o, u : Enlarges(r, o, u, "consume", a)
  BY <1>1, <1>2, Entered DEF Charges
<1>4. PICK n : Grown(o, n, u, "consume", a)
  BY <1>3 DEF Enlarges
<1>5. /\ q.pc = "deliver" /\ q.order = o /\ q.user = u /\ q.copy.amount = req[r].copy.amount
      /\ MoneyEntries(o) = {} /\ a = -orders[o].amount /\ orders'[o] = orders[o]
      /\ orders[o].status # Book!Delivered
  BY <1>1, <1>2, <1>3 DEF Charges, Enters, SameHand, Enlarges, Progress, Undelivered
<1>6. /\ \A e : e \in MoneyEntries(o)' <=> e = n
      /\ n[1] = u /\ EntryAt(n)'.type = "consume" /\ EntryAt(n)'.amount = a
  BY <1>4, <1>5 DEF Grown
<1>7. OrderFits(o)'
  BY <1>5, <1>6 DEF OrderFits
<1>8. Progress(q)'
  <2>1. ChargedTo(o, u, q.copy.amount)' /\ ~HasEntry(o, "refund")'
    BY <1>2, <1>5, <1>6 DEF ChargedTo, HasEntry
  <2>2. /\ ChargedTo(q.order, q.user, q.copy.amount)' <=> ChargedTo(o, u, q.copy.amount)'
        /\ HasEntry(q.order, "refund")' <=> HasEntry(o, "refund")'
    BY <1>5 DEF ChargedTo, HasEntry, MoneyEntries, EntryAt
  <2> QED
    BY <1>5, <2>1, <2>2 DEF Progress
<1> QED
  BY <1>1, <1>3, <1>5, <1>7, <1>8, GrownKeeps

LEMMA LinksKeeps ==
  ASSUME CheckoutInv, StorefrontInv', NEW r \in Request, NEW q, Becomes(r, q), Links(r, q)
  PROVE  CheckoutInv'
<1>1. Buying(req[r]) /\ req[r].pc = "link"
  BY PostingBuyers DEF Links, CheckoutInv
<1>2. PICK a \in Int : a = 0
  OBVIOUS
<1>3. PICK o, u : Enlarges(r, o, u, "consume", a)
  BY <1>1, <1>2, Entered DEF Links
<1>4. PICK n : Grown(o, n, u, "consume", a)
  BY <1>3 DEF Enlarges
<1>5. ~Buying(q) /\ orders'[o] = orders[o] /\ OrderFits(o)
  BY <1>3 DEF Links, Enters, AfterLink, Buying, BuyPath, Enlarges
<1>6. OrderFits(o)'
  <2>1. \A e : e \in MoneyEntries(o) =>
          e \in MoneyEntries(o)' /\ EntryAt(e)' = EntryAt(e) /\ e # n
    BY <1>4 DEF Grown
  <2>2. \A e : e \in MoneyEntries(o)' => e \in MoneyEntries(o) \/ e = n
    BY <1>4 DEF Grown
  <2>3. EntryAt(n)'.type = "consume" /\ EntryAt(n)'.amount = 0
    BY <1>2, <1>4 DEF Grown
  <2>4. HasEntry(o, "refund")' => HasEntry(o, "refund")
    BY <2>1, <2>2, <2>3 DEF HasEntry
  <2>5. ASSUME NEW e \in MoneyEntries(o)'
        PROVE  \/ EntryAt(e)'.type = "consume" /\ EntryAt(e)'.amount \in {0, -orders'[o].amount}
               \/ /\ EntryAt(e)'.type = "refund" /\ EntryAt(e)'.amount = orders'[o].amount
                  /\ \E f \in MoneyEntries(o)' :
                       /\ f[1] = e[1] /\ f[2] < e[2]
                       /\ EntryAt(f)'.type = "consume" /\ EntryAt(f)'.amount = -orders'[o].amount
    BY <1>5, <2>1, <2>2, <2>3, <2>5 DEF OrderFits
  <2>6. ASSUME NEW e \in MoneyEntries(o)', NEW f \in MoneyEntries(o)',
               EntryAt(e)'.type = EntryAt(f)'.type
        PROVE  e = f \/ 0 \in {EntryAt(e)'.amount, EntryAt(f)'.amount}
    BY <1>5, <2>1, <2>2, <2>3, <2>6 DEF OrderFits
  <2> QED
    BY <1>5, <2>4, <2>5, <2>6 DEF OrderFits
<1> QED
  BY <1>1, <1>3, <1>5, <1>6, GrownKeeps

LEMMA RefundsKeeps ==
  ASSUME CheckoutInv, StorefrontInv', NEW r \in Request, NEW q, Becomes(r, q), Refunds(r, q)
  PROVE  CheckoutInv'
<1>1. Buying(req[r]) /\ req[r].pc = "refund" /\ req[r].copy.amount \in Nat
  BY PostingBuyers DEF Refunds, CheckoutInv
<1>2. PICK a \in Int : a = req[r].copy.amount
  BY <1>1
<1>3. PICK o, u : Enlarges(r, o, u, "refund", a)
  BY <1>1, <1>2, Entered DEF Refunds
<1>4. PICK n : Grown(o, n, u, "refund", a)
  BY <1>3 DEF Enlarges
<1>5. /\ q.pc = "saverefund" /\ q.order = o /\ q.user = u
      /\ OrderFits(o) /\ a = orders[o].amount /\ orders'[o] = orders[o]
      /\ ChargedTo(o, u, a) /\ ~HasEntry(o, "refund") /\ orders[o].status # Book!Delivered
  BY <1>1, <1>2, <1>3 DEF Refunds, Enters, SameHand, Enlarges, Progress, Charged, Undelivered
<1>6. /\ \A e : e \in MoneyEntries(o) =>
             e \in MoneyEntries(o)' /\ EntryAt(e)' = EntryAt(e) /\ e # n
      /\ \A e : e \in MoneyEntries(o)' => e \in MoneyEntries(o) \/ e = n
      /\ EntryAt(n)'.type = "refund" /\ EntryAt(n)'.amount = a /\ n[1] = u
      /\ n \in MoneyEntries(o)'
  BY <1>4 DEF Grown
<1>7. PICK f \in MoneyEntries(o) :
        f[1] = u /\ EntryAt(f).type = "consume" /\ EntryAt(f).amount = -a
  BY <1>5 DEF ChargedTo
<1>8. f[2] < n[2]
  BY <1>4, <1>7 DEF Grown
<1>9. \A e \in MoneyEntries(o) : EntryAt(e).type = "consume"
  BY <1>5 DEF OrderFits, HasEntry
<1>10. OrderFits(o)'
  <2>1. orders'[o].status # Book!Delivered
    BY <1>5
  <2>2. ASSUME NEW e \in MoneyEntries(o)'
        PROVE  \/ EntryAt(e)'.type = "consume" /\ EntryAt(e)'.amount \in {0, -orders'[o].amount}
               \/ /\ EntryAt(e)'.type = "refund" /\ EntryAt(e)'.amount = orders'[o].amount
                  /\ \E g \in MoneyEntries(o)' :
                       /\ g[1] = e[1] /\ g[2] < e[2]
                       /\ EntryAt(g)'.type = "consume" /\ EntryAt(g)'.amount = -orders'[o].amount
    <3>1. CASE e = n
      BY <1>5, <1>6, <1>7, <1>8, <3>1
    <3>2. CASE e # n
      BY <1>5, <1>6, <1>9, <2>2, <3>2 DEF OrderFits
    <3> QED
      BY <3>1, <3>2
  <2>3. ASSUME NEW e \in MoneyEntries(o)', NEW g \in MoneyEntries(o)',
               EntryAt(e)'.type = EntryAt(g)'.type
        PROVE  e = g \/ 0 \in {EntryAt(e)'.amount, EntryAt(g)'.amount}
    BY <1>5, <1>6, <1>9, <2>3 DEF OrderFits
  <2> QED
    BY <2>1, <2>2, <2>3 DEF OrderFits
<1>11. Progress(q)'
  BY <1>5 DEF Progress, Charged, Undelivered
<1> QED
  BY <1>1, <1>3, <1>5, <1>10, <1>11, GrownKeeps

\* The server stops, or nothing happens.
LEMMA RestStep ==
  ASSUME CheckoutInv, StorefrontInv', Crash \/ UNCHANGED vars
  PROVE  CheckoutInv'
<1>1. UNCHANGED <<journal, orders>>
  BY DEF Crash, Acc!CrashJobs, vars, bookVars, accountVars
<1>2. \A o : SameEntries(o)
  BY <1>1, JournalStays
<1>3. Book!OrderIds' = Book!OrderIds /\ \A o : orders'[o] = orders[o]
  BY <1>1 DEF Book!OrderIds
<1>4. NamesOrders'
  BY <1>2, <1>3 DEF CheckoutInv, NamesOrders, SameEntries
<1>5. \A o \in Book!OrderIds' : OrderFits(o)'
  BY <1>2, <1>3, FitsKept DEF CheckoutInv
<1>6. CASE Crash
  <2>1. \A r \in Request : ~Buying(req'[r])
    BY <1>6, IdleHolds DEF Crash, Buying
  <2> QED
    BY <1>4, <1>5, <2>1 DEF CheckoutInv, OwnOrders, Buying
<1>7. CASE UNCHANGED vars
  <2>1. req' = req
    BY <1>7 DEF vars
  <2>2. OwnOrders'
    BY <2>1 DEF CheckoutInv, OwnOrders, Buying
  <2>3. ASSUME NEW r \in Request, Buying(req'[r])
        PROVE  Progress(req[r])'
    <3>1. PICK y : y = req[r]
      OBVIOUS
    <3>2. Progress(y) /\ req'[r] = y
      BY <2>1, <2>3, <3>1 DEF CheckoutInv
    <3>3. Progress(y)'
      BY <1>2, <1>3, <3>2, ProgressKept
    <3>4. \A z : z = req'[r] /\ Progress(z)' => Progress(req[r])'
      BY DEF Progress, ChargedTo, HasEntry, MoneyEntries, EntryAt
    <3> QED
      BY <3>2, <3>3, <3>4
  <2> QED
    BY <1>4, <1>5, <2>2, <2>3 DEF CheckoutInv, Buying
<1> QED
  BY <1>6, <1>7

LEMMA CheckoutInvNext == CheckoutInv /\ [Next]_vars => CheckoutInv'
<1> SUFFICES ASSUME CheckoutInv, [Next]_vars PROVE CheckoutInv'
  OBVIOUS
<1>1. StorefrontInv /\ StorefrontInv'
  BY StorefrontInvNext DEF CheckoutInv
<1>2. ASSUME NEW r \in Request, Begin(r) \/ Proceed(r) \/ StoreFails(r)
      PROVE  CheckoutInv'
  <2>1. PICK q : Becomes(r, q) /\ Does(r, q)
    BY <1>1, <1>2, EveryStep
  <2>2. CASE ~Charges(r, q) /\ ~Links(r, q) /\ ~Refunds(r, q)
    BY <1>1, <2>1, <2>2, QuietStep, QuietKeeps
  <2> QED
    BY <1>1, <2>1, <2>2, ChargesKeeps, LinksKeeps, RefundsKeeps
<1>3. CASE Crash \/ UNCHANGED vars
  BY <1>1, <1>3, RestStep
<1> QED
  BY <1>2, <1>3 DEF Next

LEMMA CheckoutInvInit == Init => CheckoutInv
<1> SUFFICES ASSUME Init PROVE CheckoutInv
  OBVIOUS
<1>1. StorefrontInv
  BY StorefrontInvInit
<1>2. \A u \in User : journal[u] = <<>>
  BY DEF Init, Acc!AccountsInit
<1>3. \A o : MoneyEntries(o) = {}
  <2>1. ASSUME NEW e, InJournal(e)
        PROVE  FALSE
    <3>1. e[1] \in User /\ e[2] \in 1 .. MaxEntries /\ e[2] <= Len(journal[e[1]])
      BY <2>1 DEF InJournal
    <3>2. e[2] <= 0 /\ e[2] >= 1 /\ e[2] \in Int
      BY <1>2, <3>1, StorefrontAssumption DEF MaxEntries
    <3> QED
      BY <3>2
  <2> QED
    BY <2>1, EntriesAre
<1>4. Book!OrderIds = {}
  BY DEF Init, Book!BookInit, Book!OrderIds
<1>5. \A r \in Request : ~Buying(req[r])
  BY IdleHolds DEF Init, Buying
<1> QED
  BY <1>1, <1>3, <1>4, <1>5 DEF CheckoutInv, NamesOrders, OwnOrders

\* The money of every order, whatever handlers are called in whatever
\* interleaving and whenever the server stops.
THEOREM CheckoutInvariant == Spec => []CheckoutInv
<1>1. Init => CheckoutInv
  BY CheckoutInvInit
<1>2. CheckoutInv /\ [Next]_vars => CheckoutInv'
  BY CheckoutInvNext
<1> QED
  BY <1>1, <1>2, PTL DEF Spec

\* A checkout posts its order's price at most once as a charge and at most once
\* as a refund, the refund after the charge and to whom it charged, and an order
\* that says delivered was not refunded, whichever calls of the store fail
\* (handleOrderCreateV3 over AdjustBalance).
THEOREM RefundsMatchCharges == Spec => []RefundsReturnCharge
<1>1. CheckoutInv => RefundsReturnCharge
  BY DEF CheckoutInv, RefundsReturnCharge, OrderFits
<1> QED
  BY <1>1, CheckoutInvariant, PTL

-----------------------------------------------------------------------------
(* How far checkouts overdraw a balance.                                   *)

\* The catalogue has a dearest order: every finite catalogue that sells
\* anything has one.
HasDearest ==
  \E c \in Commodity, n \in Nums :
    \A d \in Commodity, m \in Nums : Price[d] * m <= Price[c] * n

\* What one order can cost.
Costs == {Price[c] * n : c \in Commodity, n \in Nums}

LEMMA DearestIs ==
  ASSUME HasDearest
  PROVE  /\ Dearest \in Nat
         /\ \A c \in Commodity, n \in Nums : Price[c] * n <= Dearest
<1>1. \A x : x \in Costs <=> \E c \in Commodity, n \in Nums : x = Price[c] * n
  BY DEF Costs
<1>2. \A c \in Commodity, n \in Nums : Price[c] * n \in Nat
  <2>1. ASSUME NEW c \in Commodity, NEW n \in Nums
        PROVE  Price[c] * n \in Nat
    <3>1. PICK p \in Nat, m \in Nat : p = Price[c] /\ m = n
      BY StorefrontAssumption
    <3>2. p * m \in Nat
      OBVIOUS
    <3> QED
      BY <3>1, <3>2
  <2> QED
    BY <2>1
<1>3. \A x \in Costs : x \in Nat
  BY <1>1, <1>2
<1>4. PICK c \in Commodity, n \in Nums :
        \A d \in Commodity, m \in Nums : Price[d] * m <= Price[c] * n
  BY DEF HasDearest
<1>5. PICK x : x = Price[c] * n
  OBVIOUS
<1>6. x \in Costs /\ \A y \in Costs : y <= x
  BY <1>1, <1>4, <1>5
<1>7. \A y \in Costs : x >= y
  BY <1>3, <1>6
<1>8. Max(Costs) \in Costs /\ \A y \in Costs : Max(Costs) >= y
  BY <1>6, <1>7, Zenon DEF Max
<1>9. Dearest = Max(Costs)
  BY DEF Dearest, Costs
<1>10. Dearest \in Nat /\ \A y \in Costs : y <= Dearest
  BY <1>3, <1>8, <1>9
<1> QED
  BY <1>1, <1>10

\* How many times the dearest order k checkouts can overdraw.
LEMMA Multiples ==
  ASSUME NEW D \in Nat
  PROVE  /\ \A k \in Nat : k * D \in Nat /\ (k + 1) * D = k * D + D
         /\ \A j, k \in Nat : j <= k => j * D <= k * D
<1>1. \A k \in Nat : k * D \in Nat /\ (k + 1) * D = k * D + D
  OBVIOUS
<1>2. ASSUME NEW j \in Nat, NEW k \in Nat, j <= k
      PROVE  j * D <= k * D
  <2>1. PICK i \in Nat : k = j + i
    <3>1. k - j \in Nat /\ k = j + (k - j)
      BY <1>2
    <3> QED
      BY <3>1
  <2>2. k * D = j * D + i * D /\ i * D \in Nat /\ j * D \in Nat
    BY <2>1
  <2> QED
    BY <2>2
<1> QED
  BY <1>1, <1>2

\* Balance b covers the charges f of the requests in P: their number says how
\* many others may have charged since the one of them that was checked last.
Debt(k) == k * Dearest
Covered(b, P, f) ==
  \/ P = {} /\ b >= -Debt(Cardinality(Request) - 1)
  \/ \E r \in P : b >= f[r] - Debt(Cardinality(Request) - Cardinality(P))

\* What is known of the debts and of a set of requests.
LEMMA DebtsOf ==
  ASSUME HasDearest, Request # {}, NEW P \in SUBSET Request
  PROVE  /\ Cardinality(Request) \in Nat /\ Cardinality(Request) >= 1
         /\ IsFiniteSet(P) /\ Cardinality(P) \in Nat /\ Cardinality(P) <= Cardinality(Request)
         /\ P # {} => Cardinality(P) >= 1
         /\ Dearest \in Nat
         /\ \A k \in Nat : Debt(k) \in Nat /\ Debt(k + 1) = Debt(k) + Dearest
         /\ \A j, k \in Nat : j <= k => Debt(j) <= Debt(k)
<1>1. IsFiniteSet(Request) /\ IsFiniteSet(P) /\ Cardinality(P) <= Cardinality(Request)
  BY StorefrontAssumption, FS_Subset
<1>2. /\ Cardinality(Request) \in Nat /\ Cardinality(P) \in Nat
      /\ P # {} => Cardinality(P) # 0
      /\ Cardinality(Request) # 0
  BY <1>1, FS_CardinalityType, FS_EmptySet
<1>3. Dearest \in Nat
  BY DearestIs
<1>4. /\ \A k \in Nat : k * Dearest \in Nat /\ (k + 1) * Dearest = k * Dearest + Dearest
      /\ \A j, k \in Nat : j <= k => j * Dearest <= k * Dearest
  BY <1>3, Multiples
<1> QED
  BY <1>1, <1>2, <1>3, <1>4 DEF Debt

LEMMA CoverBounds ==
  ASSUME HasDearest, Request # {}, NEW P \in SUBSET Request, NEW f \in [Request -> Nat],
         NEW b \in Int, Covered(b, P, f)
  PROVE  b >= -Debt(Cardinality(Request) - 1)
<1>1. PICK n \in Nat, m \in Nat : n = Cardinality(Request) /\ m = Cardinality(P)
  BY DebtsOf
<1>2. n >= 1 /\ m <= n /\ (P # {} => m >= 1)
  BY <1>1, DebtsOf
<1>3. CASE \E r \in P : b >= f[r] - Debt(n - m)
  <2>1. PICK r \in P : b >= f[r] - Debt(n - m)
    BY <1>3
  <2>2. f[r] \in Nat /\ n - m \in Nat /\ n - 1 \in Nat /\ n - m <= n - 1
    BY <1>2, <2>1
  <2>3. Debt(n - m) <= Debt(n - 1) /\ Debt(n - m) \in Nat /\ Debt(n - 1) \in Nat
    BY <2>2, DebtsOf
  <2> QED
    BY <1>1, <2>1, <2>2, <2>3
<1> QED
  BY <1>1, <1>3 DEF Covered

\* The balance was compared with one more charge.
LEMMA CoverAdds ==
  ASSUME HasDearest, Request # {}, NEW P \in SUBSET Request, NEW f \in [Request -> Nat],
         NEW b \in Int, NEW r \in P, b >= f[r]
  PROVE  Covered(b, P, f)
<1>1. PICK n \in Nat, m \in Nat : n = Cardinality(Request) /\ m = Cardinality(P)
  BY DebtsOf
<1>2. n - m \in Nat
  <2>1. m <= n
    BY <1>1, DebtsOf
  <2> QED
    BY <2>1
<1>3. Debt(n - m) \in Nat /\ f[r] \in Nat
  BY <1>2, DebtsOf
<1> QED
  BY <1>1, <1>3 DEF Covered

\* One of the charges is made, or given up.
LEMMA CoverDrops ==
  ASSUME HasDearest, Request # {}, NEW P \in SUBSET Request, NEW f \in [Request -> Nat],
         \A s \in P : f[s] <= Dearest,
         NEW b \in Int, NEW c \in Int, Covered(b, P, f), NEW r \in P, c >= b - f[r]
  PROVE  Covered(c, P \ {r}, f)
<1>1. PICK n \in Nat, m \in Nat : n = Cardinality(Request) /\ m = Cardinality(P)
  BY DebtsOf
<1>2. n >= 1 /\ m <= n /\ m >= 1 /\ n - m \in Nat /\ n - (m - 1) = (n - m) + 1
  <2>1. n >= 1 /\ m <= n /\ m >= 1
    BY <1>1, DebtsOf
  <2> QED
    BY <2>1
<1>3. PICK d \in Nat : d = Debt(n - m)
  BY <1>2, DebtsOf
<1>4. Debt(n - (m - 1)) = d + Dearest /\ Dearest \in Nat
  BY <1>2, <1>3, DebtsOf
<1>5. Cardinality(P \ {r}) = m - 1
  BY <1>1, FS_RemoveElement, DebtsOf
<1>6. PICK s \in P : b >= f[s] - d
  BY <1>1, <1>3 DEF Covered
<1>7. f[r] \in Nat /\ f[s] \in Nat /\ f[r] <= Dearest
  OBVIOUS
<1>8. CASE s # r
  <2>1. s \in P \ {r} /\ c >= f[s] - (d + Dearest)
    BY <1>4, <1>6, <1>7, <1>8
  <2> QED
    BY <1>1, <1>4, <1>5, <2>1 DEF Covered
<1>9. CASE s = r
  <2>1. c >= -d
    BY <1>6, <1>7, <1>9
  <2>2. CASE P \ {r} = {}
    <3>1. m - 1 = 0
      BY <1>5, <2>2, FS_EmptySet
    <3>2. n - m = n - 1
      BY <3>1
    <3> QED
      BY <1>1, <1>3, <2>1, <2>2, <3>2 DEF Covered
  <2>3. CASE P \ {r} # {}
    <3>1. PICK t \in P \ {r} : TRUE
      BY <2>3
    <3>2. f[t] \in Nat /\ f[t] <= Dearest
      BY <3>1
    <3>3. c >= f[t] - (d + Dearest)
      BY <1>4, <2>1, <3>2
    <3> QED
      BY <1>1, <1>4, <1>5, <3>1, <3>3 DEF Covered
  <2> QED
    BY <2>2, <2>3
<1> QED
  BY <1>8, <1>9

\* The balance grows and the charges stay.
LEMMA CoverGrows ==
  ASSUME HasDearest, Request # {}, NEW P \in SUBSET Request,
         NEW f \in [Request -> Nat], NEW g \in [Request -> Nat],
         NEW b \in Int, NEW c \in Int, Covered(b, P, f), c >= b, \A r \in P : g[r] = f[r]
  PROVE  Covered(c, P, g)
<1>1. PICK n \in Nat, m \in Nat : n = Cardinality(Request) /\ m = Cardinality(P)
  BY DebtsOf
<1>2. n - m \in Nat /\ n - 1 \in Nat
  <2>1. n >= 1 /\ m <= n
    BY <1>1, DebtsOf
  <2> QED
    BY <2>1
<1>3. PICK d \in Nat, e \in Nat : d = Debt(n - m) /\ e = Debt(n - 1)
  BY <1>2, DebtsOf
<1>4. CASE P = {} /\ b >= -e
  BY <1>1, <1>3, <1>4 DEF Covered
<1>5. CASE \E r \in P : b >= f[r] - d
  <2>1. PICK r \in P : b >= f[r] - d
    BY <1>5
  <2>2. f[r] \in Nat /\ c >= g[r] - d
    BY <2>1
  <2> QED
    BY <1>1, <1>3, <2>1, <2>2 DEF Covered
<1> QED
  BY <1>1, <1>3, <1>4, <1>5 DEF Covered

\* A request that found the balance of u sufficient, and has not charged yet.
Owes(q, u) == q \in Busy /\ q.kind = "buy" /\ q.user = u /\ q.pc \in {"create", "charge"}
Owing(u) == {r \in Request : Owes(req[r], u)}

\* What a request is about to charge.
Due(q) == IF \E u \in User : Owes(q, u) THEN q.copy.amount ELSE 0
Dues == [r \in Request |-> Due(req[r])]

\* No request pays more than the dearest order costs, and none by handlePaymentCreate.
Affords(q) ==
  q \in Busy =>
    /\ q.kind # "pay"
    /\ q.kind = "buy" /\ q.pc \in Ordering \cup {"charge"} =>
         q.copy \in Book!OrderRow /\ q.copy.amount <= Dearest

\* Every balance covers what is about to be charged, but for the charges that
\* other requests made since the comparison.
SolvencyInv ==
  /\ StorefrontInv
  /\ \A r \in Request : Affords(req[r])
  /\ \A u \in User : Covered(balance[u], Owing(u), Dues)

LEMMA DuesAre ==
  ASSUME NEW q, Affords(q), Dearest \in Nat
  PROVE  /\ Due(q) \in Nat /\ Due(q) <= Dearest
         /\ \A u \in User : Owes(q, u) => Due(q) = q.copy.amount
BY DEF Due, Affords, Owes, Ordering, Book!OrderRow

\* What a step of request r may do to a balance: it joins those who will charge
\* u, charges u, or neither.
SolvencyMove(r, q) ==
  /\ Affords(q)
  /\ balance' \in [User -> Int]
  /\ \A u \in User :
       \/ /\ Owes(q, u) /\ ~Owes(req[r], u)
          /\ balance'[u] = balance[u] /\ balance[u] >= Due(q)
       \/ /\ Owes(q, u) <=> Owes(req[r], u)
          /\ Owes(q, u) => Due(q) = Due(req[r])
          /\ balance'[u] >= balance[u]
       \/ /\ ~Owes(q, u) /\ Owes(req[r], u)
          /\ balance'[u] >= balance[u] - Due(req[r])

LEMMA SolvencyKept ==
  ASSUME HasDearest, SolvencyInv, StorefrontInv', NEW r \in Request, NEW q,
         Becomes(r, q), SolvencyMove(r, q)
  PROVE  SolvencyInv'
<1>1. /\ req'[r] = q /\ \A s \in Request \ {r} : req'[s] = req[s]
      /\ balance \in [User -> Int] /\ Dearest \in Nat /\ Request # {}
  BY DearestIs DEF Becomes, SolvencyInv, StorefrontInv, RequestsSane, Acc!AccountsTypeOK
<1>2. \A s \in Request : Affords(req[s])'
  BY <1>1 DEF SolvencyInv, SolvencyMove, Affords
<1>3. PICK f, g : f = Dues /\ g = Dues'
  OBVIOUS
<1>4. /\ f \in [Request -> Nat] /\ \A s \in Request : f[s] = Due(req[s]) /\ f[s] <= Dearest
      /\ g \in [Request -> Nat] /\ \A s \in Request \ {r} : g[s] = f[s]
      /\ g[r] = Due(q)
  <2>1. \A s \in Request : Due(req[s]) \in Nat /\ Due(req[s]) <= Dearest
    BY <1>1, DuesAre DEF SolvencyInv
  <2>2. Due(q) \in Nat
    BY <1>1, DuesAre DEF SolvencyMove
  <2>3. g = [s \in Request |-> Due(req'[s])]
    BY <1>3 DEF Dues, Due, Owes
  <2>4. \A s \in Request : g[s] = IF s = r THEN Due(q) ELSE Due(req[s])
    BY <1>1, <2>3
  <2> QED
    BY <1>3, <2>1, <2>2, <2>3, <2>4 DEF Dues
<1>5. ASSUME NEW u \in User
      PROVE  Covered(balance[u], Owing(u), Dues)'
  <2>1. PICK P, Q, b, c : P = Owing(u) /\ Q = Owing(u)' /\ b = balance[u] /\ c = balance'[u]
    OBVIOUS
  <2>2. /\ P \in SUBSET Request /\ Q \in SUBSET Request /\ b \in Int /\ c \in Int
        /\ Covered(b, P, f)
        /\ \A s \in Request : s \in P <=> Owes(req[s], u)
        /\ \A s \in Request : s \in Q <=> IF s = r THEN Owes(q, u) ELSE Owes(req[s], u)
    BY <1>1, <1>3, <2>1 DEF Owing, SolvencyInv, SolvencyMove, Owes
  <2>3. ASSUME Owes(q, u), ~Owes(req[r], u), c = b, b >= Due(q)
        PROVE  Covered(c, Q, g)
    BY <1>1, <1>4, <2>2, <2>3, CoverAdds
  <2>4. ASSUME Owes(q, u) <=> Owes(req[r], u), Owes(q, u) => Due(q) = Due(req[r]), c >= b
        PROVE  Covered(c, Q, g)
    <3>1. Q = P
      BY <2>2, <2>4
    <3>2. \A s \in P : g[s] = f[s]
      BY <1>4, <2>2, <2>4
    <3>3. Covered(c, P, g)
      BY <1>1, <1>4, <2>2, <2>4, <3>2, CoverGrows
    <3> QED
      BY <3>1, <3>3
  <2>5. ASSUME ~Owes(q, u), Owes(req[r], u), c >= b - Due(req[r])
        PROVE  Covered(c, Q, g)
    <3>1. Q = P \ {r} /\ r \in P
      BY <2>2, <2>5
    <3>2. Covered(c, P \ {r}, f)
      BY <1>1, <1>4, <2>2, <2>5, <3>1, CoverDrops
    <3>3. Q \in SUBSET Request /\ \A s \in Q : g[s] = f[s]
      BY <1>4, <2>2, <3>1
    <3>4. Covered(c, Q, f)
      BY <3>1, <3>2
    <3>5. c >= c
      BY <2>2
    <3> QED
      BY <1>1, <1>4, <2>2, <3>3, <3>4, <3>5, CoverGrows
  <2>6. Covered(c, Q, g)
    BY <2>1, <2>3, <2>4, <2>5 DEF SolvencyMove
  <2>7. \A d, S, h : d = balance'[u] /\ S = Owing(u)' /\ h = Dues' /\ Covered(d, S, h)
                      => Covered(balance[u], Owing(u), Dues)'
    BY DEF Covered
  <2> QED
    BY <1>3, <2>1, <2>6, <2>7
<1> QED
  BY <1>2, <1>5 DEF SolvencyInv

\* A step that charges nobody, and after which the request will not either.
LEMMA Unowing ==
  ASSUME NEW r \in Request, NEW q, Affords(req[r]), Dearest \in Nat,
         balance' \in [User -> Int], balance \in [User -> Int],
         \A u \in User : balance'[u] >= balance[u],
         q \in Busy => q.kind # "pay" /\ (q.kind = "buy" => q.pc \notin Ordering \cup {"charge"})
  PROVE  SolvencyMove(r, q)
<1>1. Affords(q)
  BY DEF Affords
<1>2. \A u \in User : ~Owes(q, u)
  BY DEF Owes, Ordering
<1>3. PICK d \in Nat : d = Due(req[r])
  BY DuesAre
<1>4. \A u \in User : balance[u] \in Int /\ balance'[u] \in Int
  OBVIOUS
<1>5. \A u \in User : balance'[u] >= balance[u] - d
  BY <1>3, <1>4
<1> QED
  BY <1>1, <1>2, <1>3, <1>5 DEF SolvencyMove

LEMMA SolvencyStep ==
  ASSUME "pay" \notin Handlers, HasDearest, SolvencyInv, NEW r \in Request, NEW q,
         Becomes(r, q), Does(r, q)
  PROVE  SolvencyMove(r, q)
<1> DEFINE x == req[r]
<1>1. /\ StorefrontInv /\ Acc!AccountsTypeOK /\ balance \in [User -> Int]
      /\ IdleReq \notin Busy /\ Dearest \in Nat /\ Affords(x)
      /\ x \in Busy => x.kind # "pay"
  BY IdleHolds, DearestIs DEF SolvencyInv, StorefrontInv, Acc!AccountsTypeOK, Affords
<1>2. ASSUME UNCHANGED balance,
             q \in Busy => q.kind # "pay" /\ (q.kind = "buy" => q.pc \notin Ordering \cup {"charge"})
      PROVE  SolvencyMove(r, q)
  BY <1>1, <1>2, Unowing
<1>3. ASSUME UNCHANGED balance, Affords(q), \A u \in User : Owes(q, u) <=> Owes(x, u),
             q.copy.amount = x.copy.amount
      PROVE  SolvencyMove(r, q)
  <2>1. \A u \in User : Owes(q, u) => Due(q) = Due(x)
    BY <1>1, <1>3, DuesAre
  <2> QED
    BY <1>1, <1>3, <2>1 DEF SolvencyMove
<1>4. CASE Asks(r, q)
  <2>1. UNCHANGED balance /\ q \in Busy
    BY <1>4 DEF Asks, Still
  <2>2. CASE q.kind = "buy" /\ q.pc \in {"bind", "coupon"} /\ q.copy \in Book!OrderRow
             /\ q.copy.num \in Nums /\ q.copy.amount = Price[q.copy.commodity] * q.copy.num
    <3>1. Affords(q)
      BY <2>2, DearestIs DEF Affords, Book!OrderRow
    <3>2. \A u \in User : ~Owes(q, u) /\ ~Owes(x, u)
      BY <1>1, <1>4, <2>2 DEF Asks, Owes, At
    <3> QED
      BY <1>1, <2>1, <3>1, <3>2 DEF SolvencyMove
  <2>3. CASE q.kind \in {"order", "finish"}
    BY <1>2, <2>1, <2>3
  <2> QED
    BY <1>4, <2>2, <2>3 DEF Asks
<1>5. CASE Quits(r, q)
  BY <1>1, <1>2, <1>5 DEF Quits, Still
<1>6. CASE Prepares(r, q)
  <2>1. /\ UNCHANGED balance /\ q \in Busy /\ x \in Busy /\ q.kind = x.kind /\ q.user = x.user
        /\ q.copy.amount <= x.copy.amount /\ q.copy \in Book!OrderRow
        /\ x.kind \in {"buy", "order"} /\ x.pc \in {"bind", "coupon", "check"}
    BY <1>6 DEF Prepares, Still
  <2>2. Affords(q)
    <3>1. x.kind = "buy" => x.copy \in Book!OrderRow /\ x.copy.amount <= Dearest
      BY <1>1, <2>1 DEF Affords, Ordering
    <3>2. \A a, b : a \in Nat /\ b \in Nat /\ a <= b /\ b <= Dearest => a <= Dearest
      BY <1>1
    <3> QED
      BY <2>1, <3>1, <3>2 DEF Affords, Book!OrderRow
  <2>3. \A u \in User : ~Owes(x, u)
    BY <2>1 DEF Owes
  <2>4. ASSUME NEW u \in User, Owes(q, u)
        PROVE  balance[u] >= Due(q)
    <3>1. /\ x.pc = "check" /\ q.copy = x.copy /\ balance[x.user] >= x.copy.amount /\ x.user = u
      BY <1>6, <2>1, <2>4 DEF Prepares, Owes
    <3>2. Due(q) = q.copy.amount
      BY <1>1, <2>2, <2>4, DuesAre
    <3> QED
      BY <3>1, <3>2
  <2>5. \A u \in User : balance[u] \in Int /\ balance[u] >= balance[u]
    BY <1>1
  <2> QED
    BY <1>1, <2>1, <2>2, <2>3, <2>4, <2>5 DEF SolvencyMove
<1>7. CASE Places(r, q)
  <2>1. UNCHANGED balance /\ x \in Busy /\ x.pc = "create"
    BY <1>7 DEF Places
  <2>2. CASE q = IdleReq
    BY <1>1, <1>2, <2>1, <2>2
  <2>3. CASE /\ q \in Busy /\ q.kind = x.kind /\ q.user = x.user /\ q.copy = x.copy
             /\ q.pc = (IF x.kind = "buy" THEN "charge" ELSE "payrow")
    <3>1. CASE x.kind = "buy"
      <4>1. Affords(q)
        BY <1>1, <2>1, <2>3, <3>1 DEF Affords, Ordering
      <4>2. \A u \in User : Owes(q, u) <=> Owes(x, u)
        BY <2>1, <2>3, <3>1 DEF Owes
      <4> QED
        BY <1>3, <2>1, <2>3, <4>1, <4>2
    <3>2. CASE x.kind # "buy"
      BY <1>1, <1>2, <2>1, <2>3, <3>2
    <3> QED
      BY <3>1, <3>2
  <2> QED
    BY <1>7, <2>2, <2>3 DEF Places
<1>8. CASE Moves(r, q) \/ Skips(r, q) \/ Earns(r, q)
  <2>1. /\ UNCHANGED balance /\ x \in Busy /\ q.kind = x.kind
        /\ q.pc \notin Ordering \cup {"charge"}
    BY <1>8 DEF Moves, Skips, AfterLink, Earns, Still, SameHand, Ordering
  <2> QED
    BY <1>1, <1>2, <2>1
<1>9. CASE Reads(r, q)
  BY <1>2, <1>9 DEF Reads, Still
<1>10. CASE Receives(r, q)
  <2>1. /\ UNCHANGED balance /\ x \in Busy /\ q.kind = x.kind
        /\ q.pc \notin Ordering \cup {"charge"}
    BY <1>10 DEF Receives, Still, Delivers, Ordering
  <2> QED
    BY <1>1, <1>2, <2>1
<1>11. CASE Charges(r, q)
  <2>1. /\ x \in Busy /\ Sane(x) /\ x.pc = "charge" /\ x.kind = "buy" /\ x.user \in User
        /\ q.pc = "deliver" /\ q.kind = "buy"
        /\ x.copy.amount \in Nat
    <3>1. Buying(x) /\ x.pc = "charge" /\ x.copy.amount \in Nat
      BY <1>1, <1>11, PostingBuyers DEF Charges
    <3> QED
      BY <1>11, <3>1 DEF Charges, Enters, SameHand, Sane, Kinds, Buying
  <2>2. PICK a, u, o : a = -x.copy.amount /\ a \in Int /\ u = x.user /\ u \in User /\ o = x.order
    <3>1. -x.copy.amount \in Int
      BY <2>1
    <3> QED
      BY <2>1, <3>1
  <2> a \in Int /\ u \in User
    BY <2>2
  <2>3. Acc!Post(u, "consume", a, o, NoUser)
    BY <1>11, <2>2 DEF Charges, Enters
  <2>4. o \in Nat /\ o \in Order
    BY <1>1, <2>1, <2>2, BuyingOrders DEF Buying, BuyPath
  <2>5. /\ balance' \in [User -> Int] /\ balance'[u] = balance[u] + a
        /\ \A v \in User \ {u} : balance'[v] = balance[v]
    <3>1. "consume" \in Acc!EntryType /\ NoUser \in User \cup {NoUser}
      BY DEF Acc!EntryType
    <3> QED
      BY <1>1, <2>3, <2>4, <3>1, Posted
  <2>6. Owes(x, u) /\ \A v \in User \ {u} : ~Owes(x, v)
    BY <2>1, <2>2 DEF Owes
  <2>7. Affords(q) /\ \A v \in User : ~Owes(q, v)
    BY <2>1 DEF Affords, Owes, Ordering
  <2>8. PICK d \in Nat : d = Due(x) /\ a = -d
    BY <1>1, <2>1, <2>2, <2>6, DuesAre
  <2>9. balance'[u] >= balance[u] - d /\ \A v \in User \ {u} : balance'[v] >= balance[v]
    <3>1. \A v \in User : balance[v] \in Int
      BY <1>1
    <3>2. balance'[u] = balance[u] - d
      BY <2>5, <2>8, <3>1
    <3> QED
      BY <2>5, <3>1, <3>2
  <2> QED
    BY <2>5, <2>6, <2>7, <2>8, <2>9 DEF SolvencyMove
<1>12. ASSUME NEW u \in User, NEW typ \in Acc!EntryType, NEW a \in Int, a >= 0,
              NEW o \in Nat, o \in Order, NEW b \in User \cup {NoUser},
              Acc!Post(u, typ, a, o, b), x \in Busy, q.kind = x.kind,
              q.pc \notin Ordering \cup {"charge"}
       PROVE  SolvencyMove(r, q)
  <2>1. /\ balance' \in [User -> Int] /\ balance'[u] = balance[u] + a
        /\ \A v \in User \ {u} : balance'[v] = balance[v]
    BY <1>1, <1>12, Posted
  <2>2. \A v \in User : balance'[v] >= balance[v]
    BY <1>1, <1>12, <2>1
  <2> QED
    BY <1>1, <1>12, <2>1, <2>2, Unowing
<1>13. CASE Links(r, q) \/ Refunds(r, q)
  <2>1. Buying(x) /\ x.copy.amount \in Nat
    BY <1>1, <1>13, PostingBuyers DEF Links, Refunds
  <2>2. PICK a \in Nat, u \in User, o \in Nat : a = x.copy.amount /\ u = x.user /\ o = x.order
    BY <1>1, <2>1, BuyingOrders
  <2>3. o \in Order
    BY <1>1, <2>1, <2>2, BuyingOrders
  <2>4. /\ x \in Busy /\ q.kind = x.kind /\ q.pc \notin Ordering \cup {"charge"}
        /\ Acc!Post(u, "consume", 0, o, NoUser) \/ Acc!Post(u, "refund", a, o, NoUser)
    BY <1>13, <2>2 DEF Links, Refunds, Enters, SameHand, AfterLink, Ordering
  <2>5. /\ {"consume", "refund"} \subseteq Acc!EntryType /\ NoUser \in User \cup {NoUser}
        /\ 0 \in Int /\ 0 >= 0 /\ a \in Int /\ a >= 0
    BY DEF Acc!EntryType
  <2> QED
    BY <1>12, <2>3, <2>4, <2>5
<1>14. CASE Credits(r, q)
  <2>1. /\ jobs[r] \in Acc!Job /\ x \in Busy /\ q.kind = x.kind /\ q.pc \notin Ordering \cup {"charge"}
        /\ Acc!Post(jobs[r].referrer, "referral", jobs[r].amount, jobs[r].order, jobs[r].buyer)
    BY <1>14 DEF Credits, SameHand, Ordering
  <2>2. /\ jobs[r].referrer \in User /\ jobs[r].buyer \in User /\ jobs[r].order \in Order
        /\ jobs[r].order \in Nat /\ jobs[r].amount \in Int /\ jobs[r].amount >= 0
        /\ "referral" \in Acc!EntryType
    BY <2>1, StorefrontAssumption DEF Acc!Job, Order, Acc!EntryType
  <2> QED
    BY <1>12, <2>1, <2>2
<1>15. CASE PayCharges(r, q)
  <2>1. x \in Busy /\ Sane(x) /\ x.pc = "paycharge"
    BY <1>15 DEF PayCharges, Enters
  <2> QED
    BY <1>1, <2>1 DEF Sane, Kinds, Busy, Ordering, BuyPath, EndPath, Reading
<1>16. CASE Accrues(r, q)
  BY <1>1, <1>2, <1>16 DEF Accrues
<1>17. CASE WritesBack(r, q) \/ SavesRefund(r, q)
  BY <1>1, <1>2, <1>17 DEF WritesBack, SavesRefund, RowBecomes
<1>18. CASE Saves(r, q) \/ SavesPaid(r, q)
  <2>1. /\ UNCHANGED balance /\ x \in Busy
        /\ q.kind = x.kind \/ q.kind = "finish"
        /\ q.pc \notin Ordering \cup {"charge"}
    BY <1>18 DEF Saves, SavesPaid, RowBecomes, SameHand, Ordering, EndPath
  <2> QED
    BY <1>1, <1>2, <2>1
<1> QED
  BY <1>4, <1>5, <1>6, <1>7, <1>8, <1>9, <1>10, <1>11, <1>13, <1>14, <1>15, <1>16, <1>17, <1>18
  DEF Does

LEMMA SolvencyInvNext ==
  ASSUME "pay" \notin Handlers, HasDearest, SolvencyInv, [Next]_vars
  PROVE  SolvencyInv'
<1>1. StorefrontInv /\ StorefrontInv'
  BY StorefrontInvNext DEF SolvencyInv
<1>2. ASSUME NEW r \in Request, Begin(r) \/ Proceed(r) \/ StoreFails(r)
      PROVE  SolvencyInv'
  <2>1. PICK q : Becomes(r, q) /\ Does(r, q)
    BY <1>1, <1>2, EveryStep
  <2> QED
    BY <1>1, <2>1, SolvencyStep, SolvencyKept
<1>3. CASE Crash
  <2>1. /\ UNCHANGED balance /\ Request # {} /\ Dearest \in Nat
        /\ \A r \in Request : req'[r] = IdleReq /\ req'[r] \notin Busy /\ req[r] \in Busy \cup {IdleReq}
    BY <1>1, <1>3, IdleHolds, DearestIs
    DEF Crash, Acc!CrashJobs, StorefrontInv, RequestsSane
  <2>2. ASSUME NEW u \in User
        PROVE  Covered(balance[u], Owing(u), Dues)'
    <3>1. PICK P, f, b : P = Owing(u) /\ f = Dues /\ b = balance[u]
      OBVIOUS
    <3>2. /\ P \in SUBSET Request /\ b \in Int /\ Covered(b, P, f)
          /\ f \in [Request -> Nat]
      BY <1>1, <2>1, <3>1, DuesAre
      DEF Owing, Dues, SolvencyInv, StorefrontInv, Acc!AccountsTypeOK
    <3>3. b >= -Debt(Cardinality(Request) - 1)
      BY <2>1, <3>2, CoverBounds
    <3>4. Owing(u)' = {} /\ balance'[u] = b
      BY <2>1, <3>1 DEF Owing, Owes
    <3>5. \A h : Covered(b, {}, h)
      BY <3>3 DEF Covered
    <3> QED
      BY <3>4, <3>5 DEF Covered
  <2>3. \A r \in Request : Affords(req[r])'
    BY <2>1 DEF Affords
  <2> QED
    BY <1>1, <2>2, <2>3 DEF SolvencyInv
<1>4. CASE UNCHANGED vars
  <2>1. req' = req /\ balance' = balance
    BY <1>4 DEF vars, accountVars
  <2> QED
    BY <1>1, <2>1 DEF SolvencyInv, Affords, Covered, Owing, Owes, Dues, Due
<1> QED
  BY <1>2, <1>3, <1>4 DEF Next

LEMMA SolvencyInvInit ==
  ASSUME HasDearest, Request # {}, \A u \in User : Opening[u] >= 0, Init
  PROVE  SolvencyInv
<1>1. StorefrontInv
  BY StorefrontInvInit
<1>2. \A r \in Request : req[r] \notin Busy
  BY IdleHolds DEF Init
<1>3. \A r \in Request : Affords(req[r])
  BY <1>2 DEF Affords
<1>4. ASSUME NEW u \in User
      PROVE  Covered(balance[u], Owing(u), Dues)
  <2>1. Owing(u) = {}
    BY <1>2 DEF Owing, Owes
  <2>2. PICK n \in Nat : n = Cardinality(Request)
    BY DebtsOf
  <2>3. n >= 1
    BY <2>2, DebtsOf
  <2>4. n - 1 \in Nat
    BY <2>3
  <2>5. PICK d \in Nat : d = Debt(n - 1)
    BY <2>4, DebtsOf
  <2>6. balance[u] \in Int /\ balance[u] >= 0
    BY <1>1 DEF Init, Acc!AccountsInit, StorefrontInv, Acc!AccountsTypeOK
  <2>7. balance[u] >= -d
    BY <2>6
  <2> QED
    BY <2>1, <2>2, <2>5, <2>7 DEF Covered
<1> QED
  BY <1>1, <1>3, <1>4 DEF SolvencyInv

\* Where no order is paid by handlePaymentCreate's balance engine, a balance
\* that starts at 0 or more is overdrawn by no more than what the checkouts
\* under way can charge besides one that found it sufficient: the comparison is
\* stale by as many charges as there are other requests, over any number of
\* orders and restarts (GetUserByID, then AdjustBalance without a bound).
THEOREM OverdraftsBounded ==
  ASSUME "pay" \notin Handlers, HasDearest, Request # {}, \A u \in User : Opening[u] >= 0
  PROVE  Spec => []OverdraftBounded
<1>1. Init => SolvencyInv
  BY SolvencyInvInit
<1>2. SolvencyInv /\ [Next]_vars => SolvencyInv'
  BY SolvencyInvNext
<1>3. SolvencyInv => OverdraftBounded
  <2> SUFFICES ASSUME SolvencyInv, NEW u \in User
               PROVE  balance[u] >= -(Cardinality(Request) - 1) * Dearest
    BY DEF OverdraftBounded
  <2>1. PICK P, f, b : P = Owing(u) /\ f = Dues /\ b = balance[u]
    OBVIOUS
  <2>2. /\ P \in SUBSET Request /\ b \in Int /\ Covered(b, P, f)
        /\ f \in [Request -> Nat]
    BY <2>1, DearestIs, DuesAre
    DEF Owing, Dues, SolvencyInv, StorefrontInv, Acc!AccountsTypeOK
  <2>3. b >= -Debt(Cardinality(Request) - 1)
    BY <2>2, CoverBounds
  <2>4. PICK n \in Nat, D \in Nat : n = Cardinality(Request) /\ D = Dearest
    BY <2>2, DebtsOf
  <2>5. b >= -((n - 1) * D)
    BY <2>3, <2>4 DEF Debt
  <2>6. -(n - 1) * D = -((n - 1) * D)
    OBVIOUS
  <2> QED
    BY <2>1, <2>4, <2>5, <2>6
<1> QED
  BY <1>1, <1>2, <1>3, PTL DEF Spec
=============================================================================
