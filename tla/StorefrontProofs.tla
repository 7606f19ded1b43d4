---------------------------- MODULE StorefrontProofs ----------------------------
(***************************************************************************)
(* The theorems of Storefront that hold whatever handlers clients call and *)
(* whenever the server stops: types, the goods an order shows, the uses of *)
(* a coupon and the one callback that wins a payment.                      *)
(***************************************************************************)
EXTENDS StorefrontProperties, FiniteSetTheorems, TLAPS

(* What a request holds, by where it is.                                   *)

Ordering  == {"bind", "coupon", "check", "create"}
Reading   == {"mark", "callback", "finish"}
BuyPath   == {"charge", "deliver", "save", "link", "refund", "saverefund"}
EndPath   == {"use", "commission", "credit", "accrue"}
PayPath   == {"payrow", "paylink", "newpay", "paycharge"}
Place     == Ordering \cup Reading \cup BuyPath \cup EndPath \cup PayPath \cup {"savepaid"}

Busy == [kind : {"buy", "order", "pay", "finish"}, pc : Place, user : User \cup {NoUser},
         order : Nat, copy : Book!OrderRow \cup {NoCopy}, moved : BOOLEAN,
         got : SUBSET (Nat \ {0}), pay : Nat, method : Book!Method \cup {"none"},
         number : 0 .. MaxPayments]

\* The columns of an order that nothing changes.
SameOrder(c, d) ==
  /\ c.user = d.user /\ c.commodity = d.commodity /\ c.num = d.num
  /\ c.amount = d.amount /\ c.coupon = d.coupon

\* The cards among goods.
CardsIn(goods) == {i \in goods : i > 0}

\* A delivered row of the shop's own cards shows all of them, a refunded none.
RowFits(c) ==
  Source[c.commodity] = "self" =>
    /\ c.status = Book!Delivered => Cardinality(CardsIn(c.contents)) = c.num
    /\ c.status = Book!Refunded => c.contents = {}

\* Where each kind of request can be.
Kinds(q) ==
  /\ q.kind = "buy" => q.pc \in Ordering \cup BuyPath \cup EndPath
  /\ q.kind = "order" => q.pc \in {"bind", "coupon", "create", "payrow", "paylink"}
  /\ q.kind = "pay" => q.pc \in {"newpay", "paycharge", "paylink"}
  /\ q.kind = "finish" => q.pc \in Reading \cup EndPath \cup {"savepaid", "deliver"}
  /\ q.kind # "finish" => q.user \in User
  /\ q.kind \in {"buy", "order"} => q.user = q.copy.user
  /\ q.pc = "newpay" => q.method \in Book!Method

\* What the copy of the order row is good for.
Copies(q) ==
  /\ q.pc \notin Reading => q.copy \in Book!OrderRow
  /\ q.pc \notin Reading \cup Ordering =>
       q.order \in Book!OrderIds /\ SameOrder(q.copy, orders[q.order])
  /\ q.pc \in Reading => q.order \in Book!OrderIds
  /\ q.pc \in {"mark", "callback"} => q.pay \in Book!PaymentIds
  /\ q.pc \in Ordering \cup {"charge", "refund", "saverefund", "payrow"} =>
       q.copy.contents = {}
  /\ q.kind = "buy" /\ q.pc = "deliver" => q.copy.contents = {}
  /\ q.pc \in Ordering \cup PayPath => q.copy.status = Book!Pending
  /\ q.pc = "savepaid" => q.copy.status = Book!Paid
  /\ q.pc = "save" => q.copy.status = Book!Delivered /\ RowFits(q.copy)
  /\ q.pc # "deliver" => q.got = {}
  /\ q.pc = "use" => q.copy.coupon \in Coupon

Sane(q) == Kinds(q) /\ Copies(q)

RequestsSane ==
  /\ req \in [Request -> Busy \cup {IdleReq}]
  /\ \A r \in Request : req[r] # IdleReq => Sane(req[r])

-----------------------------------------------------------------------------
(* The tables.                                                             *)

UniqueIds == \A s, t \in secrets : s.id = t.id => s = t

VaultSane ==
  /\ Vault!VaultTypeOK
  /\ IsFiniteSet(secrets)
  /\ UniqueIds

CouponsSane ==
  /\ used \in [Coupon -> Nat] /\ usages \in Seq(Coupons!Usage)
  /\ CouponUsesRecorded

BookSane ==
  /\ orders \in Seq(Book!OrderRow) /\ Len(orders) <= MaxOrders
  /\ payments \in Seq(Book!PaymentRow) /\ Len(payments) <= MaxPayments
  /\ \A p \in Book!PaymentIds : payments[p].order \in Book!OrderIds
  /\ \A o \in Book!OrderIds : RowFits(orders[o])

\* A payment's callback wins only the write that marks it as paid.
WinsSane ==
  /\ wins \in [1 .. MaxPayments -> {0, 1}]
  /\ \A p \in 1 .. MaxPayments :
       wins[p] = 1 => p \in Book!PaymentIds /\ payments[p].paid

\* Order o shows goods g, or a request has them at hand for it.
AtHand(q, g) == q \in Busy /\ (g \in q.got \/ (q.pc \notin Reading /\ g \in q.copy.contents))
Holds(o, g) ==
  \/ o \in Book!OrderIds /\ g \in orders[o].contents
  \/ \E r \in Request : AtHand(req[r], g) /\ req[r].order = o

\* Goods are in one order's hands only: a card is in the hands of the order it
\* is sold to, and an upstream's purchase is one of those made.
GoodsSane ==
  /\ bought \in Nat
  /\ \A o \in Order, g \in Int : Holds(o, g) =>
       \/ g > 0 /\ \E s \in Vault!SoldTo(o) : s.id = g
       \/ g < 0 /\ -g <= bought
  /\ \A o, p \in Order, g \in Int : Holds(o, g) /\ Holds(p, g) => o = p

\* The inductive invariant.
StorefrontInv ==
  /\ RequestsSane
  /\ VaultSane
  /\ Acc!AccountsTypeOK
  /\ CouponsSane
  /\ BookSane
  /\ WinsSane
  /\ GoodsSane

-----------------------------------------------------------------------------
(* Rows of a table.                                                        *)

\* One more row.
LEMMA RowAdded ==
  ASSUME NEW S, NEW s \in Seq(S), NEW e \in S
  PROVE  /\ Append(s, e) \in Seq(S) /\ Len(s) \in Nat
         /\ Len(Append(s, e)) = Len(s) + 1
         /\ DOMAIN s = 1 .. Len(s) /\ DOMAIN Append(s, e) = 1 .. Len(s) + 1
         /\ \A i \in DOMAIN s : i \in DOMAIN Append(s, e) /\ Append(s, e)[i] = s[i]
         /\ Append(s, e)[Len(s) + 1] = e
  OBVIOUS

\* One row rewritten.
LEMMA RowChanged ==
  ASSUME NEW S, NEW s \in Seq(S), NEW e \in S, NEW i \in DOMAIN s
  PROVE  /\ [s EXCEPT ![i] = e] \in Seq(S)
         /\ Len([s EXCEPT ![i] = e]) = Len(s)
         /\ DOMAIN [s EXCEPT ![i] = e] = DOMAIN s
         /\ [s EXCEPT ![i] = e][i] = e
         /\ \A j \in DOMAIN s \ {i} : [s EXCEPT ![i] = e][j] = s[j]
  OBVIOUS

-----------------------------------------------------------------------------
(* One request moves.                                                      *)

\* What tables keep while requests work on them: the rows, and their columns
\* that say what was ordered.
TablesKeep ==
  /\ \A o \in Book!OrderIds : o \in Book!OrderIds' /\ SameOrder(orders'[o], orders[o])
  /\ \A p \in Book!PaymentIds : p \in Book!PaymentIds'

\* So that what a request knows of them stays true.
LEMMA SaneKept ==
  ASSUME TablesKeep
  PROVE  \A q : Sane(q) => Sane(q)'
<1> TAKE q
<1>1. q.order \in Book!OrderIds /\ SameOrder(q.copy, orders[q.order])
        => q.order \in Book!OrderIds' /\ SameOrder(q.copy, orders'[q.order])
  BY DEF TablesKeep, SameOrder
<1> QED
  BY <1>1 DEF Sane, Kinds, Copies, TablesKeep, RowFits, SameOrder

\* The others are not disturbed by the step of one.
LEMMA OneMoves ==
  ASSUME RequestsSane, TablesKeep, NEW r \in Request, NEW q,
         req' = [req EXCEPT ![r] = q],
         q = IdleReq \/ (q \in Busy /\ Sane(q)')
  PROVE  RequestsSane'
<1>1. req' \in [Request -> Busy \cup {IdleReq}]
  BY DEF RequestsSane
<1>2. ASSUME NEW x \in Request, req'[x] # IdleReq
      PROVE  Sane(req[x])'
  <2>1. \A y : Sane(y) => Sane(y)'
    BY SaneKept
  <2>2. CASE x = r
    <3>1. req'[x] = q
      BY <2>2 DEF RequestsSane
    <3>2. \A y : Sane(y)' /\ y = req'[x] => Sane(req[x])'
      BY DEF Sane, Kinds, Copies
    <3> QED
      BY <1>2, <3>1, <3>2
  <2>3. CASE x # r
    <3>1. req'[x] = req[x] /\ Sane(req[x])
      BY <1>2, <2>3 DEF RequestsSane
    <3>2. Sane(req[x])'
      BY <3>1, SaneKept DEF Sane, Kinds, Copies
    <3> QED
      BY <3>2
  <2> QED
    BY <2>2, <2>3
<1> QED
  BY <1>1, <1>2 DEF RequestsSane

-----------------------------------------------------------------------------
(* The steps of the tables.                                                *)

\* CreateOrder of an order as it is placed.
LEMMA OrderCreated ==
  ASSUME BookSane, NEW row \in Book!OrderRow, row.status = Book!Pending,
         Book!CreateOrder(row)
  PROVE  /\ BookSane' /\ TablesKeep /\ UNCHANGED payments
         /\ Len(orders) + 1 \in Order
         /\ Book!OrderIds' = Book!OrderIds \cup {Len(orders) + 1}
         /\ Len(orders) + 1 \notin Book!OrderIds
         /\ orders'[Len(orders) + 1] = row
         /\ \A o \in Book!OrderIds : orders'[o] = orders[o]
<1>1. /\ Len(orders) < MaxOrders /\ orders' = Append(orders, row) /\ UNCHANGED payments
      /\ orders \in Seq(Book!OrderRow)
  BY DEF Book!CreateOrder, BookSane
<1>2. /\ orders' \in Seq(Book!OrderRow) /\ Len(orders) \in Nat
      /\ Len(orders') = Len(orders) + 1
      /\ DOMAIN orders = 1 .. Len(orders) /\ DOMAIN orders' = 1 .. Len(orders) + 1
      /\ \A i \in DOMAIN orders : i \in DOMAIN orders' /\ orders'[i] = orders[i]
      /\ orders'[Len(orders) + 1] = row
  BY <1>1, RowAdded
<1>3. /\ Len(orders) + 1 \in Order /\ Len(orders') <= MaxOrders
      /\ DOMAIN orders' = DOMAIN orders \cup {Len(orders) + 1}
      /\ Len(orders) + 1 \notin DOMAIN orders
  BY <1>1, <1>2, StorefrontAssumption DEF Order
<1>4. RowFits(row)
  BY DEF RowFits, Book!Pending, Book!Delivered, Book!Refunded
<1>5. \A o \in DOMAIN orders' : RowFits(orders'[o])
  <2>1. \A o \in DOMAIN orders : RowFits(orders[o])
    BY DEF BookSane, Book!OrderIds
  <2> QED
    BY <1>2, <1>3, <1>4, <2>1
<1>6. BookSane'
  BY <1>1, <1>2, <1>3, <1>5 DEF BookSane, Book!OrderIds, Book!PaymentIds, RowFits
<1>7. TablesKeep
  BY <1>1, <1>2 DEF TablesKeep, Book!OrderIds, Book!PaymentIds, SameOrder
<1> QED
  BY <1>1, <1>2, <1>3, <1>6, <1>7 DEF Book!OrderIds

\* UpdateOrder with a copy that fits what was ordered.
LEMMA OrderUpdated ==
  ASSUME BookSane, NEW o \in Book!OrderIds, NEW copy \in Book!OrderRow, NEW moved \in BOOLEAN,
         SameOrder(copy, orders[o]), RowFits(copy), Book!UpdateOrder(o, copy, moved)
  PROVE  /\ BookSane' /\ TablesKeep /\ UNCHANGED payments
         /\ Len(orders') = Len(orders)
         /\ Book!OrderIds' = Book!OrderIds
         /\ \A p \in Book!OrderIds \ {o} : orders'[p] = orders[p]
         /\ orders'[o] = IF moved THEN orders[o] ELSE copy
<1>1. orders \in Seq(Book!OrderRow) /\ UNCHANGED payments /\ orders[o] \in Book!OrderRow
  BY DEF Book!UpdateOrder, BookSane, Book!OrderIds
<1>2. CASE moved
  <2>1. orders' = orders
    BY <1>2 DEF Book!UpdateOrder
  <2> QED
    BY <1>1, <1>2, <2>1 DEF BookSane, TablesKeep, Book!OrderIds, Book!PaymentIds, SameOrder, RowFits
<1>3. CASE ~moved
  <2>1. orders' = [orders EXCEPT ![o].status = copy.status, ![o].contents = copy.contents]
    BY <1>3 DEF Book!UpdateOrder
  <2>2. [orders[o] EXCEPT !.status = copy.status, !.contents = copy.contents] = copy
    BY <1>1 DEF Book!OrderRow, SameOrder
  <2>3. orders' = [orders EXCEPT ![o] = copy]
    BY <1>1, <2>1, <2>2 DEF Book!OrderIds
  <2>4. /\ orders' \in Seq(Book!OrderRow) /\ Len(orders') = Len(orders)
        /\ DOMAIN orders' = DOMAIN orders /\ orders'[o] = copy
        /\ \A p \in DOMAIN orders \ {o} : orders'[p] = orders[p]
    BY <1>1, <2>3, RowChanged DEF Book!OrderIds
  <2>5. \A p \in DOMAIN orders' : RowFits(orders'[p])
    <3>1. \A p \in DOMAIN orders : RowFits(orders[p])
      BY DEF BookSane, Book!OrderIds
    <3> QED
      BY <2>4, <3>1
  <2>6. BookSane'
    BY <1>1, <2>4, <2>5 DEF BookSane, Book!OrderIds, Book!PaymentIds, RowFits
  <2>7. TablesKeep
    BY <1>1, <2>4 DEF TablesKeep, Book!OrderIds, Book!PaymentIds, SameOrder
  <2> QED
    BY <1>1, <1>3, <2>4, <2>6, <2>7 DEF Book!OrderIds
<1> QED
  BY <1>2, <1>3

\* CreatePayment for an order that exists.
LEMMA PaymentCreated ==
  ASSUME BookSane, NEW o \in Book!OrderIds, NEW a \in Nat, NEW m \in Book!Method,
         Book!CreatePayment(o, a, m)
  PROVE  /\ BookSane' /\ TablesKeep /\ UNCHANGED orders
         /\ \A p \in Book!PaymentIds : payments'[p] = payments[p]
<1> DEFINE e == [order |-> o, amount |-> a, method |-> m, paid |-> FALSE, number |-> Book!NoNumber]
<1>1. /\ Len(payments) < MaxPayments /\ payments' = Append(payments, e) /\ UNCHANGED orders
      /\ payments \in Seq(Book!PaymentRow)
  BY DEF Book!CreatePayment, BookSane
<1>2. e \in Book!PaymentRow /\ e.order = o
  <2>1. o \in 1 .. MaxOrders /\ 0 \in 0 .. MaxPayments
    BY StorefrontAssumption DEF BookSane, Book!OrderIds
  <2> QED
    BY <2>1 DEF Book!PaymentRow, Book!NoNumber
<1> HIDE DEF e
<1>3. /\ payments' \in Seq(Book!PaymentRow) /\ Len(payments) \in Nat
      /\ Len(payments') = Len(payments) + 1
      /\ DOMAIN payments = 1 .. Len(payments) /\ DOMAIN payments' = 1 .. Len(payments) + 1
      /\ \A i \in DOMAIN payments : i \in DOMAIN payments' /\ payments'[i] = payments[i]
      /\ payments'[Len(payments) + 1] = e
  BY <1>1, <1>2, RowAdded
<1>4. \A p \in DOMAIN payments' : payments'[p].order \in DOMAIN orders
  BY <1>2, <1>3 DEF BookSane, Book!OrderIds, Book!PaymentIds
<1>5. BookSane'
  <2>1. Len(payments') <= MaxPayments
    BY <1>1, <1>3, StorefrontAssumption
  <2> QED
    BY <1>1, <1>3, <1>4, <2>1 DEF BookSane, Book!OrderIds, Book!PaymentIds, RowFits
<1>6. TablesKeep
  BY <1>1, <1>3 DEF TablesKeep, Book!OrderIds, Book!PaymentIds, SameOrder
<1> QED
  BY <1>1, <1>3, <1>5, <1>6 DEF Book!PaymentIds

\* MarkPaymentPaid of a payment that exists.
LEMMA PaymentMarked ==
  ASSUME BookSane, NEW p \in Book!PaymentIds, NEW n \in 0 .. MaxPayments,
         Book!MarkPaymentPaid(p, n)
  PROVE  /\ BookSane' /\ TablesKeep /\ UNCHANGED orders
         /\ Book!PaymentIds' = Book!PaymentIds
         /\ payments'[p].paid
         /\ \A i \in Book!PaymentIds : payments[i].paid => payments'[i].paid
<1>1. payments \in Seq(Book!PaymentRow) /\ UNCHANGED orders /\ payments[p] \in Book!PaymentRow
  BY DEF Book!MarkPaymentPaid, BookSane, Book!PaymentIds
<1>2. CASE payments[p].paid
  <2>1. payments' = payments
    BY <1>2 DEF Book!MarkPaymentPaid, Book!CanMark
  <2> QED
    BY <1>1, <1>2, <2>1 DEF BookSane, TablesKeep, Book!OrderIds, Book!PaymentIds, SameOrder, RowFits
<1>3. CASE ~payments[p].paid
  <2> DEFINE e == [payments[p] EXCEPT !.paid = TRUE,
                     !.number = IF n = Book!NoNumber THEN @ ELSE n]
  <2>1. payments' = [payments EXCEPT ![p] = e]
    BY <1>1, <1>3 DEF Book!MarkPaymentPaid, Book!CanMark, Book!PaymentIds
  <2>2. e \in Book!PaymentRow /\ e.order = payments[p].order /\ e.paid = TRUE
    BY <1>1 DEF Book!PaymentRow
  <2> HIDE DEF e
  <2>3. /\ payments' \in Seq(Book!PaymentRow) /\ Len(payments') = Len(payments)
        /\ DOMAIN payments' = DOMAIN payments /\ payments'[p] = e
        /\ \A i \in DOMAIN payments \ {p} : payments'[i] = payments[i]
    BY <1>1, <2>1, <2>2, RowChanged DEF Book!PaymentIds
  <2>4. \A i \in DOMAIN payments' : payments'[i].order \in DOMAIN orders
    BY <2>2, <2>3 DEF BookSane, Book!OrderIds, Book!PaymentIds
  <2>5. BookSane'
    BY <1>1, <2>3, <2>4 DEF BookSane, Book!OrderIds, Book!PaymentIds, RowFits
  <2>6. TablesKeep
    BY <1>1, <2>3 DEF TablesKeep, Book!OrderIds, Book!PaymentIds, SameOrder
  <2> QED
    BY <1>1, <2>2, <2>3, <2>5, <2>6 DEF Book!PaymentIds
<1> QED
  BY <1>2, <1>3

\* The ids of the rows a step of the vault rewrites.
NewIds == {s.id : s \in secrets' \ secrets}

\* PullSecret: one unsold secret becomes the order's.
LEMMA SecretPulled ==
  ASSUME VaultSane, NEW c \in Commodity, NEW o \in Order, Vault!PullSecret(c, o)
  PROVE  /\ VaultSane'
         /\ \A p : Vault!SoldTo(p) \subseteq Vault!SoldTo(p)'
         /\ \E g \in Nat \ {0} :
              /\ NewIds = {g}
              /\ \E s \in Vault!SoldTo(o)' : s.id = g
              /\ \A p : \A s \in Vault!SoldTo(p) : s.id # g
<1>1. PICK s \in Vault!Unsold(c) : Vault!Sell(c, s, o, 1)
  BY DEF Vault!PullSecret
<1> DEFINE z == [s EXCEPT !.status = 1, !.order = o]
<1>2. /\ secrets' = (secrets \ {s}) \cup {z} /\ nextSecret' = nextSecret
      /\ Vault!RefreshStock(c, 1)
      /\ s \in secrets /\ s.status = 0
  BY <1>1 DEF Vault!Sell, Vault!Unsold, Vault!UnsoldIn
<1>3. s \in Vault!UnsoldSecret
  BY <1>2 DEF VaultSane, Vault!VaultTypeOK, Vault!UnsoldSecret, Vault!SoldSecret
<1>4. z \in Vault!SoldSecret /\ z.id = s.id /\ z.status = 1 /\ z.order = o /\ s.id \in Nat \ {0}
  BY <1>3 DEF Vault!UnsoldSecret, Vault!SoldSecret
<1> HIDE DEF z
<1>5. IsFiniteSet(secrets')
  BY <1>2, FS_AddElement, FS_RemoveElement DEF VaultSane
<1>6. \A t \in secrets : t.id = s.id => t = s
  BY <1>2 DEF VaultSane, UniqueIds
<1>7. z \notin secrets
  BY <1>2, <1>4, <1>6
<1>8. VaultSane'
  <2>1. secrets' \subseteq Vault!UnsoldSecret \cup Vault!SoldSecret
    BY <1>2, <1>4 DEF VaultSane, Vault!VaultTypeOK
  <2>2. Cardinality(Vault!UnsoldIn(secrets', c)) \in Nat
    BY <1>5, FS_Subset, FS_CardinalityType DEF Vault!UnsoldIn
  <2>3. rows' \in [Commodity -> Vault!Row] /\ typed' \in [Commodity -> SUBSET Vault!Counter]
    BY <1>2, <2>2 DEF VaultSane, Vault!VaultTypeOK, Vault!RefreshStock, Vault!Row
  <2>4. UniqueIds'
    BY <1>2, <1>4, <1>6 DEF VaultSane, UniqueIds
  <2> QED
    BY <1>2, <1>5, <2>1, <2>3, <2>4 DEF VaultSane, Vault!VaultTypeOK
<1>9. \A p : Vault!SoldTo(p) \subseteq Vault!SoldTo(p)'
  BY <1>2 DEF Vault!SoldTo
<1>10. NewIds = {s.id}
  <2>1. secrets' \ secrets = {z}
    BY <1>2, <1>7
  <2> QED
    BY <1>4, <2>1 DEF NewIds
<1>11. z \in Vault!SoldTo(o)'
  BY <1>2, <1>4 DEF Vault!SoldTo
<1>12. \A p : \A t \in Vault!SoldTo(p) : t.id # s.id
  BY <1>2, <1>6 DEF Vault!SoldTo
<1> QED
  BY <1>4, <1>8, <1>9, <1>10, <1>11, <1>12

\* UPDATE ... RETURNING balance with its entry: one entry at the end of one
\* journal.
LEMMA EntryPosted ==
  ASSUME Acc!AccountsTypeOK, NEW u \in User, NEW typ \in Acc!EntryType, NEW a \in Int,
         NEW o \in Nat, o \in Order \cup {NoOrder}, NEW b \in User \cup {NoUser},
         Acc!Post(u, typ, a, o, b)
  PROVE  /\ balance' \in [User -> Int]
         /\ journal' \in [User -> Seq(Acc!Entry)]
         /\ balance'[u] = balance[u] + a
         /\ Len(journal[u]) \in Nat /\ Len(journal[u]) < MaxEntries
         /\ Len(journal'[u]) = Len(journal[u]) + 1
         /\ \A i \in 1 .. Len(journal[u]) : journal'[u][i] = journal[u][i]
         /\ journal'[u][Len(journal[u]) + 1] =
              [type |-> typ, amount |-> a, balance |-> balance[u] + a, order |-> o, buyer |-> b]
         /\ \A v \in User \ {u} : balance'[v] = balance[v] /\ journal'[v] = journal[v]
<1> DEFINE e == [type |-> typ, amount |-> a, balance |-> balance[u] + a, order |-> o, buyer |-> b]
<1>1. /\ Len(journal[u]) < MaxEntries
      /\ balance' = [balance EXCEPT ![u] = @ + a]
      /\ journal' = [journal EXCEPT ![u] = Append(@, e)]
  BY DEF Acc!Post
<1>2. balance \in [User -> Int] /\ journal \in [User -> Seq(Acc!Entry)]
  BY DEF Acc!AccountsTypeOK
<1>3. e \in Acc!Entry
  BY <1>2 DEF Acc!Entry
<1> HIDE DEF e
<1>4. journal[u] \in Seq(Acc!Entry) /\ journal'[u] = Append(journal[u], e)
  BY <1>1, <1>2
<1>5. /\ Append(journal[u], e) \in Seq(Acc!Entry) /\ Len(journal[u]) \in Nat
      /\ Len(Append(journal[u], e)) = Len(journal[u]) + 1
      /\ \A i \in 1 .. Len(journal[u]) : Append(journal[u], e)[i] = journal[u][i]
      /\ Append(journal[u], e)[Len(journal[u]) + 1] = e
  BY <1>3, <1>4, RowAdded
<1>6. balance' \in [User -> Int] /\ balance'[u] = balance[u] + a
  BY <1>1, <1>2
<1>7. journal' \in [User -> Seq(Acc!Entry)]
  BY <1>1, <1>2, <1>4, <1>5
<1>8. \A v \in User \ {u} : balance'[v] = balance[v] /\ journal'[v] = journal[v]
  BY <1>1, <1>2
<1> QED
  BY <1>1, <1>4, <1>5, <1>6, <1>7, <1>8 DEF e

\* UseCoupon counts the use it records.
LEMMA CouponUsed ==
  ASSUME CouponsSane, BookSane, NEW c \in Coupon, NEW u \in User, NEW o \in Book!OrderIds,
         orders[o].coupon = c, orders[o].user = u,
         Coupons!UseCoupon(c, u, o), UNCHANGED orders
  PROVE  CouponsSane'
<1> DEFINE e == [coupon |-> c, user |-> u, order |-> o]
           n == Len(usages) + 1
<1>1. usages' = Append(usages, e) /\ used' = [used EXCEPT ![c] = @ + 1]
  BY DEF Coupons!UseCoupon
<1>2. o \in Order
  BY StorefrontAssumption DEF BookSane, Book!OrderIds, Order
<1>3. e \in Coupons!Usage /\ e.coupon = c /\ e.user = u /\ e.order = o
  BY <1>2 DEF Coupons!Usage
<1> HIDE DEF e
<1>4. usages \in Seq(Coupons!Usage)
  BY DEF CouponsSane
<1>5. /\ usages' \in Seq(Coupons!Usage) /\ Len(usages) \in Nat /\ Len(usages') = n
      /\ \A i \in 1 .. Len(usages) : usages'[i] = usages[i]
      /\ usages'[n] = e
  BY <1>1, <1>3, <1>4, RowAdded
<1>6. ASSUME NEW d \in Coupon
      PROVE  used'[d] = Cardinality(Coupons!UsagesOf(d)')
  <2>1. /\ IsFiniteSet(Coupons!UsagesOf(d)) /\ n \notin Coupons!UsagesOf(d)
        /\ Cardinality(Coupons!UsagesOf(d)) = used[d]
    <3>1. IsFiniteSet(1 .. Len(usages))
      <4>1. Len(usages) \in Int /\ 1 \in Int
        BY <1>5
      <4> QED
        BY <4>1, FS_Interval
    <3>2. n \notin 1 .. Len(usages)
      BY <1>5
    <3> QED
      BY <3>1, <3>2, FS_Subset DEF Coupons!UsagesOf, CouponsSane, CouponUsesRecorded
  <2>2. CASE d = c
    <3>1. Coupons!UsagesOf(d)' = Coupons!UsagesOf(d) \cup {n}
      BY <1>3, <1>5, <2>2 DEF Coupons!UsagesOf
    <3>2. Cardinality(Coupons!UsagesOf(d) \cup {n}) = used[d] + 1
      BY <2>1, FS_AddElement
    <3>3. used'[d] = used[d] + 1
      BY <1>1, <2>2 DEF CouponsSane
    <3> QED
      BY <3>1, <3>2, <3>3
  <2>3. CASE d # c
    <3>1. Coupons!UsagesOf(d)' = Coupons!UsagesOf(d)
      BY <1>3, <1>5, <2>3 DEF Coupons!UsagesOf
    <3> QED
      BY <1>1, <2>1, <2>3, <3>1 DEF CouponsSane
  <2> QED
    BY <2>2, <2>3
<1>7. ASSUME NEW i \in 1 .. Len(usages')
      PROVE  /\ usages'[i].order \in Book!OrderIds'
             /\ orders'[usages'[i].order].coupon = usages'[i].coupon
             /\ orders'[usages'[i].order].user = usages'[i].user
  BY <1>3, <1>5 DEF CouponsSane, CouponUsesRecorded, Book!OrderIds
<1>8. used' \in [Coupon -> Nat]
  BY <1>1 DEF CouponsSane
<1> QED
  BY <1>5, <1>6, <1>7, <1>8 DEF CouponsSane, CouponUsesRecorded

\* Rows that keep what was ordered keep the uses recorded.
LEMMA CouponsKept ==
  ASSUME CouponsSane, TablesKeep, UNCHANGED couponVars
  PROVE  CouponsSane'
  BY DEF CouponsSane, CouponUsesRecorded, TablesKeep, SameOrder, couponVars, Coupons!UsagesOf

-----------------------------------------------------------------------------
(* Goods stay in the hands of one order.                                   *)

\* A step that passes goods on within an order's hands and adds fresh ones.
LEMMA GoodsPassed ==
  ASSUME RequestsSane, GoodsSane, NEW r \in Request, NEW q, req' = [req EXCEPT ![r] = q],
         \A p : Vault!SoldTo(p) \subseteq Vault!SoldTo(p)',
         bought' \in Nat, bought <= bought',
         NEW F \in SUBSET Int, NEW o,
         \A g \in F : /\ \A p \in Order : ~Holds(p, g)
                      /\ \/ g > 0 /\ \E s \in Vault!SoldTo(o)' : s.id = g
                         \/ g < 0 /\ -g <= bought',
         \A g \in Int : AtHand(q, g) => Holds(q.order, g) \/ (g \in F /\ q.order = o),
         \A p \in Book!OrderIds' : \A g \in orders'[p].contents : Holds(p, g)
  PROVE  GoodsSane'
<1>1. ASSUME NEW p \in Order, NEW g \in Int, Holds(p, g)'
      PROVE  Holds(p, g) \/ (g \in F /\ p = o)
  <2>1. CASE p \in Book!OrderIds' /\ g \in orders'[p].contents
    BY <2>1
  <2>2. CASE \E x \in Request : AtHand(req'[x], g) /\ req'[x].order = p
    <3>1. PICK x \in Request : AtHand(req'[x], g) /\ req'[x].order = p
      BY <2>2
    <3>2. CASE x = r
      <4>1. req'[x] = q
        BY <3>2 DEF RequestsSane
      <4> QED
        BY <3>1, <4>1
    <3>3. CASE x # r
      <4>1. req'[x] = req[x]
        BY <3>3 DEF RequestsSane
      <4> QED
        BY <3>1, <4>1 DEF Holds
    <3> QED
      BY <3>2, <3>3
  <2>3. Holds(p, g)' <=> \/ p \in Book!OrderIds' /\ g \in orders'[p].contents
                         \/ \E x \in Request : AtHand(req'[x], g) /\ req'[x].order = p
    BY DEF Holds, AtHand
  <2> QED
    BY <1>1, <2>1, <2>2, <2>3
<1>2. ASSUME NEW p \in Order, NEW g \in Int, Holds(p, g)'
      PROVE  \/ g > 0 /\ \E s \in Vault!SoldTo(p)' : s.id = g
             \/ g < 0 /\ -g <= bought'
  <2>1. CASE Holds(p, g)
    <3>1. \/ g > 0 /\ \E s \in Vault!SoldTo(p) : s.id = g
          \/ g < 0 /\ -g <= bought
      BY <2>1 DEF GoodsSane
    <3>2. g < 0 /\ -g <= bought => -g <= bought'
      BY DEF GoodsSane
    <3> QED
      BY <3>1, <3>2
  <2>2. CASE g \in F /\ p = o
    BY <2>2
  <2> QED
    BY <1>1, <1>2, <2>1, <2>2
<1>3. ASSUME NEW p \in Order, NEW v \in Order, NEW g \in Int, Holds(p, g)', Holds(v, g)'
      PROVE  p = v
  <2>1. Holds(p, g) \/ (g \in F /\ p = o)
    BY <1>1, <1>3
  <2>2. Holds(v, g) \/ (g \in F /\ v = o)
    BY <1>1, <1>3
  <2> QED
    BY <2>1, <2>2 DEF GoodsSane
<1> QED
  BY <1>2, <1>3 DEF GoodsSane

\* A step of one request that sells nothing and buys nothing keeps the
\* invariant if it keeps the tables' parts.
LEMMA StepKeeps ==
  ASSUME StorefrontInv, UNCHANGED <<vaultVars, bought>>,
         NEW r \in Request, NEW q, req' = [req EXCEPT ![r] = q],
         q = IdleReq \/ (q \in Busy /\ Sane(q)'),
         \A g \in Int : AtHand(q, g) => Holds(q.order, g),
         \A p \in Book!OrderIds' : \A g \in orders'[p].contents : Holds(p, g),
         TablesKeep, BookSane', Acc!AccountsTypeOK', CouponsSane', WinsSane'
  PROVE  StorefrontInv'
<1>1. RequestsSane'
  BY OneMoves DEF StorefrontInv
<1>2. VaultSane'
  BY DEF StorefrontInv, VaultSane, vaultVars, Vault!VaultTypeOK, UniqueIds
<1>3. GoodsSane'
  <2>1. RequestsSane /\ GoodsSane
    BY DEF StorefrontInv
  <2>2. bought' \in Nat /\ bought <= bought'
    BY <2>1 DEF GoodsSane
  <2>3. \A p : Vault!SoldTo(p) \subseteq Vault!SoldTo(p)'
    BY DEF Vault!SoldTo, vaultVars
  <2>4. {} \in SUBSET Int
    OBVIOUS
  <2> QED
    BY <2>1, <2>2, <2>3, <2>4, GoodsPassed
<1> QED
  BY <1>1, <1>2, <1>3 DEF StorefrontInv

\* What an untouched table keeps.
LEMMA SameTables ==
  ASSUME StorefrontInv
  PROVE  /\ UNCHANGED bookVars => BookSane' /\ TablesKeep
         /\ UNCHANGED orders => \A p \in Book!OrderIds' : \A g \in orders'[p].contents : Holds(p, g)
         /\ UNCHANGED accountVars => Acc!AccountsTypeOK'
         /\ TablesKeep /\ UNCHANGED couponVars => CouponsSane'
         /\ UNCHANGED payments /\ UNCHANGED wins => WinsSane'
<1>1. UNCHANGED bookVars => BookSane' /\ TablesKeep
  BY DEF StorefrontInv, BookSane, TablesKeep, bookVars, Book!OrderIds, Book!PaymentIds,
    SameOrder, RowFits
<1>2. UNCHANGED orders => \A p \in Book!OrderIds' : \A g \in orders'[p].contents : Holds(p, g)
  BY DEF Holds, Book!OrderIds
<1>3. UNCHANGED accountVars => Acc!AccountsTypeOK'
  BY DEF StorefrontInv, accountVars, Acc!AccountsTypeOK
<1>4. TablesKeep /\ UNCHANGED couponVars => CouponsSane'
  BY CouponsKept DEF StorefrontInv
<1>5. UNCHANGED payments /\ UNCHANGED wins => WinsSane'
  BY DEF StorefrontInv, WinsSane, Book!PaymentIds
<1> QED
  BY <1>1, <1>2, <1>3, <1>4, <1>5

\* A step of one request in its own memory.
LEMMA OnlyRequest ==
  ASSUME StorefrontInv,
         UNCHANGED <<vaultVars, accountVars, couponVars, bookVars, bought, wins>>,
         NEW r \in Request, NEW q, req' = [req EXCEPT ![r] = q],
         q = IdleReq \/ (q \in Busy /\ Sane(q)),
         \A g \in Int : AtHand(q, g) => Holds(q.order, g)
  PROVE  StorefrontInv'
<1>1. UNCHANGED bookVars /\ UNCHANGED orders /\ UNCHANGED payments
  BY DEF bookVars
<1>2. TablesKeep /\ BookSane' /\ Acc!AccountsTypeOK' /\ CouponsSane' /\ WinsSane'
  BY <1>1, SameTables
<1>3. \A p \in Book!OrderIds' : \A g \in orders'[p].contents : Holds(p, g)
  BY <1>1, SameTables
<1>4. q \in Busy /\ Sane(q) => Sane(q)'
  BY <1>2, SaneKept
<1> QED
  BY <1>2, <1>3, <1>4, StepKeeps

\* A request that is somewhere has a sane memory.
LEMMA AtSane ==
  ASSUME RequestsSane, NEW r \in Request, NEW pc \in Place, At(r, pc)
  PROVE  /\ req[r] \in Busy /\ Sane(req[r]) /\ req[r].pc = pc
         /\ \A g \in Int : AtHand(req[r], g) => Holds(req[r].order, g)
<1>1. req[r] # IdleReq
  BY DEF At, IdleReq, Place, Ordering, Reading, BuyPath, EndPath, PayPath
<1> QED
  BY <1>1 DEF RequestsSane, At, Holds

\* Going on to pc changes nothing else of a request's memory.
LEMMA GoneTo ==
  ASSUME NEW x \in Busy, NEW pc \in Place, NEW q, q = [x EXCEPT !.pc = pc]
  PROVE  /\ q \in Busy /\ q.pc = pc
         /\ q.kind = x.kind /\ q.user = x.user /\ q.order = x.order /\ q.copy = x.copy
         /\ q.moved = x.moved /\ q.got = x.got /\ q.pay = x.pay /\ q.method = x.method
         /\ q.number = x.number
  BY DEF Busy

\* A request that is answered holds nothing.
LEMMA IdleHolds == IdleReq \notin Busy /\ \A g : ~AtHand(IdleReq, g)
<1>1. IdleReq.pc = "idle"
  BY DEF IdleReq
<1>2. \A x \in Busy : x.pc # "idle"
  BY DEF Busy, Place, Ordering, Reading, BuyPath, EndPath, PayPath
<1> QED
  BY <1>1, <1>2 DEF AtHand

-----------------------------------------------------------------------------
(* Requests that begin.                                                    *)

LEMMA BeginOrderInv ==
  ASSUME StorefrontInv, NEW r \in Request, NEW kind \in {"buy", "order"}, BeginOrder(r, kind)
  PROVE  StorefrontInv'
<1>1. PICK u \in Buyers, c \in Commodity, n \in Nums,
           pc \in {"coupon"} \cup (IF Inviters = {} THEN {} ELSE {"bind"}) :
        req' = [req EXCEPT ![r] = NewReq(kind, pc, u, 0,
            [user |-> u, commodity |-> c, num |-> n, amount |-> Price[c] * n,
             coupon |-> Book!NoCoupon, status |-> Book!Pending, contents |-> {}])]
  BY DEF BeginOrder
<1> DEFINE amount == Price[c] * n
           copy == [user |-> u, commodity |-> c, num |-> n, amount |-> amount,
                    coupon |-> Book!NoCoupon, status |-> Book!Pending, contents |-> {}]
           q == NewReq(kind, pc, u, 0, copy)
<1>2. amount \in Nat /\ n \in Nat \ {0} /\ u \in User
  BY StorefrontAssumption
<1> HIDE DEF amount
<1>3. copy \in Book!OrderRow /\ copy.user = u /\ copy.contents = {} /\ copy.status = Book!Pending
  BY <1>2 DEF Book!OrderRow, Book!Status
<1> HIDE DEF copy
<1>4. pc \in {"bind", "coupon"}
  OBVIOUS
<1>5. q \in Busy
  BY <1>2, <1>3, <1>4, StorefrontAssumption DEF NewReq, Busy, Place, Ordering, Book!NoNumber
<1>6. /\ q.kind = kind /\ q.pc = pc /\ q.user = u /\ q.copy = copy /\ q.got = {}
  BY DEF NewReq
<1>7. req' = [req EXCEPT ![r] = q]
  BY <1>1 DEF copy, amount
<1> HIDE DEF q
<1>8. Sane(q)
  BY <1>2, <1>3, <1>4, <1>6 DEF Sane, Kinds, Copies, Ordering, Reading, BuyPath, EndPath, PayPath
<1>9. \A g \in Int : ~AtHand(q, g)
  BY <1>3, <1>6 DEF AtHand
<1>10. UNCHANGED <<vaultVars, accountVars, couponVars, bookVars, bought, wins>>
  BY DEF BeginOrder
<1> QED
  BY <1>5, <1>7, <1>8, <1>9, <1>10, OnlyRequest

\* A request about an order that exists, with or without a copy of its row.
LEMMA NewRequest ==
  ASSUME NEW kind \in {"pay", "finish"}, NEW pc \in {"newpay"} \cup Reading,
         NEW u \in User \cup {NoUser}, NEW o \in Nat, NEW copy \in Book!OrderRow \cup {NoCopy},
         NEW x, x = NewReq(kind, pc, u, o, copy)
  PROVE  /\ x \in Busy
         /\ x.kind = kind /\ x.pc = pc /\ x.user = u /\ x.order = o /\ x.copy = copy
         /\ x.got = {}
  BY StorefrontAssumption DEF NewReq, Busy, Place, PayPath, Reading, Book!NoNumber

\* The ids of orders and of payments are numbers.
LEMMA IdsAreNumbers ==
  ASSUME BookSane
  PROVE  /\ \A o \in Book!OrderIds : o \in Nat /\ o \in Order /\ orders[o] \in Book!OrderRow
         /\ \A p \in Book!PaymentIds : p \in Nat /\ p \in 1 .. MaxPayments
                                      /\ payments[p] \in Book!PaymentRow
  BY StorefrontAssumption DEF BookSane, Book!OrderIds, Book!PaymentIds, Order

LEMMA BeginPaymentInv ==
  ASSUME StorefrontInv, NEW r \in Request, BeginPayment(r)
  PROVE  StorefrontInv'
<1>1. PICK u \in Buyers, o \in Book!OrderIds, m \in Book!Method :
        /\ orders[o].status = Book!Pending
        /\ req' = [req EXCEPT ![r] = [NewReq("pay", "newpay", u, o, orders[o]) EXCEPT !.method = m]]
  BY DEF BeginPayment
<1> DEFINE x == NewReq("pay", "newpay", u, o, orders[o])
           q == [x EXCEPT !.method = m]
<1>2. o \in Nat /\ o \in Order /\ orders[o] \in Book!OrderRow
  BY IdsAreNumbers DEF StorefrontInv
<1>3. u \in User /\ 0 \in 0 .. MaxPayments
  BY StorefrontAssumption
<1>4. req' = [req EXCEPT ![r] = q]
  BY <1>1
<1>5. /\ x \in Busy /\ x.kind = "pay" /\ x.pc = "newpay" /\ x.user = u /\ x.order = o
      /\ x.copy = orders[o] /\ x.got = {} /\ x.pay \in Nat
  <2>1. x \in Busy => x.pay \in Nat
    BY DEF Busy
  <2> QED
    BY <1>2, <1>3, <2>1, NewRequest
<1> HIDE DEF x
<1>6. /\ q \in Busy /\ q.kind = "pay" /\ q.pc = "newpay" /\ q.user = u /\ q.order = o
      /\ q.copy = orders[o] /\ q.got = {} /\ q.method = m
  BY <1>3, <1>5, SMTT(20) DEF Busy
<1> HIDE DEF q
<1>7. Sane(q)
  BY <1>1, <1>2, <1>3, <1>6
  DEF Sane, Kinds, Copies, Ordering, Reading, BuyPath, EndPath, PayPath, SameOrder
<1>8. \A g \in Int : AtHand(q, g) => Holds(q.order, g)
  BY <1>6 DEF AtHand, Holds
<1>9. UNCHANGED <<vaultVars, accountVars, couponVars, bookVars, bought, wins>>
  BY DEF BeginPayment
<1> QED
  BY <1>4, <1>6, <1>7, <1>8, <1>9, OnlyRequest

\* A request that is to finish an order, and has not read it.
ToFinish(q) ==
  /\ q \in Busy /\ q.kind = "finish" /\ q.pc \in Reading
  /\ q.order \in Book!OrderIds
  /\ q.pc \in {"mark", "callback"} => q.pay \in Book!PaymentIds
  /\ q.got = {} /\ q.moved = FALSE

\* A check, a callback or a finish: the order is read later.
LEMMA ReadingBegun ==
  ASSUME StorefrontInv, NEW r \in Request, BeginCheck(r) \/ BeginCallback(r) \/ BeginFinish(r)
  PROVE  \E q : req' = [req EXCEPT ![r] = q] /\ ToFinish(q)
<1>1. \A o \in Book!OrderIds : o \in Nat /\ o \in Order /\ orders[o] \in Book!OrderRow
  BY IdsAreNumbers DEF StorefrontInv
<1>2. \A p \in Book!PaymentIds : /\ p \in Nat /\ p \in 1 .. MaxPayments
                                /\ payments[p].order \in Book!OrderIds
  BY IdsAreNumbers DEF StorefrontInv, BookSane
<1>3. CASE BeginCheck(r)
  <2>1. PICK p \in Book!PaymentIds : req' = [req EXCEPT ![r] =
          [NewReq("finish", "mark", NoUser, payments[p].order, NoCopy) EXCEPT !.pay = p]]
    BY <1>3 DEF BeginCheck
  <2> DEFINE x == NewReq("finish", "mark", NoUser, payments[p].order, NoCopy)
             q == [x EXCEPT !.pay = p]
  <2>2. req' = [req EXCEPT ![r] = q]
    BY <2>1
  <2>3. payments[p].order \in Nat /\ p \in Nat /\ 0 \in 0 .. MaxPayments
    BY <1>1, <1>2, StorefrontAssumption
  <2>4. /\ x \in Busy /\ x.kind = "finish" /\ x.pc = "mark"
        /\ x.order = payments[p].order /\ x.got = {}
    BY <2>3, NewRequest DEF Reading
  <2>10. x.moved = FALSE
    BY DEF NewReq
  <2> HIDE DEF x
  <2>5. /\ q \in Busy /\ q.kind = "finish" /\ q.pc = "mark"
        /\ q.order = payments[p].order /\ q.pay = p /\ q.got = {} /\ q.moved = FALSE
    BY <2>3, <2>4, <2>10, SMTT(20) DEF Busy
  <2> QED
    BY <1>2, <2>2, <2>5 DEF Reading, ToFinish
<1>4. CASE BeginCallback(r)
  <2>0. PICK i \in Book!PaymentIds :
          \E n \in NumbersOf(i) : \E p \in Book!PaymentByNumber(n) :
            req' = [req EXCEPT ![r] =
              [NewReq("finish", "callback", NoUser, payments[p].order, NoCopy)
                 EXCEPT !.pay = p, !.number = n]]
    BY <1>4 DEF BeginCallback
  <2>1. PICK n \in NumbersOf(i) : \E p \in Book!PaymentByNumber(n) :
          req' = [req EXCEPT ![r] =
            [NewReq("finish", "callback", NoUser, payments[p].order, NoCopy)
               EXCEPT !.pay = p, !.number = n]]
    BY <2>0
  <2>2. PICK p \in Book!PaymentByNumber(n) : req' = [req EXCEPT ![r] =
            [NewReq("finish", "callback", NoUser, payments[p].order, NoCopy)
               EXCEPT !.pay = p, !.number = n]]
    BY <2>1
  <2> DEFINE x == NewReq("finish", "callback", NoUser, payments[p].order, NoCopy)
             q == [x EXCEPT !.pay = p, !.number = n]
  <2>4. req' = [req EXCEPT ![r] = q]
    BY <2>2
  <2>5. p \in Book!PaymentIds
    BY DEF Book!PaymentByNumber
  <2>6. n \in 0 .. MaxPayments
    BY <1>2, StorefrontAssumption DEF NumbersOf, Book!NoNumber
  <2>7. payments[p].order \in Nat /\ p \in Nat
    BY <1>1, <1>2, <2>5
  <2>8. /\ x \in Busy /\ x.kind = "finish" /\ x.pc = "callback"
        /\ x.order = payments[p].order /\ x.got = {}
    BY <2>7, NewRequest DEF Reading
  <2>10. x.moved = FALSE
    BY DEF NewReq
  <2> HIDE DEF x
  <2>9. /\ q \in Busy /\ q.kind = "finish" /\ q.pc = "callback"
        /\ q.order = payments[p].order /\ q.pay = p /\ q.got = {} /\ q.moved = FALSE
    <3> DEFINE y == [x EXCEPT !.pay = p]
    <3>1. q = [y EXCEPT !.number = n]
      BY <2>6, <2>7, <2>8, SMTT(20) DEF Busy
    <3>2. /\ y \in Busy /\ y.kind = "finish" /\ y.pc = "callback"
          /\ y.order = payments[p].order /\ y.pay = p /\ y.got = {} /\ y.moved = FALSE
      BY <2>7, <2>8, <2>10, SMTT(20) DEF Busy
    <3> HIDE DEF y, q
    <3> QED
      BY <2>6, <3>1, <3>2, SMTT(20) DEF Busy
  <2> QED
    BY <1>2, <2>4, <2>5, <2>9 DEF Reading, ToFinish
<1>5. CASE BeginFinish(r)
  <2>1. PICK o \in Book!OrderIds :
          req' = [req EXCEPT ![r] = NewReq("finish", "finish", orders[o].user, o, NoCopy)]
    BY <1>5 DEF BeginFinish
  <2> DEFINE q == NewReq("finish", "finish", orders[o].user, o, NoCopy)
  <2>2. req' = [req EXCEPT ![r] = q]
    BY <2>1
  <2>3. o \in Nat /\ orders[o].user \in User
    BY <1>1 DEF Book!OrderRow
  <2>4. /\ q \in Busy /\ q.kind = "finish" /\ q.pc = "finish" /\ q.order = o /\ q.got = {}
    BY <2>3, NewRequest DEF Reading
  <2>5. q.moved = FALSE
    BY DEF NewReq
  <2> HIDE DEF q
  <2> QED
    BY <2>2, <2>4, <2>5 DEF Reading, ToFinish
<1> QED
  BY <1>3, <1>4, <1>5

LEMMA BeginReadingInv ==
  ASSUME StorefrontInv, NEW r \in Request, BeginCheck(r) \/ BeginCallback(r) \/ BeginFinish(r)
  PROVE  StorefrontInv'
<1>0. PICK q : req' = [req EXCEPT ![r] = q] /\ ToFinish(q)
  BY ReadingBegun
<1>1. /\ req' = [req EXCEPT ![r] = q]
      /\ q \in Busy /\ q.kind = "finish" /\ q.pc \in Reading
      /\ q.order \in Book!OrderIds
      /\ q.pc \in {"mark", "callback"} => q.pay \in Book!PaymentIds
      /\ q.got = {}
  BY <1>0 DEF ToFinish
<1>2. Sane(q)
  BY <1>1 DEF Sane, Kinds, Copies, Ordering, Reading, BuyPath, EndPath, PayPath
<1>3. \A g \in Int : ~AtHand(q, g)
  BY <1>1 DEF AtHand
<1>4. UNCHANGED <<vaultVars, accountVars, couponVars, bookVars, bought, wins>>
  BY DEF BeginCheck, BeginCallback, BeginFinish
<1> QED
  BY <1>1, <1>2, <1>3, <1>4, OnlyRequest

-----------------------------------------------------------------------------
(* Placing an order.                                                       *)

\* Goto moves one request, with its memory.
LEMMA GoesTo ==
  ASSUME RequestsSane, NEW r \in Request, req[r] \in Busy, NEW pc \in Place, Goto(r, pc),
         req[r].pc \in Reading => pc \in Reading
  PROVE  \E q \in Busy :
           /\ req' = [req EXCEPT ![r] = q] /\ q.pc = pc
           /\ q.kind = req[r].kind /\ q.user = req[r].user /\ q.order = req[r].order
           /\ q.copy = req[r].copy /\ q.moved = req[r].moved /\ q.got = req[r].got
           /\ q.pay = req[r].pay /\ q.method = req[r].method /\ q.number = req[r].number
           /\ \A g \in Int : AtHand(q, g) => Holds(q.order, g)
<1> DEFINE q == [req[r] EXCEPT !.pc = pc]
<1>1. req' = [req EXCEPT ![r] = q]
  BY DEF Goto
<1>2. /\ q \in Busy /\ q.pc = pc
      /\ q.kind = req[r].kind /\ q.user = req[r].user /\ q.order = req[r].order
      /\ q.copy = req[r].copy /\ q.moved = req[r].moved /\ q.got = req[r].got
      /\ q.pay = req[r].pay /\ q.method = req[r].method /\ q.number = req[r].number
  BY GoneTo
<1> HIDE DEF q
<1>3. \A g \in Int : AtHand(q, g) => Holds(q.order, g)
  BY <1>2 DEF AtHand, Holds
<1> QED
  BY <1>1, <1>2, <1>3

\* A discount is never more than the amount.
LEMMA DiscountBounded ==
  ASSUME NEW c \in Coupon, NEW a \in Nat
  PROVE  Coupons!Discount(c, a) \in Nat /\ a - Coupons!Discount(c, a) \in Nat
<1>1. /\ Terms[c].discount \in Nat /\ Terms[c].percent \in BOOLEAN
  BY StorefrontAssumption
<1> DEFINE product == a * Terms[c].discount
           part == product \div 100
           d == IF Terms[c].percent THEN part ELSE Terms[c].discount
<1>2. product \in Nat
  BY <1>1
<1> HIDE DEF product
<1>3. part \in Nat
  BY <1>2
<1>4. d \in Nat
  BY <1>1, <1>3
<1>5. Coupons!Discount(c, a) = IF d > a THEN a ELSE d
  BY DEF Coupons!Discount, product
<1> HIDE DEF d
<1> QED
  BY <1>4, <1>5

LEMMA BindInv ==
  ASSUME StorefrontInv, NEW r \in Request, Bind(r)
  PROVE  StorefrontInv'
<1>1. /\ At(r, "bind") /\ Goto(r, "coupon")
      /\ \E i \in Inviters :
           IF i # req[r].user /\ referrer[req[r].user] = NoUser
           THEN Acc!BindReferrer(req[r].user, i)
           ELSE UNCHANGED accountVars
      /\ UNCHANGED <<vaultVars, couponVars, bookVars, bought, wins>>
  BY DEF Bind
<1>2. RequestsSane /\ "bind" \in Place /\ "coupon" \in Place /\ "bind" \notin Reading
  BY DEF StorefrontInv, Place, Ordering, Reading
<1>3. req[r] \in Busy /\ Sane(req[r]) /\ req[r].pc = "bind"
  BY <1>1, <1>2, AtSane
<1>4. PICK q \in Busy :
        /\ req' = [req EXCEPT ![r] = q] /\ q.pc = "coupon"
        /\ q.kind = req[r].kind /\ q.user = req[r].user /\ q.order = req[r].order
        /\ q.copy = req[r].copy /\ q.got = req[r].got
        /\ \A g \in Int : AtHand(q, g) => Holds(q.order, g)
  BY <1>1, <1>2, <1>3, GoesTo
<1>5. Sane(q)
  BY <1>3, <1>4 DEF Sane, Kinds, Copies, Ordering, Reading, BuyPath, EndPath, PayPath
<1>6. UNCHANGED bookVars /\ UNCHANGED orders /\ UNCHANGED payments
  BY <1>1 DEF bookVars
<1>7. TablesKeep /\ BookSane' /\ CouponsSane' /\ WinsSane'
  BY <1>1, <1>6, SameTables
<1>8. \A p \in Book!OrderIds' : \A g \in orders'[p].contents : Holds(p, g)
  BY <1>6, SameTables
<1>9. Acc!AccountsTypeOK'
  <2>1. CASE UNCHANGED accountVars
    BY <2>1, SameTables
  <2>2. ASSUME NEW i \in Inviters, Acc!BindReferrer(req[r].user, i)
        PROVE  Acc!AccountsTypeOK'
    BY <2>2, StorefrontAssumption DEF Acc!BindReferrer, StorefrontInv, Acc!AccountsTypeOK
  <2> QED
    BY <1>1, <2>1, <2>2
<1>10. Sane(q)'
  BY <1>5, <1>7, SaneKept
<1> QED
  BY <1>1, <1>4, <1>7, <1>8, <1>9, <1>10, StepKeeps

LEMMA TakeCouponInv ==
  ASSUME StorefrontInv, NEW r \in Request, TakeCoupon(r)
  PROVE  StorefrontInv'
<1> DEFINE next == IF req[r].kind = "buy" THEN "check" ELSE "create"
<1>1. /\ At(r, "coupon")
      /\ \/ Goto(r, next)
         \/ \E c \in Coupon :
              req' = [req EXCEPT ![r].pc = next, ![r].copy.coupon = c,
                                 ![r].copy.amount = @ - Coupons!Discount(c, @)]
      /\ UNCHANGED <<vaultVars, accountVars, couponVars, bookVars, bought, wins>>
  BY DEF TakeCoupon
<1>2. /\ RequestsSane /\ "coupon" \in Place /\ next \in Place /\ "coupon" \notin Reading
  BY DEF StorefrontInv, Place, Ordering, Reading
<1>3. req[r] \in Busy /\ Sane(req[r]) /\ req[r].pc = "coupon"
  BY <1>1, <1>2, AtSane
<1>4. /\ req[r].kind \in {"buy", "order"} /\ req[r].copy \in Book!OrderRow
      /\ req[r].copy.contents = {} /\ req[r].copy.status = Book!Pending /\ req[r].got = {}
      /\ req[r].user = req[r].copy.user /\ req[r].user \in User
  BY <1>3 DEF Sane, Kinds, Copies, Ordering, Reading, BuyPath, EndPath, PayPath, Busy
<1>5. \E q : /\ req' = [req EXCEPT ![r] = q] /\ q \in Busy /\ q.pc = next
             /\ q.kind = req[r].kind /\ q.user = req[r].user /\ q.got = {}
             /\ q.copy \in Book!OrderRow /\ q.copy.contents = {}
             /\ q.copy.status = Book!Pending /\ q.copy.user = req[r].user
  <2>1. CASE Goto(r, next)
    BY <1>2, <1>3, <1>4, <2>1, GoesTo
  <2>2. ASSUME NEW c \in Coupon,
               req' = [req EXCEPT ![r].pc = next, ![r].copy.coupon = c,
                                  ![r].copy.amount = @ - Coupons!Discount(c, @)]
        PROVE  <1>5
    <3> DEFINE a == req[r].copy.amount - Coupons!Discount(c, req[r].copy.amount)
               copy == [req[r].copy EXCEPT !.coupon = c, !.amount = a]
               x == [req[r] EXCEPT !.pc = next]
               q == [x EXCEPT !.copy = copy]
    <3>1. req' = [req EXCEPT ![r] = q]
      <4>1. req = [y \in Request |-> req[y]]
        BY <1>2 DEF RequestsSane
      <4>2. /\ req[r] = [kind |-> req[r].kind, pc |-> req[r].pc, user |-> req[r].user,
                         order |-> req[r].order, copy |-> req[r].copy, moved |-> req[r].moved,
                         got |-> req[r].got, pay |-> req[r].pay, method |-> req[r].method,
                         number |-> req[r].number]
            /\ req[r].copy = [user |-> req[r].copy.user, commodity |-> req[r].copy.commodity,
                              num |-> req[r].copy.num, amount |-> req[r].copy.amount,
                              coupon |-> req[r].copy.coupon, status |-> req[r].copy.status,
                              contents |-> req[r].copy.contents]
        BY <1>3, <1>4 DEF Busy, Book!OrderRow
      <4> QED
        BY <2>2, <4>1, <4>2, ZenonT(30)
    <3>2. a \in Nat
      BY <1>4, DiscountBounded DEF Book!OrderRow
    <3> HIDE DEF a
    <3>3. /\ copy \in Book!OrderRow /\ copy.contents = {} /\ copy.status = Book!Pending
          /\ copy.user = req[r].user
      BY <1>4, <3>2 DEF Book!OrderRow
    <3> HIDE DEF copy
    <3>4. x \in Busy /\ x.pc = next /\ x.kind = req[r].kind /\ x.user = req[r].user /\ x.got = {}
      BY <1>2, <1>3, <1>4, GoneTo
    <3> HIDE DEF x
    <3>5. /\ q \in Busy /\ q.pc = next /\ q.kind = req[r].kind /\ q.user = req[r].user
          /\ q.got = {} /\ q.copy = copy
      BY <3>3, <3>4 DEF Busy
    <3> QED
      BY <3>1, <3>3, <3>5
  <2> QED
    BY <1>1, <2>1, <2>2
<1>6. PICK q : /\ req' = [req EXCEPT ![r] = q] /\ q \in Busy /\ q.pc = next
               /\ q.kind = req[r].kind /\ q.user = req[r].user /\ q.got = {}
               /\ q.copy \in Book!OrderRow /\ q.copy.contents = {}
               /\ q.copy.status = Book!Pending /\ q.copy.user = req[r].user
  BY <1>5
<1>7. Sane(q)
  BY <1>4, <1>6 DEF Sane, Kinds, Copies, Ordering, Reading, BuyPath, EndPath, PayPath
<1>8. \A g \in Int : ~AtHand(q, g)
  BY <1>6 DEF AtHand
<1> QED
  BY <1>1, <1>6, <1>7, <1>8, OnlyRequest

LEMMA CheckBalanceInv ==
  ASSUME StorefrontInv, NEW r \in Request, CheckBalance(r)
  PROVE  StorefrontInv'
<1>1. /\ At(r, "check") /\ (Answer(r) \/ Goto(r, "create"))
      /\ UNCHANGED <<vaultVars, accountVars, couponVars, bookVars, bought, wins>>
  BY DEF CheckBalance
<1>2. /\ RequestsSane /\ "check" \in Place /\ "create" \in Place /\ "check" \notin Reading
  BY DEF StorefrontInv, Place, Ordering, Reading
<1>3. req[r] \in Busy /\ Sane(req[r]) /\ req[r].pc = "check"
  BY <1>1, <1>2, AtSane
<1>4. CASE Answer(r)
  BY <1>1, <1>4, IdleHolds, OnlyRequest DEF Answer
<1>5. CASE Goto(r, "create")
  <2>1. PICK q \in Busy :
          /\ req' = [req EXCEPT ![r] = q] /\ q.pc = "create"
          /\ q.kind = req[r].kind /\ q.user = req[r].user /\ q.order = req[r].order
          /\ q.copy = req[r].copy /\ q.got = req[r].got
          /\ \A g \in Int : AtHand(q, g) => Holds(q.order, g)
    BY <1>2, <1>3, <1>5, GoesTo
  <2>2. Sane(q)
    BY <1>3, <2>1 DEF Sane, Kinds, Copies, Ordering, Reading, BuyPath, EndPath, PayPath
  <2> QED
    BY <1>1, <2>1, <2>2, OnlyRequest
<1> QED
  BY <1>1, <1>4, <1>5

LEMMA CreateOrderInv ==
  ASSUME StorefrontInv, NEW r \in Request, CreateOrder(r)
  PROVE  StorefrontInv'
<1> DEFINE o == Len(orders) + 1
           row == req[r].copy
           Placed(kind, pc) ==
             req[r].kind = kind /\ req' = [req EXCEPT ![r].pc = pc, ![r].order = o]
<1>1. /\ At(r, "create") /\ Book!CreateOrder(row)
      /\ Placed("buy", "charge") \/ Placed("order", "payrow") \/ Answer(r)
      /\ UNCHANGED <<vaultVars, accountVars, couponVars, bought, wins>>
  BY DEF CreateOrder
<1>2. /\ RequestsSane /\ BookSane /\ "create" \in Place
      /\ "create" \notin Reading
  BY DEF StorefrontInv, Place, Ordering, Reading
<1>3. req[r] \in Busy /\ Sane(req[r]) /\ req[r].pc = "create"
  BY <1>1, <1>2, AtSane
<1>4. /\ row \in Book!OrderRow /\ row.status = Book!Pending /\ row.contents = {}
      /\ req[r].got = {} /\ req[r].user \in User
      /\ req[r].kind \in {"buy", "order"} => req[r].user = row.user
  BY <1>3 DEF Sane, Kinds, Copies, Ordering, Reading, BuyPath, EndPath, PayPath, Busy
<1>5. /\ BookSane' /\ TablesKeep /\ UNCHANGED payments
      /\ o \in Order
      /\ Book!OrderIds' = Book!OrderIds \cup {o}
      /\ orders'[o] = row
      /\ \A p \in Book!OrderIds : orders'[p] = orders[p]
  BY <1>1, <1>2, <1>4, OrderCreated
<1>6. o \in Nat
  BY <1>2 DEF BookSane
<1> HIDE DEF o
<1>7. \E q : /\ req' = [req EXCEPT ![r] = q]
             /\ q = IdleReq \/ (q \in Busy /\ Sane(q)')
             /\ \A g \in Int : ~AtHand(q, g)
  <2>1. CASE Answer(r)
    BY <2>1, IdleHolds DEF Answer
  <2>2. ASSUME NEW kind \in {"buy", "order"}, NEW pc \in {"charge", "payrow"},
               kind = "buy" <=> pc = "charge", Placed(kind, pc)
        PROVE  <1>7
    <3> DEFINE x == [req[r] EXCEPT !.pc = pc]
    <3>0. PICK q : q = [x EXCEPT !.order = o]
      OBVIOUS
    <3>1. pc \in Place
      BY <2>2 DEF Place, BuyPath, PayPath
    <3>2. req' = [req EXCEPT ![r] = q]
      <4>1. req = [y \in Request |-> req[y]]
        BY <1>2 DEF RequestsSane
      <4>2. req[r] = [kind |-> req[r].kind, pc |-> req[r].pc, user |-> req[r].user,
                      order |-> req[r].order, copy |-> req[r].copy, moved |-> req[r].moved,
                      got |-> req[r].got, pay |-> req[r].pay, method |-> req[r].method,
                      number |-> req[r].number]
        BY <1>3 DEF Busy
      <4> QED
        BY <2>2, <3>0, <4>1, <4>2
    <3>3. /\ x \in Busy /\ x.pc = pc /\ x.kind = kind /\ x.user = req[r].user /\ x.got = {}
          /\ x.copy = row
      BY <1>3, <1>4, <2>2, <3>1, GoneTo
    <3> HIDE DEF x
    <3>4. /\ q \in Busy /\ q.pc = pc /\ q.kind = kind /\ q.user = req[r].user /\ q.got = {}
          /\ q.copy = row /\ q.order = o
      BY <1>6, <3>0, <3>3 DEF Busy
    <3> HIDE DEF row
    <3>5. Kinds(q)
      BY <1>4, <2>2, <3>4 DEF Kinds, BuyPath
    <3>6. Copies(q)'
      BY <1>4, <1>5, <2>2, <3>4
      DEF Copies, SameOrder, Ordering, Reading, BuyPath, EndPath, PayPath
    <3>7. \A g \in Int : ~AtHand(q, g)
      BY <1>4, <3>4 DEF AtHand
    <3> QED
      BY <3>2, <3>4, <3>5, <3>6, <3>7 DEF Sane, Kinds
  <2> HIDE DEF Placed
  <2>3. CASE Placed("buy", "charge")
    BY <2>2, <2>3
  <2>4. CASE Placed("order", "payrow")
    BY <2>2, <2>4
  <2> QED
    BY <1>1, <2>1, <2>3, <2>4
<1>8. PICK q : /\ req' = [req EXCEPT ![r] = q]
               /\ q = IdleReq \/ (q \in Busy /\ Sane(q)')
               /\ \A g \in Int : ~AtHand(q, g)
  BY <1>7
<1>9. \A p \in Book!OrderIds' : \A g \in orders'[p].contents : Holds(p, g)
  BY <1>4, <1>5 DEF Holds
<1>10. Acc!AccountsTypeOK' /\ CouponsSane' /\ WinsSane'
  BY <1>1, <1>5, SameTables
<1> QED
  BY <1>1, <1>5, <1>8, <1>9, <1>10, StepKeeps

-----------------------------------------------------------------------------
(* Steps that post an entry to a journal.                                  *)

\* AdjustBalance keeps the accounts' types.
LEMMA Adjusted ==
  ASSUME Acc!AccountsTypeOK, NEW u \in User, NEW a \in Int, NEW typ \in {"consume", "refund"},
         NEW o \in Nat, o \in Order \cup {NoOrder}, Acc!AdjustBalance(u, a, typ, o)
  PROVE  Acc!AccountsTypeOK'
<1>1. typ \in Acc!EntryType /\ NoUser \in User \cup {NoUser}
  BY DEF Acc!EntryType
<1>2. balance' \in [User -> Int] /\ journal' \in [User -> Seq(Acc!Entry)]
  BY <1>1, EntryPosted DEF Acc!AdjustBalance
<1> QED
  BY <1>2 DEF Acc!AdjustBalance, Acc!AccountsTypeOK

\* What posts an entry, for whom, and where the request goes next.
Posts(r, pc, next, a, typ, o) ==
  /\ At(r, pc) /\ Goto(r, next)
  /\ Acc!AdjustBalance(req[r].user, a, typ, o)
  /\ UNCHANGED <<vaultVars, couponVars, bookVars, bought, wins>>

LEMMA MoneySteps ==
  ASSUME StorefrontInv, NEW r \in Request, Charge(r) \/ LinkLog(r) \/ Refund(r) \/ PayCharge(r)
  PROVE  LET q == req[r] IN
         /\ \/ Posts(r, "charge", "deliver", -q.copy.amount, "consume", q.order)
            \/ Posts(r, "link", AfterLink(q), 0, "consume", q.order)
            \/ Posts(r, "refund", "saverefund", q.copy.amount, "refund", q.order)
            \/ Posts(r, "paycharge", "paylink", -q.copy.amount, "consume", NoOrder)
         /\ q \in Busy /\ Sane(q) /\ q.pc \in {"charge", "link", "refund", "paycharge"}
         /\ q.user \in User /\ q.copy \in Book!OrderRow /\ q.copy.amount \in Nat
         /\ q.order \in Nat /\ q.order \in Order /\ q.order \in Book!OrderIds
<1>1. \/ Posts(r, "charge", "deliver", -req[r].copy.amount, "consume", req[r].order)
      \/ Posts(r, "link", AfterLink(req[r]), 0, "consume", req[r].order)
      \/ Posts(r, "refund", "saverefund", req[r].copy.amount, "refund", req[r].order)
      \/ Posts(r, "paycharge", "paylink", -req[r].copy.amount, "consume", NoOrder)
  BY DEF Charge, LinkLog, Refund, PayCharge, Posts, AfterLink
<1>2. \E pc \in {"charge", "link", "refund", "paycharge"} : At(r, pc)
  BY <1>1 DEF Posts
<1>3. RequestsSane /\ \A pc \in {"charge", "link", "refund", "paycharge"} : pc \in Place
  BY DEF StorefrontInv, Place, BuyPath, PayPath
<1>4. req[r] \in Busy /\ Sane(req[r]) /\ req[r].pc \in {"charge", "link", "refund", "paycharge"}
  BY <1>2, <1>3, AtSane
<1>5. /\ req[r].user \in User /\ req[r].copy \in Book!OrderRow /\ req[r].order \in Book!OrderIds
  BY <1>4 DEF Sane, Kinds, Copies, Ordering, Reading, BuyPath, EndPath, PayPath, Busy
<1>6. req[r].copy.amount \in Nat
  BY <1>5 DEF Book!OrderRow
<1>7. req[r].order \in Nat /\ req[r].order \in Order
  BY <1>5, IdsAreNumbers DEF StorefrontInv
<1> QED
  BY <1>1, <1>4, <1>5, <1>6, <1>7

\* Charge, LinkLog, Refund and PayCharge.
LEMMA MoneyInv ==
  ASSUME StorefrontInv, NEW r \in Request, Charge(r) \/ LinkLog(r) \/ Refund(r) \/ PayCharge(r)
  PROVE  StorefrontInv'
<1>1. /\ \/ Posts(r, "charge", "deliver", -req[r].copy.amount, "consume", req[r].order)
         \/ Posts(r, "link", AfterLink(req[r]), 0, "consume", req[r].order)
         \/ Posts(r, "refund", "saverefund", req[r].copy.amount, "refund", req[r].order)
         \/ Posts(r, "paycharge", "paylink", -req[r].copy.amount, "consume", NoOrder)
      /\ req[r] \in Busy /\ Sane(req[r]) /\ req[r].pc \in {"charge", "link", "refund", "paycharge"}
      /\ req[r].user \in User /\ req[r].copy \in Book!OrderRow /\ req[r].copy.amount \in Nat
      /\ req[r].order \in Nat /\ req[r].order \in Order /\ req[r].order \in Book!OrderIds
  BY MoneySteps
<1>2. \E next \in Place : \E a \in Int, typ \in {"consume", "refund"}, o \in Nat :
        /\ o \in Order \cup {NoOrder}
        /\ Posts(r, req[r].pc, next, a, typ, o)
        /\ \/ req[r].pc = "charge" /\ next = "deliver"
           \/ req[r].pc = "link" /\ next = AfterLink(req[r])
           \/ req[r].pc = "refund" /\ next = "saverefund"
           \/ req[r].pc = "paycharge" /\ next = "paylink"
  <2>1. /\ "deliver" \in Place /\ "saverefund" \in Place /\ "paylink" \in Place
        /\ AfterLink(req[r]) \in Place
    BY DEF AfterLink, Place, BuyPath, PayPath, EndPath
  <2>2. -req[r].copy.amount \in Int /\ req[r].copy.amount \in Int /\ NoOrder \in Nat /\ 0 \in Int
    BY <1>1 DEF NoOrder
  <2>3. CASE Posts(r, "charge", "deliver", -req[r].copy.amount, "consume", req[r].order)
    <3>1. req[r].pc = "charge"
      BY <2>3 DEF Posts, At
    <3> QED
      BY <1>1, <2>1, <2>2, <2>3, <3>1
  <2>4. CASE Posts(r, "link", AfterLink(req[r]), 0, "consume", req[r].order)
    <3>1. req[r].pc = "link"
      BY <2>4 DEF Posts, At
    <3> QED
      BY <1>1, <2>1, <2>2, <2>4, <3>1
  <2>5. CASE Posts(r, "refund", "saverefund", req[r].copy.amount, "refund", req[r].order)
    <3>1. req[r].pc = "refund"
      BY <2>5 DEF Posts, At
    <3> QED
      BY <1>1, <2>1, <2>2, <2>5, <3>1
  <2>6. CASE Posts(r, "paycharge", "paylink", -req[r].copy.amount, "consume", NoOrder)
    <3>1. req[r].pc = "paycharge"
      BY <2>6 DEF Posts, At
    <3> QED
      BY <1>1, <2>1, <2>2, <2>6, <3>1
  <2> QED
    BY <1>1, <2>3, <2>4, <2>5, <2>6
<1>3. PICK next \in Place :
        /\ \E a \in Int, typ \in {"consume", "refund"}, o \in Nat :
             o \in Order \cup {NoOrder} /\ Posts(r, req[r].pc, next, a, typ, o)
        /\ \/ req[r].pc = "charge" /\ next = "deliver"
           \/ req[r].pc = "link" /\ next = AfterLink(req[r])
           \/ req[r].pc = "refund" /\ next = "saverefund"
           \/ req[r].pc = "paycharge" /\ next = "paylink"
  BY <1>2
<1>4. PICK a \in Int, typ \in {"consume", "refund"}, o \in Nat :
        o \in Order \cup {NoOrder} /\ Posts(r, req[r].pc, next, a, typ, o)
  BY <1>3
<1>5. Acc!AccountsTypeOK'
  BY <1>1, <1>4, Adjusted DEF Posts, StorefrontInv
<1>6. RequestsSane /\ req[r].pc \notin Reading
  BY <1>1 DEF StorefrontInv, Reading
<1>7. PICK q \in Busy :
        /\ req' = [req EXCEPT ![r] = q] /\ q.pc = next
        /\ q.kind = req[r].kind /\ q.user = req[r].user /\ q.order = req[r].order
        /\ q.copy = req[r].copy /\ q.got = req[r].got
        /\ \A g \in Int : AtHand(q, g) => Holds(q.order, g)
  BY <1>1, <1>4, <1>6, GoesTo DEF Posts
<1>8. q.copy.coupon \in Coupon \cup {Book!NoCoupon}
  BY <1>1, <1>7 DEF Book!OrderRow
<1>9. Sane(q)
  BY <1>1, <1>3, <1>7, <1>8
  DEF Sane, Kinds, Copies, Ordering, Reading, BuyPath, EndPath, PayPath, AfterLink
<1>10. UNCHANGED <<vaultVars, couponVars, bookVars, bought, wins>>
  BY <1>4 DEF Posts
<1>11. UNCHANGED bookVars /\ UNCHANGED orders /\ UNCHANGED payments
  BY <1>10 DEF bookVars
<1>12. TablesKeep /\ BookSane' /\ CouponsSane' /\ WinsSane'
  BY <1>10, <1>11, SameTables
<1>13. \A p \in Book!OrderIds' : \A g \in orders'[p].contents : Holds(p, g)
  BY <1>11, SameTables
<1>14. Sane(q)'
  BY <1>9, <1>12, SaneKept
<1> QED
  BY <1>5, <1>7, <1>10, <1>12, <1>13, <1>14, StepKeeps

-----------------------------------------------------------------------------
(* Payments.                                                               *)

\* PayRow and NewPayment.
LEMMA PaymentInv ==
  ASSUME StorefrontInv, NEW r \in Request, PayRow(r) \/ NewPayment(r)
  PROVE  StorefrontInv'
<1>1. /\ At(r, "payrow") \/ At(r, "newpay")
      /\ UNCHANGED <<vaultVars, accountVars, couponVars, bought, wins>>
  BY DEF PayRow, NewPayment
<1>2. /\ RequestsSane /\ BookSane /\ "payrow" \in Place /\ "newpay" \in Place
      /\ "paylink" \in Place /\ "paycharge" \in Place
  BY DEF StorefrontInv, Place, PayPath
<1>3. req[r] \in Busy /\ Sane(req[r]) /\ req[r].pc \in {"payrow", "newpay"}
  BY <1>1, <1>2, AtSane
<1>4. /\ req[r].copy \in Book!OrderRow /\ req[r].copy.amount \in Nat
      /\ req[r].order \in Book!OrderIds /\ req[r].pc \notin Reading
  BY <1>3 DEF Sane, Kinds, Copies, Ordering, Reading, BuyPath, EndPath, PayPath, Busy, Book!OrderRow
<1>5. PICK m \in Book!Method :
        /\ Book!CreatePayment(req[r].order, req[r].copy.amount, m)
        /\ \/ Answer(r) \/ Goto(r, "paylink")
           \/ (req[r].pc = "newpay" /\ Goto(r, "paycharge"))
  <2>1. CASE PayRow(r)
    BY <2>1 DEF PayRow, Book!Method
  <2>2. CASE NewPayment(r)
    BY <1>3, <2>2 DEF NewPayment, At, Sane, Kinds
  <2> QED
    BY <2>1, <2>2
<1>6. BookSane' /\ TablesKeep /\ UNCHANGED orders /\ \A p \in Book!PaymentIds : payments'[p] = payments[p]
  BY <1>2, <1>4, <1>5, PaymentCreated
<1>7. PICK q : /\ req' = [req EXCEPT ![r] = q]
               /\ q = IdleReq \/ (q \in Busy /\ Sane(q))
               /\ \A g \in Int : AtHand(q, g) => Holds(q.order, g)
  <2>1. CASE Answer(r)
    BY <2>1, IdleHolds DEF Answer
  <2>2. ASSUME NEW next \in {"paylink", "paycharge"}, Goto(r, next),
               next = "paycharge" => req[r].pc = "newpay"
        PROVE  \E q : /\ req' = [req EXCEPT ![r] = q]
                      /\ q \in Busy /\ Sane(q)
                      /\ \A g \in Int : AtHand(q, g) => Holds(q.order, g)
    <3>1. next \in Place
      BY <1>2
    <3>2. PICK q \in Busy :
        /\ req' = [req EXCEPT ![r] = q] /\ q.pc = next
        /\ q.kind = req[r].kind /\ q.user = req[r].user /\ q.order = req[r].order
        /\ q.copy = req[r].copy /\ q.got = req[r].got
        /\ \A g \in Int : AtHand(q, g) => Holds(q.order, g)
      BY <1>2, <1>3, <1>4, <2>2, <3>1, GoesTo
    <3>3. Sane(q)
      BY <1>3, <2>2, <3>2 DEF Sane, Kinds, Copies, Ordering, Reading, BuyPath, EndPath, PayPath
    <3> QED
      BY <3>2, <3>3
  <2> QED
    BY <1>5, <2>1, <2>2
<1>8. \A p \in Book!OrderIds' : \A g \in orders'[p].contents : Holds(p, g)
  BY <1>6, SameTables
<1>9. Acc!AccountsTypeOK' /\ CouponsSane'
  BY <1>1, <1>6, SameTables
<1>10. WinsSane'
  BY <1>1, <1>6 DEF StorefrontInv, WinsSane, TablesKeep
<1>11. q \in Busy /\ Sane(q) => Sane(q)'
  BY <1>6, SaneKept
<1> QED
  BY <1>1, <1>6, <1>7, <1>8, <1>9, <1>10, <1>11, StepKeeps

\* CheckMark and CallbackMark.
LEMMA MarkInv ==
  ASSUME StorefrontInv, NEW r \in Request, CheckMark(r) \/ CallbackMark(r)
  PROVE  StorefrontInv'
<1> DEFINE p == req[r].pay
<1>1. /\ At(r, "mark") \/ At(r, "callback")
      /\ Answer(r) \/ Goto(r, "finish")
      /\ UNCHANGED <<vaultVars, accountVars, couponVars, bought>>
      /\ \/ Book!MarkPaymentPaid(p, Book!NoNumber) /\ UNCHANGED wins
         \/ /\ Book!MarkPaymentPaid(p, req[r].number)
            /\ wins' = (IF Book!CanMark(p) THEN [wins EXCEPT ![p] = @ + 1] ELSE wins)
  BY DEF CheckMark, CallbackMark
<1>2. /\ RequestsSane /\ BookSane /\ "mark" \in Place /\ "callback" \in Place
      /\ "finish" \in Place /\ "finish" \in Reading
  BY DEF StorefrontInv, Place, Reading
<1>3. req[r] \in Busy /\ Sane(req[r]) /\ req[r].pc \in {"mark", "callback"}
  BY <1>1, <1>2, AtSane
<1>4. /\ p \in Book!PaymentIds /\ p \in 1 .. MaxPayments /\ req[r].order \in Book!OrderIds
      /\ req[r].number \in 0 .. MaxPayments /\ Book!NoNumber \in 0 .. MaxPayments
  <2>1. p \in Book!PaymentIds /\ req[r].order \in Book!OrderIds /\ req[r].number \in 0 .. MaxPayments
    BY <1>3 DEF Sane, Copies, Reading, Busy
  <2> QED
    BY <1>2, <2>1, IdsAreNumbers, StorefrontAssumption DEF Book!NoNumber
<1>5. /\ BookSane' /\ TablesKeep /\ UNCHANGED orders
      /\ Book!PaymentIds' = Book!PaymentIds /\ payments'[p].paid
      /\ \A i \in Book!PaymentIds : payments[i].paid => payments'[i].paid
  <2> HIDE DEF p
  <2> QED
    BY <1>1, <1>2, <1>4, PaymentMarked
<1>6. PICK q : /\ req' = [req EXCEPT ![r] = q]
               /\ q = IdleReq \/ (q \in Busy /\ Sane(q))
               /\ \A g \in Int : AtHand(q, g) => Holds(q.order, g)
  <2>1. CASE Answer(r)
    BY <2>1, IdleHolds DEF Answer
  <2>2. CASE Goto(r, "finish")
    <3>1. PICK q \in Busy :
        /\ req' = [req EXCEPT ![r] = q] /\ q.pc = "finish"
        /\ q.kind = req[r].kind /\ q.user = req[r].user /\ q.order = req[r].order
        /\ q.copy = req[r].copy /\ q.got = req[r].got
        /\ \A g \in Int : AtHand(q, g) => Holds(q.order, g)
      BY <1>2, <1>3, <2>2, GoesTo
    <3>2. Sane(q)
      BY <1>3, <3>1 DEF Sane, Kinds, Copies, Ordering, Reading, BuyPath, EndPath, PayPath
    <3> QED
      BY <3>1, <3>2
  <2> QED
    BY <1>1, <2>1, <2>2
<1>7. WinsSane'
  <2> HIDE DEF p
  <2>1. wins \in [1 .. MaxPayments -> {0, 1}]
    BY DEF StorefrontInv, WinsSane
  <2>2. CASE UNCHANGED wins
    BY <1>5, <2>2 DEF StorefrontInv, WinsSane
  <2>3. CASE Book!CanMark(p) /\ wins' = [wins EXCEPT ![p] = @ + 1]
    <3>1. wins[p] = 0
      BY <1>4, <2>1, <2>3 DEF StorefrontInv, WinsSane, Book!CanMark
    <3>2. wins' = [wins EXCEPT ![p] = 1]
      BY <2>1, <2>3, <3>1
    <3> QED
      BY <1>4, <1>5, <2>1, <3>2 DEF StorefrontInv, WinsSane
  <2> QED
    BY <1>1, <2>2, <2>3
<1>8. \A o \in Book!OrderIds' : \A g \in orders'[o].contents : Holds(o, g)
  BY <1>5, SameTables
<1>9. Acc!AccountsTypeOK' /\ CouponsSane'
  BY <1>1, <1>5, SameTables
<1>10. q \in Busy /\ Sane(q) => Sane(q)'
  BY <1>5, SaneKept
<1>11. UNCHANGED <<vaultVars, bought>>
  BY <1>1
<1> QED
  BY <1>5, <1>6, <1>7, <1>8, <1>9, <1>10, <1>11, StepKeeps

-----------------------------------------------------------------------------
(* Delivering.                                                             *)

\* Enough goods: of the shop's own cards a checkout gets all it asked for.
Enough(x, goods) ==
  x.kind = "buy" /\ Source[x.copy.commodity] = "self"
    => Cardinality(CardsIn(goods)) = x.copy.num

\* The request at x became q, with these goods in a delivered copy.
Delivers(x, q, goods, moved) ==
  /\ Sane(q)
  /\ q.kind = x.kind /\ q.user = x.user /\ q.order = x.order
  /\ q.pc = (IF q.kind = "buy" THEN "save"
             ELSE IF q.copy.coupon # Book!NoCoupon THEN "use" ELSE "commission")
  /\ q.copy \in Book!OrderRow /\ q.copy.contents = goods /\ q.copy.status = Book!Delivered
  /\ SameOrder(q.copy, x.copy)
  /\ q.got = {} /\ q.moved = moved /\ q.pc \notin Reading

\* The request gets them.
Obtains(r, goods, moved) ==
  \E q \in Busy : req' = [req EXCEPT ![r] = q] /\ Delivers(req[r], q, goods, moved)

\* Got: the request holds the goods and no more, in a delivered copy.
LEMMA GotGoods ==
  ASSUME RequestsSane, NEW r \in Request, req[r] \in Busy, Sane(req[r]),
         req[r].pc \in {"deliver", "savepaid"},
         NEW goods \in SUBSET Int, NEW moved \in BOOLEAN, Got(r, goods, moved),
         Enough(req[r], goods)
  PROVE  Obtains(r, goods, moved)
<1> DEFINE x == req[r]
           copy == [x.copy EXCEPT !.status = Book!Delivered, !.contents = goods]
           next == AfterDelivery(x.kind, copy)
<1>1. PICK q : q = [x EXCEPT !.pc = next, !.copy = copy, !.moved = moved, !.got = {}]
  OBVIOUS
<1>2. x.copy \in Book!OrderRow /\ x.order \in Book!OrderIds /\ SameOrder(x.copy, orders[x.order])
  BY DEF Sane, Copies, Ordering, Reading
<1>3. /\ copy \in Book!OrderRow /\ copy.contents = goods /\ copy.status = Book!Delivered
      /\ SameOrder(copy, x.copy)
  BY <1>2 DEF Book!OrderRow, Book!Status, Goods, SameOrder
<1>4. req' = [req EXCEPT ![r].pc = next, ![r].copy = copy, ![r].moved = moved, ![r].got = {}]
  BY DEF Got
<1>5. /\ next = (IF x.kind = "buy" THEN "save"
                 ELSE IF copy.coupon # Book!NoCoupon THEN "use" ELSE "commission")
      /\ next \in Place /\ next \notin Reading \cup Ordering
  BY DEF AfterDelivery, Place, BuyPath, EndPath, Reading, Ordering
<1> HIDE DEF copy, next
<1>6. req' = [req EXCEPT ![r] = q]
  <2>1. req = [y \in Request |-> req[y]]
    BY DEF RequestsSane
  <2>2. x = [kind |-> x.kind, pc |-> x.pc, user |-> x.user, order |-> x.order, copy |-> x.copy,
             moved |-> x.moved, got |-> x.got, pay |-> x.pay, method |-> x.method,
             number |-> x.number]
    BY DEF Busy
  <2> QED
    BY <1>1, <1>4, <2>1, <2>2
<1>7. /\ q = [kind |-> x.kind, pc |-> next, user |-> x.user, order |-> x.order, copy |-> copy,
              moved |-> moved, got |-> {}, pay |-> x.pay, method |-> x.method,
              number |-> x.number]
  BY <1>1 DEF Busy
<1>8. q \in Busy
  BY <1>3, <1>5, <1>7 DEF Busy
<1>9. /\ q.kind = x.kind /\ q.user = x.user /\ q.order = x.order /\ q.pc = next
      /\ q.copy = copy /\ q.got = {} /\ q.moved = moved
  BY <1>7
<1>10. copy.coupon \in Coupon \cup {Book!NoCoupon}
  BY <1>3 DEF Book!OrderRow
<1>11. q.pc = "save" => RowFits(copy)
  BY <1>3, <1>5, <1>9 DEF Enough, RowFits, SameOrder, Book!Delivered, Book!Refunded
<1>12. SameOrder(copy, orders[x.order])
  BY <1>2, <1>3 DEF SameOrder
<1>13. Kinds(q)
  BY <1>3, <1>5, <1>9 DEF Sane, Kinds, BuyPath, EndPath, SameOrder
<1>14. Copies(q)
  BY <1>2, <1>3, <1>5, <1>9, <1>10, <1>11, <1>12
  DEF Copies, Ordering, Reading, BuyPath, EndPath, PayPath
<1>15. Delivers(x, q, goods, moved)
  BY <1>3, <1>5, <1>9, <1>13, <1>14 DEF Sane, Delivers
<1> QED
  BY <1>6, <1>8, <1>15 DEF Obtains

\* Fail: the request refunds or ends, and holds nothing.
LEMMA Failed ==
  ASSUME RequestsSane, NEW r \in Request, req[r] \in Busy, Sane(req[r]),
         req[r].pc = "deliver", Fail(r)
  PROVE  \E q : /\ req' = [req EXCEPT ![r] = q]
                /\ \/ q = IdleReq /\ req[r].kind # "buy"
                   \/ /\ q \in Busy /\ Sane(q) /\ q.pc = "refund" /\ q.kind = "buy"
                      /\ req[r].kind = "buy"
                      /\ q.user = req[r].user /\ q.order = req[r].order /\ q.copy = req[r].copy
                      /\ q.moved = req[r].moved
                /\ \A g \in Int : ~AtHand(q, g)
<1>1. CASE req[r].kind = "buy"
  <2> DEFINE x == [req[r] EXCEPT !.pc = "refund"]
  <2>1. PICK q : q = [req[r] EXCEPT !.pc = "refund", !.got = {}]
    OBVIOUS
  <2>2. req' = [req EXCEPT ![r] = q]
    BY <1>1, <2>1 DEF Fail, RequestsSane
  <2>3. q = [x EXCEPT !.got = {}]
    BY <2>1 DEF Busy
  <2>4. x \in Busy
    BY GoneTo DEF Place, BuyPath
  <2>5. /\ x.pc = "refund" /\ x.kind = "buy" /\ x.user = req[r].user /\ x.order = req[r].order
        /\ x.copy = req[r].copy /\ x.moved = req[r].moved
    BY <1>1 DEF Busy
  <2> HIDE DEF x
  <2>6. /\ q \in Busy /\ q.pc = "refund" /\ q.kind = "buy" /\ q.user = req[r].user
        /\ q.order = req[r].order /\ q.copy = req[r].copy /\ q.got = {}
        /\ q.moved = req[r].moved
    BY <2>3, <2>4, <2>5 DEF Busy
  <2>7. req[r].copy.contents = {}
    BY <1>1 DEF Sane, Copies
  <2>8. Sane(q)
    BY <1>1, <2>6, <2>7 DEF Sane, Kinds, Copies, Ordering, Reading, BuyPath, EndPath, PayPath
  <2>9. \A g \in Int : ~AtHand(q, g)
    BY <2>6, <2>7 DEF AtHand
  <2> QED
    BY <1>1, <2>2, <2>6, <2>8, <2>9
<1>2. CASE req[r].kind # "buy"
  <2>1. req' = [req EXCEPT ![r] = IdleReq]
    BY <1>2 DEF Fail, RequestsSane
  <2> QED
    BY <1>2, <2>1, IdleHolds
<1> QED
  BY <1>1, <1>2

\* Where a request delivers from.
LEMMA Delivering ==
  ASSUME StorefrontInv, NEW r \in Request, At(r, "deliver")
  PROVE  /\ RequestsSane /\ req[r] \in Busy /\ Sane(req[r]) /\ req[r].pc = "deliver"
         /\ req[r].copy \in Book!OrderRow /\ req[r].order \in Book!OrderIds /\ req[r].order \in Order
         /\ req[r].got \in SUBSET (Nat \ {0})
         /\ req[r].copy.commodity \in Commodity
         /\ \A g \in Int : AtHand(req[r], g) => Holds(req[r].order, g)
<1>1. RequestsSane /\ "deliver" \in Place
  BY DEF StorefrontInv, Place, BuyPath
<1>2. /\ req[r] \in Busy /\ Sane(req[r]) /\ req[r].pc = "deliver"
      /\ \A g \in Int : AtHand(req[r], g) => Holds(req[r].order, g)
  BY <1>1, AtSane
<1>3. req[r].copy \in Book!OrderRow /\ req[r].order \in Book!OrderIds
  BY <1>2 DEF Sane, Copies, Ordering, Reading
<1>4. req[r].order \in Order
  BY <1>3, IdsAreNumbers DEF StorefrontInv
<1>5. req[r].got \in SUBSET (Nat \ {0})
  BY <1>2 DEF Busy
<1>6. req[r].copy.commodity \in Commodity
  BY <1>3 DEF Book!OrderRow
<1> QED
  BY <1>1, <1>2, <1>3, <1>4, <1>5, <1>6

LEMMA TradeInv ==
  ASSUME StorefrontInv, NEW r \in Request, Trade(r)
  PROVE  StorefrontInv'
<1>1. /\ At(r, "deliver") /\ Source[req[r].copy.commodity] = "upstream"
      /\ UNCHANGED <<vaultVars, accountVars, couponVars, bookVars, wins>>
      /\ \/ /\ \E moved \in BOOLEAN : Got(r, {-(bought + 1)}, moved)
            /\ bought' = bought + 1
         \/ Got(r, {}, FALSE) /\ UNCHANGED bought
         \/ Fail(r) /\ UNCHANGED bought
  BY DEF Trade
<1>2. /\ RequestsSane /\ req[r] \in Busy /\ Sane(req[r]) /\ req[r].pc = "deliver"
      /\ req[r].order \in Order
  BY <1>1, Delivering
<1>3. bought \in Nat /\ GoodsSane
  BY DEF StorefrontInv, GoodsSane
<1>4. CASE Fail(r) /\ UNCHANGED bought
  <2>1. PICK q : /\ req' = [req EXCEPT ![r] = q]
                 /\ q = IdleReq \/ (q \in Busy /\ Sane(q))
                 /\ \A g \in Int : ~AtHand(q, g)
    BY <1>2, <1>4, Failed
  <2> QED
    BY <1>1, <1>4, <2>1, OnlyRequest
<1>5. CASE Got(r, {}, FALSE) /\ UNCHANGED bought
  <2>0. PICK goods \in SUBSET Int : goods = {}
    OBVIOUS
  <2>1. PICK q \in Busy : /\ req' = [req EXCEPT ![r] = q] /\ Sane(q)
                          /\ q.copy.contents = {} /\ q.got = {}
    <3>0. PICK moved \in BOOLEAN : moved = FALSE
      OBVIOUS
    <3>1. Got(r, goods, moved) /\ Enough(req[r], goods) /\ req[r].pc \in {"deliver", "savepaid"}
      BY <1>1, <1>2, <1>5, <2>0, <3>0 DEF Enough
    <3>10. Obtains(r, goods, moved)
      BY <1>2, <3>1, GotGoods
    <3>2. PICK q \in Busy : req' = [req EXCEPT ![r] = q] /\ Delivers(req[r], q, goods, moved)
      BY <3>10 DEF Obtains
    <3> QED
      BY <2>0, <3>2 DEF Delivers
  <2>2. \A g \in Int : ~AtHand(q, g)
    BY <2>1 DEF AtHand
  <2> QED
    BY <1>1, <1>5, <2>1, <2>2, OnlyRequest
<1>6. ASSUME NEW moved \in BOOLEAN, Got(r, {-(bought + 1)}, moved), bought' = bought + 1
      PROVE  StorefrontInv'
  <2>0. PICK k \in Int : k = -(bought + 1)
    BY <1>3
  <2>1. {k} \in SUBSET Int /\ Got(r, {k}, moved) /\ Source[req[r].copy.commodity] # "self"
    BY <1>1, <1>6, <2>0
  <2>2. PICK q \in Busy : /\ req' = [req EXCEPT ![r] = q] /\ Sane(q)
                          /\ q.copy.contents = {k} /\ q.got = {} /\ q.order = req[r].order
    <3>1. PICK goods \in SUBSET Int : goods = {k}
      BY <2>1
    <3>2. Got(r, goods, moved) /\ Enough(req[r], goods) /\ req[r].pc \in {"deliver", "savepaid"}
      BY <1>2, <2>1, <3>1 DEF Enough
    <3>10. Obtains(r, goods, moved)
      BY <1>2, <3>2, GotGoods
    <3>3. PICK q \in Busy : req' = [req EXCEPT ![r] = q] /\ Delivers(req[r], q, goods, moved)
      BY <3>10 DEF Obtains
    <3> QED
      BY <3>1, <3>3 DEF Delivers
  <2>3. UNCHANGED bookVars /\ UNCHANGED orders /\ UNCHANGED payments
    BY <1>1 DEF bookVars
  <2>4. TablesKeep /\ BookSane' /\ CouponsSane' /\ WinsSane' /\ Acc!AccountsTypeOK'
    BY <1>1, <2>3, SameTables
  <2>5. \A p \in Book!OrderIds' : \A g \in orders'[p].contents : Holds(p, g)
    BY <2>3, SameTables
  <2>6. Sane(q)'
    BY <2>2, <2>4, SaneKept
  <2>7. RequestsSane'
    BY <1>2, <2>2, <2>4, <2>6, OneMoves
  <2>8. VaultSane'
    BY <1>1 DEF StorefrontInv, VaultSane, vaultVars, Vault!VaultTypeOK, UniqueIds
  <2>9. \A p : Vault!SoldTo(p) \subseteq Vault!SoldTo(p)'
    BY <1>1 DEF Vault!SoldTo, vaultVars
  <2>10. k < 0 /\ -k = bought' /\ bought' \in Nat /\ bought <= bought' /\ ~(-k <= bought)
    BY <1>3, <1>6, <2>0
  <2>11. \A p \in Order : ~Holds(p, k)
    BY <2>10 DEF StorefrontInv, GoodsSane
  <2>12. PICK o \in Order : o = req[r].order
    BY <1>2
  <2>13. \A g \in {k} : /\ \A p \in Order : ~Holds(p, g)
                        /\ \/ g > 0 /\ \E s \in Vault!SoldTo(o)' : s.id = g
                           \/ g < 0 /\ -g <= bought'
    BY <2>10, <2>11
  <2>14. \A g \in Int : AtHand(q, g) => Holds(q.order, g) \/ (g \in {k} /\ q.order = o)
    BY <2>2, <2>12 DEF AtHand
  <2>15. GoodsSane'
    BY <1>2, <1>3, <2>1, <2>2, <2>5, <2>9, <2>10, <2>13, <2>14, GoodsPassed
  <2> QED
    BY <2>4, <2>7, <2>8, <2>15 DEF StorefrontInv
<1> QED
  BY <1>1, <1>4, <1>5, <1>6

LEMMA PullInv ==
  ASSUME StorefrontInv, NEW r \in Request, Pull(r)
  PROVE  StorefrontInv'
<1>1. PICK c \in {req[r].copy.commodity}, o \in {req[r].order} :
        \/ /\ Vault!PullSecret(c, o)
           /\ LET got == req[r].got \cup {s.id : s \in secrets' \ secrets}
              IN IF Cardinality(got) = req[r].copy.num THEN Got(r, got, FALSE)
                 ELSE req' = [req EXCEPT ![r].got = got]
        \/ Fail(r) /\ UNCHANGED vaultVars
  BY DEF Pull
<1>2. At(r, "deliver") /\ UNCHANGED <<accountVars, couponVars, bookVars, bought, wins>>
  BY DEF Pull
<1>3. /\ RequestsSane /\ req[r] \in Busy /\ Sane(req[r]) /\ req[r].pc = "deliver"
      /\ req[r].copy \in Book!OrderRow /\ o = req[r].order /\ o \in Order
      /\ req[r].got \in SUBSET (Nat \ {0})
      /\ c = req[r].copy.commodity /\ c \in Commodity
      /\ \A g \in Int : AtHand(req[r], g) => Holds(o, g)
  BY <1>2, Delivering
<1>4. CASE Fail(r) /\ UNCHANGED vaultVars
  <2>1. PICK q : /\ req' = [req EXCEPT ![r] = q]
                 /\ q = IdleReq \/ (q \in Busy /\ Sane(q))
                 /\ \A g \in Int : ~AtHand(q, g)
    BY <1>3, <1>4, Failed
  <2> QED
    BY <1>2, <1>4, <2>1, OnlyRequest
<1>5. ASSUME Vault!PullSecret(c, o),
             LET got == req[r].got \cup {s.id : s \in secrets' \ secrets}
             IN IF Cardinality(got) = req[r].copy.num THEN Got(r, got, FALSE)
                ELSE req' = [req EXCEPT ![r].got = got]
      PROVE  StorefrontInv'
  <2>1. /\ VaultSane'
        /\ \A p : Vault!SoldTo(p) \subseteq Vault!SoldTo(p)'
        /\ \E g \in Nat \ {0} :
             /\ NewIds = {g}
             /\ \E s \in Vault!SoldTo(o)' : s.id = g
             /\ \A p : \A s \in Vault!SoldTo(p) : s.id # g
    BY <1>3, <1>5, SecretPulled DEF StorefrontInv
  <2>2. PICK g \in Nat \ {0} :
          /\ NewIds = {g}
          /\ \E s \in Vault!SoldTo(o)' : s.id = g
          /\ \A p : \A s \in Vault!SoldTo(p) : s.id # g
    BY <2>1
  <2>3. PICK got \in SUBSET (Nat \ {0}) : got = req[r].got \cup {g}
    BY <1>3
  <2>4. IF Cardinality(got) = req[r].copy.num THEN Got(r, got, FALSE)
        ELSE req' = [req EXCEPT ![r].got = got]
    BY <1>5, <2>2, <2>3 DEF NewIds
  <2>5. \E q \in Busy :
          /\ req' = [req EXCEPT ![r] = q] /\ Sane(q) /\ q.order = o
          /\ \A h \in Int : AtHand(q, h) => AtHand(req[r], h) \/ h = g
    <3>1. CASE Cardinality(got) = req[r].copy.num
      <4>1. CardsIn(got) = got
        <5>1. \A i \in got : i > 0
          OBVIOUS
        <5> QED
          BY <5>1 DEF CardsIn
      <4>2. PICK goods \in SUBSET Int : goods = got
        OBVIOUS
      <4>3. PICK moved \in BOOLEAN : moved = FALSE
        OBVIOUS
      <4>4. Got(r, goods, moved) /\ Enough(req[r], goods)
        BY <2>4, <3>1, <4>1, <4>2, <4>3 DEF Enough
      <4>10. Obtains(r, goods, moved)
        BY <1>3, <4>4, GotGoods
      <4>5. PICK q \in Busy : req' = [req EXCEPT ![r] = q] /\ Delivers(req[r], q, goods, moved)
        BY <4>10 DEF Obtains
      <4>6. \A h \in Int : AtHand(q, h) => AtHand(req[r], h) \/ h = g
        BY <1>3, <2>3, <4>2, <4>5 DEF AtHand, Delivers
      <4> QED
        BY <1>3, <4>5, <4>6 DEF Delivers
    <3>2. CASE Cardinality(got) # req[r].copy.num
      <4>1. PICK q : q = [req[r] EXCEPT !.got = got]
        OBVIOUS
      <4>2. req' = [req EXCEPT ![r] = q]
        BY <2>4, <3>2, <4>1
      <4>3. /\ q \in Busy /\ q.got = got /\ q.kind = req[r].kind /\ q.user = req[r].user
            /\ q.order = req[r].order /\ q.copy = req[r].copy /\ q.pc = req[r].pc
        BY <1>3, <4>1 DEF Busy
      <4>4. Sane(q)
        BY <1>3, <4>3 DEF Sane, Kinds, Copies, Ordering, Reading, BuyPath, EndPath, PayPath
      <4>5. \A h \in Int : AtHand(q, h) => AtHand(req[r], h) \/ h = g
        BY <1>3, <2>3, <4>3 DEF AtHand
      <4> QED
        BY <1>3, <4>2, <4>3, <4>4, <4>5
    <3> QED
      BY <3>1, <3>2
  <2>6. PICK q \in Busy :
          /\ req' = [req EXCEPT ![r] = q] /\ Sane(q) /\ q.order = o
          /\ \A h \in Int : AtHand(q, h) => AtHand(req[r], h) \/ h = g
    BY <2>5
  <2>7. UNCHANGED bookVars /\ UNCHANGED orders /\ UNCHANGED payments
    BY <1>2 DEF bookVars
  <2>8. TablesKeep /\ BookSane' /\ CouponsSane' /\ WinsSane' /\ Acc!AccountsTypeOK'
    BY <1>2, <2>7, SameTables
  <2>9. \A p \in Book!OrderIds' : \A h \in orders'[p].contents : Holds(p, h)
    BY <2>7, SameTables
  <2>10. Sane(q)'
    BY <2>6, <2>8, SaneKept
  <2>11. RequestsSane'
    BY <1>3, <2>6, <2>8, <2>10, OneMoves
  <2>12. GoodsSane /\ bought' \in Nat /\ bought <= bought'
    BY <1>2 DEF StorefrontInv, GoodsSane
  <2>13. \A p \in Order : ~Holds(p, g)
    <3>1. g > 0
      OBVIOUS
    <3> QED
      BY <2>2, <2>12, <3>1 DEF GoodsSane
  <2>14. \A h \in {g} : /\ \A p \in Order : ~Holds(p, h)
                        /\ \/ h > 0 /\ \E s \in Vault!SoldTo(o)' : s.id = h
                           \/ h < 0 /\ -h <= bought'
    BY <2>2, <2>13
  <2>15. \A h \in Int : AtHand(q, h) => Holds(q.order, h) \/ (h \in {g} /\ q.order = o)
    BY <1>3, <2>6
  <2>16. {g} \in SUBSET Int
    OBVIOUS
  <2>17. GoodsSane'
    BY <1>3, <2>1, <2>6, <2>9, <2>12, <2>14, <2>15, <2>16, GoodsPassed
  <2> QED
    BY <2>1, <2>8, <2>11, <2>17 DEF StorefrontInv
<1> QED
  BY <1>1, <1>4, <1>5

-----------------------------------------------------------------------------
(* Writing the order.                                                      *)

\* A step that writes the order from what the request holds.
LEMMA OrderWritten ==
  ASSUME StorefrontInv, NEW r \in Request, req[r] \in Busy, req[r].pc \notin Reading,
         req[r].order \in Book!OrderIds,
         NEW copy \in Book!OrderRow, SameOrder(copy, orders[req[r].order]), RowFits(copy),
         copy.contents = req[r].copy.contents,
         NEW moved \in BOOLEAN, Book!UpdateOrder(req[r].order, copy, moved),
         UNCHANGED <<vaultVars, accountVars, couponVars, bought, wins>>,
         NEW q, req' = [req EXCEPT ![r] = q],
         q = IdleReq \/ (q \in Busy /\ Sane(q)),
         \A g \in Int : AtHand(q, g) => Holds(q.order, g)
  PROVE  StorefrontInv'
<1>1. BookSane
  BY DEF StorefrontInv
<1>2. PICK o \in Book!OrderIds : o = req[r].order
  OBVIOUS
<1>3. /\ BookSane' /\ TablesKeep /\ UNCHANGED payments
      /\ Book!OrderIds' = Book!OrderIds
      /\ \A p \in Book!OrderIds \ {o} : orders'[p] = orders[p]
      /\ orders'[o] = IF moved THEN orders[o] ELSE copy
  BY <1>1, <1>2, OrderUpdated
<1>4. ASSUME NEW p \in Book!OrderIds', NEW g \in orders'[p].contents
      PROVE  Holds(p, g)
  <2>1. CASE orders'[p] = orders[p]
    BY <1>3, <1>4, <2>1 DEF Holds
  <2>2. CASE p = o /\ orders'[p] = copy
    <3>1. AtHand(req[r], g) /\ req[r].order = p
      BY <1>2, <1>4, <2>2 DEF AtHand
    <3> QED
      BY <3>1 DEF Holds
  <2> QED
    BY <1>3, <1>4, <2>1, <2>2
<1>5. Acc!AccountsTypeOK' /\ CouponsSane' /\ WinsSane'
  BY <1>3, SameTables
<1>6. q \in Busy /\ Sane(q) => Sane(q)'
  BY <1>3, SaneKept
<1>7. UNCHANGED <<vaultVars, bought>>
  OBVIOUS
<1> QED
  BY <1>3, <1>4, <1>5, <1>6, <1>7, StepKeeps

LEMMA PayLinkInv ==
  ASSUME StorefrontInv, NEW r \in Request, PayLink(r)
  PROVE  StorefrontInv'
<1>1. /\ At(r, "paylink") /\ Book!UpdateOrder(req[r].order, req[r].copy, FALSE) /\ Answer(r)
      /\ UNCHANGED <<vaultVars, accountVars, couponVars, bought, wins>>
  BY DEF PayLink
<1>2. RequestsSane /\ "paylink" \in Place /\ FALSE \in BOOLEAN
  BY DEF StorefrontInv, Place, PayPath
<1>3. req[r] \in Busy /\ Sane(req[r]) /\ req[r].pc = "paylink"
  BY <1>1, <1>2, AtSane
<1>4. /\ req[r].copy \in Book!OrderRow /\ req[r].order \in Book!OrderIds /\ req[r].pc \notin Reading
      /\ SameOrder(req[r].copy, orders[req[r].order]) /\ req[r].copy.status = Book!Pending
  BY <1>3 DEF Sane, Copies, Ordering, Reading, PayPath
<1>5. RowFits(req[r].copy)
  BY <1>4 DEF RowFits, Book!Pending, Book!Delivered, Book!Refunded
<1>6. req' = [req EXCEPT ![r] = IdleReq] /\ \A g \in Int : ~AtHand(IdleReq, g)
  BY <1>1, IdleHolds DEF Answer
<1> QED
  BY <1>1, <1>2, <1>3, <1>4, <1>5, <1>6, OrderWritten

LEMMA SaveDeliveryInv ==
  ASSUME StorefrontInv, NEW r \in Request, SaveDelivery(r)
  PROVE  StorefrontInv'
<1>1. /\ At(r, "save") /\ Book!UpdateOrder(req[r].order, req[r].copy, req[r].moved)
      /\ Goto(r, "link")
      /\ UNCHANGED <<vaultVars, accountVars, couponVars, bought, wins>>
  BY DEF SaveDelivery
<1>2. RequestsSane /\ "save" \in Place /\ "link" \in Place
  BY DEF StorefrontInv, Place, BuyPath
<1>3. req[r] \in Busy /\ Sane(req[r]) /\ req[r].pc = "save"
  BY <1>1, <1>2, AtSane
<1>4. /\ req[r].copy \in Book!OrderRow /\ req[r].order \in Book!OrderIds /\ req[r].pc \notin Reading
      /\ SameOrder(req[r].copy, orders[req[r].order]) /\ RowFits(req[r].copy)
      /\ req[r].moved \in BOOLEAN
  BY <1>3 DEF Sane, Copies, Ordering, Reading, Busy
<1>5. PICK q \in Busy :
        /\ req' = [req EXCEPT ![r] = q] /\ q.pc = "link"
        /\ q.kind = req[r].kind /\ q.user = req[r].user /\ q.order = req[r].order
        /\ q.copy = req[r].copy /\ q.got = req[r].got
        /\ \A g \in Int : AtHand(q, g) => Holds(q.order, g)
  BY <1>1, <1>2, <1>3, <1>4, GoesTo
<1>6. Sane(q)
  BY <1>3, <1>5 DEF Sane, Kinds, Copies, Ordering, Reading, BuyPath, EndPath, PayPath
<1> QED
  BY <1>1, <1>3, <1>4, <1>5, <1>6, OrderWritten

LEMMA SaveRefundInv ==
  ASSUME StorefrontInv, NEW r \in Request, SaveRefund(r)
  PROVE  StorefrontInv'
<1>1. PICK copy : copy = [req[r].copy EXCEPT !.status = Book!Refunded]
  OBVIOUS
<1>2. /\ At(r, "saverefund") /\ Book!UpdateOrder(req[r].order, copy, FALSE) /\ Answer(r)
      /\ UNCHANGED <<vaultVars, accountVars, couponVars, bought, wins>>
  BY <1>1 DEF SaveRefund
<1>3. RequestsSane /\ "saverefund" \in Place /\ FALSE \in BOOLEAN
  BY DEF StorefrontInv, Place, BuyPath
<1>4. req[r] \in Busy /\ Sane(req[r]) /\ req[r].pc = "saverefund"
  BY <1>2, <1>3, AtSane
<1>5. /\ req[r].copy \in Book!OrderRow /\ req[r].order \in Book!OrderIds /\ req[r].pc \notin Reading
      /\ SameOrder(req[r].copy, orders[req[r].order]) /\ req[r].copy.contents = {}
  BY <1>4 DEF Sane, Copies, Ordering, Reading
<1>6. /\ copy \in Book!OrderRow /\ SameOrder(copy, orders[req[r].order])
      /\ copy.contents = req[r].copy.contents /\ copy.status = Book!Refunded
  BY <1>1, <1>5 DEF Book!OrderRow, Book!Status, SameOrder
<1>7. RowFits(copy)
  BY <1>5, <1>6 DEF RowFits, Book!Refunded, Book!Delivered
<1>8. req' = [req EXCEPT ![r] = IdleReq] /\ \A g \in Int : ~AtHand(IdleReq, g)
  BY <1>2, IdleHolds DEF Answer
<1> QED
  BY <1>2, <1>3, <1>4, <1>5, <1>6, <1>7, <1>8, OrderWritten

LEMMA SavePaidInv ==
  ASSUME StorefrontInv, NEW r \in Request, SavePaid(r)
  PROVE  StorefrontInv'
<1>1. /\ At(r, "savepaid") /\ Book!UpdateOrder(req[r].order, req[r].copy, FALSE)
      /\ IF req[r].copy.contents # {} THEN Got(r, req[r].copy.contents, FALSE)
         ELSE Goto(r, "deliver")
      /\ UNCHANGED <<vaultVars, accountVars, couponVars, bought, wins>>
  BY DEF SavePaid
<1>2. /\ RequestsSane /\ "savepaid" \in Place /\ "deliver" \in Place
  BY DEF StorefrontInv, Place, BuyPath
<1>3. req[r] \in Busy /\ Sane(req[r]) /\ req[r].pc = "savepaid"
  BY <1>1, <1>2, AtSane
<1>4. /\ req[r].copy \in Book!OrderRow /\ req[r].order \in Book!OrderIds /\ req[r].pc \notin Reading
      /\ SameOrder(req[r].copy, orders[req[r].order]) /\ req[r].copy.status = Book!Paid
      /\ req[r].kind = "finish"
  BY <1>3 DEF Sane, Kinds, Copies, Ordering, Reading, BuyPath, EndPath, PayPath, Busy
<1>5. RowFits(req[r].copy)
  BY <1>4 DEF RowFits, Book!Paid, Book!Delivered, Book!Refunded
<1>6. \E q \in Busy : /\ req' = [req EXCEPT ![r] = q] /\ Sane(q)
                      /\ \A g \in Int : AtHand(q, g) => Holds(q.order, g)
  <2>1. CASE req[r].copy.contents = {}
    <3>1. PICK q \in Busy :
        /\ req' = [req EXCEPT ![r] = q] /\ q.pc = "deliver"
        /\ q.kind = req[r].kind /\ q.user = req[r].user /\ q.order = req[r].order
        /\ q.copy = req[r].copy /\ q.got = req[r].got
        /\ \A g \in Int : AtHand(q, g) => Holds(q.order, g)
      BY <1>1, <1>2, <1>3, <1>4, <2>1, GoesTo
    <3>2. Sane(q)
      BY <1>3, <3>1 DEF Sane, Kinds, Copies, Ordering, Reading, BuyPath, EndPath, PayPath
    <3> QED
      BY <3>1, <3>2
  <2>2. CASE req[r].copy.contents # {}
    <3>1. PICK goods \in SUBSET Int : goods = req[r].copy.contents
      BY <1>4 DEF Book!OrderRow, Goods
    <3>2. PICK moved \in BOOLEAN : moved = FALSE
      OBVIOUS
    <3>3. Got(r, goods, moved) /\ Enough(req[r], goods) /\ req[r].pc \in {"deliver", "savepaid"}
      BY <1>1, <1>3, <1>4, <2>2, <3>1, <3>2 DEF Enough
    <3>10. Obtains(r, goods, moved)
      BY <1>2, <1>3, <3>3, GotGoods
    <3>4. PICK q \in Busy : req' = [req EXCEPT ![r] = q] /\ Delivers(req[r], q, goods, moved)
      BY <3>10 DEF Obtains
    <3>5. \A g \in Int : AtHand(q, g) => AtHand(req[r], g)
      BY <1>3, <1>4, <3>1, <3>4 DEF AtHand, Delivers
    <3> QED
      BY <3>4, <3>5 DEF Holds, Delivers
  <2> QED
    BY <2>1, <2>2
<1>7. PICK moved \in BOOLEAN : moved = FALSE
  OBVIOUS
<1>8. Book!UpdateOrder(req[r].order, req[r].copy, moved)
  BY <1>1, <1>7
<1> QED
  BY <1>1, <1>3, <1>4, <1>5, <1>6, <1>8, OrderWritten

\* FinishPaidOrder reads the row: what the copy holds, the order shows.
LEMMA FinishInv ==
  ASSUME StorefrontInv, NEW r \in Request, Finish(r)
  PROVE  StorefrontInv'
<1>1. /\ At(r, "finish")
      /\ \/ Answer(r)
         \/ req' = [req EXCEPT ![r].pc = "savepaid",
                               ![r].copy = [orders[req[r].order] EXCEPT !.status = Book!Paid]]
      /\ UNCHANGED <<vaultVars, accountVars, couponVars, bookVars, bought, wins>>
  BY DEF Finish
<1>2. RequestsSane /\ "finish" \in Place
  BY DEF StorefrontInv, Place, Reading
<1>3. req[r] \in Busy /\ Sane(req[r]) /\ req[r].pc = "finish"
  BY <1>1, <1>2, AtSane
<1>4. /\ req[r].order \in Book!OrderIds /\ req[r].kind = "finish" /\ req[r].got = {}
  BY <1>3 DEF Sane, Kinds, Copies, Ordering, Reading, BuyPath, EndPath, PayPath, Busy
<1>5. CASE Answer(r)
  BY <1>1, <1>5, IdleHolds, OnlyRequest DEF Answer
<1>6. CASE req' = [req EXCEPT ![r].pc = "savepaid",
                             ![r].copy = [orders[req[r].order] EXCEPT !.status = Book!Paid]]
  <2> DEFINE row == orders[req[r].order]
  <2>1. row \in Book!OrderRow
    BY <1>4, IdsAreNumbers DEF StorefrontInv
  <2>2. PICK copy : copy = [row EXCEPT !.status = Book!Paid]
    OBVIOUS
  <2>3. /\ copy \in Book!OrderRow /\ SameOrder(copy, row) /\ copy.status = Book!Paid
        /\ copy.contents = row.contents
    BY <2>1, <2>2 DEF Book!OrderRow, Book!Status, SameOrder
  <2>4. PICK q : q = [req[r] EXCEPT !.pc = "savepaid", !.copy = copy]
    OBVIOUS
  <2>5. req' = [req EXCEPT ![r] = q]
    <3>1. req = [y \in Request |-> req[y]]
      BY <1>2 DEF RequestsSane
    <3>2. req[r] = [kind |-> req[r].kind, pc |-> req[r].pc, user |-> req[r].user,
                    order |-> req[r].order, copy |-> req[r].copy, moved |-> req[r].moved,
                    got |-> req[r].got, pay |-> req[r].pay, method |-> req[r].method,
                    number |-> req[r].number]
      BY <1>3 DEF Busy
    <3> QED
      BY <1>6, <2>2, <2>4, <3>1, <3>2
  <2>6. /\ q.kind = "finish" /\ q.pc = "savepaid" /\ q.order = req[r].order
        /\ q.copy = copy /\ q.got = {}
    BY <1>3, <1>4, <2>4 DEF Busy
  <2>7. q \in Busy
    <3>1. "savepaid" \in Place
      BY DEF Place
    <3> DEFINE x == [req[r] EXCEPT !.pc = "savepaid"]
    <3>2. x \in Busy
      BY <1>3, <3>1, GoneTo
    <3>3. q = [x EXCEPT !.copy = copy]
      BY <1>3, <2>4 DEF Busy
    <3> HIDE DEF x
    <3> QED
      BY <2>3, <3>2, <3>3 DEF Busy
  <2>8. Sane(q)
    BY <1>4, <2>3, <2>6 DEF Sane, Kinds, Copies, Ordering, Reading, BuyPath, EndPath, PayPath
  <2>9. \A g \in Int : AtHand(q, g) => Holds(q.order, g)
    BY <1>4, <2>3, <2>6 DEF AtHand, Holds
  <2> QED
    BY <1>1, <2>5, <2>7, <2>8, <2>9, OnlyRequest
<1> QED
  BY <1>1, <1>5, <1>6

-----------------------------------------------------------------------------
(* The coupon and the commission.                                          *)

LEMMA UseCouponInv ==
  ASSUME StorefrontInv, NEW r \in Request, UseCoupon(r)
  PROVE  StorefrontInv'
<1>1. /\ At(r, "use") /\ Goto(r, "commission")
      /\ Coupons!UseCoupon(req[r].copy.coupon, req[r].copy.user, req[r].order)
      /\ UNCHANGED <<vaultVars, accountVars, bookVars, bought, wins>>
  BY DEF UseCoupon
<1>2. /\ RequestsSane /\ CouponsSane /\ BookSane /\ "use" \in Place /\ "commission" \in Place
      /\ "use" \notin Reading
  BY DEF StorefrontInv, Place, EndPath, Reading
<1>3. req[r] \in Busy /\ Sane(req[r]) /\ req[r].pc = "use"
  BY <1>1, <1>2, AtSane
<1>4. /\ req[r].copy \in Book!OrderRow /\ req[r].order \in Book!OrderIds
      /\ SameOrder(req[r].copy, orders[req[r].order]) /\ req[r].copy.coupon \in Coupon
  BY <1>3 DEF Sane, Copies, Ordering, Reading
<1>5. PICK q \in Busy :
        /\ req' = [req EXCEPT ![r] = q] /\ q.pc = "commission"
        /\ q.kind = req[r].kind /\ q.user = req[r].user /\ q.order = req[r].order
        /\ q.copy = req[r].copy /\ q.got = req[r].got
        /\ \A g \in Int : AtHand(q, g) => Holds(q.order, g)
  BY <1>1, <1>2, <1>3, GoesTo
<1>6. Sane(q)
  BY <1>3, <1>5 DEF Sane, Kinds, Copies, Ordering, Reading, BuyPath, EndPath, PayPath
<1>7. UNCHANGED bookVars /\ UNCHANGED orders /\ UNCHANGED payments
  BY <1>1 DEF bookVars
<1>8. TablesKeep /\ BookSane' /\ WinsSane' /\ Acc!AccountsTypeOK'
  BY <1>1, <1>7, SameTables
<1>9. CouponsSane'
  <2>1. /\ req[r].copy.user \in User
        /\ orders[req[r].order].coupon = req[r].copy.coupon
        /\ orders[req[r].order].user = req[r].copy.user
    BY <1>4 DEF Book!OrderRow, SameOrder
  <2> QED
    BY <1>1, <1>2, <1>4, <1>7, <2>1, CouponUsed
<1>10. \A p \in Book!OrderIds' : \A g \in orders'[p].contents : Holds(p, g)
  BY <1>7, SameTables
<1>11. Sane(q)'
  BY <1>6, <1>8, SaneKept
<1> QED
  BY <1>1, <1>5, <1>8, <1>9, <1>10, <1>11, StepKeeps

\* 5% of an amount.
LEMMA CommissionIsNat == ASSUME NEW a \in Nat PROVE Acc!Commission(a) \in Nat
  BY DEF Acc!Commission

\* A step of ProcessOrderCommission that keeps the accounts' types.
LEMMA CommissionKeeps ==
  ASSUME StorefrontInv, NEW r \in Request, NEW pc \in EndPath, NEW next \in EndPath,
         At(r, pc), Answer(r) \/ (Goto(r, next) /\ next \notin {"use"}),
         UNCHANGED <<vaultVars, couponVars, bookVars, bought, wins>>,
         Acc!AccountsTypeOK'
  PROVE  StorefrontInv'
<1>1. /\ RequestsSane /\ pc \in Place /\ next \in Place /\ pc \notin Reading
  BY DEF StorefrontInv, Place, EndPath, Reading
<1>2. req[r] \in Busy /\ Sane(req[r]) /\ req[r].pc = pc
  BY <1>1, AtSane
<1>3. UNCHANGED bookVars /\ UNCHANGED orders /\ UNCHANGED payments
  BY DEF bookVars
<1>4. TablesKeep /\ BookSane' /\ CouponsSane' /\ WinsSane'
  BY <1>3, SameTables
<1>5. \A p \in Book!OrderIds' : \A g \in orders'[p].contents : Holds(p, g)
  BY <1>3, SameTables
<1>6. CASE Answer(r)
  <2>1. PICK q : q = IdleReq
    OBVIOUS
  <2>2. req' = [req EXCEPT ![r] = q] /\ \A g \in Int : ~AtHand(q, g)
    BY <1>6, <2>1, IdleHolds DEF Answer
  <2> QED
    BY <1>4, <1>5, <2>1, <2>2, StepKeeps
<1>7. CASE Goto(r, next) /\ next \notin {"use"}
  <2>1. PICK q \in Busy :
        /\ req' = [req EXCEPT ![r] = q] /\ q.pc = next
        /\ q.kind = req[r].kind /\ q.user = req[r].user /\ q.order = req[r].order
        /\ q.copy = req[r].copy /\ q.got = req[r].got
        /\ \A g \in Int : AtHand(q, g) => Holds(q.order, g)
    BY <1>1, <1>2, <1>7, GoesTo
  <2>2. Sane(q)
    BY <1>2, <1>7, <2>1 DEF Sane, Kinds, Copies, Ordering, Reading, BuyPath, EndPath, PayPath
  <2>3. Sane(q)'
    BY <1>4, <2>2, SaneKept
  <2> QED
    BY <1>4, <1>5, <2>1, <2>3, StepKeeps
<1> QED
  BY <1>6, <1>7

LEMMA BeginCommissionInv ==
  ASSUME StorefrontInv, NEW r \in Request, BeginCommission(r)
  PROVE  StorefrontInv'
<1>1. /\ At(r, "commission")
      /\ \/ /\ Acc!StartCommission(r, req[r].copy.user, req[r].order, req[r].copy.amount)
            /\ Goto(r, "credit")
         \/ Answer(r) /\ UNCHANGED accountVars
      /\ UNCHANGED <<vaultVars, couponVars, bookVars, bought, wins>>
  BY DEF BeginCommission
<1>2. RequestsSane /\ "commission" \in Place /\ "commission" \in EndPath /\ "credit" \in EndPath
  BY DEF StorefrontInv, Place, EndPath
<1>3. req[r] \in Busy /\ Sane(req[r]) /\ req[r].pc = "commission"
  BY <1>1, <1>2, AtSane
<1>4. req[r].copy \in Book!OrderRow /\ req[r].order \in Book!OrderIds
  BY <1>3 DEF Sane, Copies, Ordering, Reading
<1>5. req[r].copy.user \in User /\ req[r].copy.amount \in Nat /\ req[r].order \in Order
  BY <1>4, IdsAreNumbers DEF Book!OrderRow, StorefrontInv
<1>6. Acc!AccountsTypeOK /\ Acc!Commission(req[r].copy.amount) \in Nat
  BY <1>5, CommissionIsNat DEF StorefrontInv
<1>7. Acc!AccountsTypeOK'
  <2>1. CASE Acc!StartCommission(r, req[r].copy.user, req[r].order, req[r].copy.amount)
    <3> DEFINE u == req[r].copy.user
               job == [step |-> "credit", buyer |-> u, referrer |-> referrer[u],
                       order |-> req[r].order, amount |-> Acc!Commission(req[r].copy.amount)]
    <3>1. /\ jobs' = [jobs EXCEPT ![r] = job] /\ referrer[u] # NoUser
          /\ UNCHANGED <<balance, journal, referrer, commission>>
      BY <2>1 DEF Acc!StartCommission, Acc!CommissionDue
    <3>2. referrer[u] \in User
      BY <1>5, <1>6, <3>1 DEF Acc!AccountsTypeOK
    <3>3. job \in Acc!Job
      BY <1>5, <1>6, <3>2 DEF Acc!Job
    <3> HIDE DEF job
    <3> QED
      BY <1>6, <3>1, <3>3 DEF Acc!AccountsTypeOK
  <2>2. CASE UNCHANGED accountVars
    BY <2>2, SameTables
  <2> QED
    BY <1>1, <2>1, <2>2
<1> QED
  BY <1>1, <1>2, <1>7, CommissionKeeps

\* CreditReferrer and AccrueCommission.
LEMMA CreditInv ==
  ASSUME StorefrontInv, NEW r \in Request, CreditReferrer(r) \/ AccrueCommission(r)
  PROVE  StorefrontInv'
<1>1. /\ \/ At(r, "credit") /\ Acc!Credit(r) /\ Goto(r, "accrue")
         \/ At(r, "accrue") /\ Acc!Accrue(r) /\ Answer(r)
      /\ UNCHANGED <<vaultVars, couponVars, bookVars, bought, wins>>
  BY DEF CreditReferrer, AccrueCommission
<1>2. /\ Acc!AccountsTypeOK /\ "credit" \in EndPath /\ "accrue" \in EndPath
  BY DEF StorefrontInv, EndPath
<1>3. jobs[r].step \in {"credit", "accrue"} => jobs[r] \in Acc!Job
  BY <1>2 DEF Acc!AccountsTypeOK, Acc!Idle
<1>4. jobs[r] \in Acc!Job
  BY <1>1, <1>3 DEF Acc!Credit, Acc!Accrue
<1>5. /\ jobs[r].referrer \in User /\ jobs[r].buyer \in User /\ jobs[r].order \in Order
      /\ jobs[r].order \in Nat /\ jobs[r].amount \in Nat
  BY <1>4, StorefrontAssumption DEF Acc!Job, Order
<1>6. Acc!AccountsTypeOK'
  <2>1. CASE Acc!Credit(r)
    <3>1. /\ Acc!Post(jobs[r].referrer, "referral", jobs[r].amount, jobs[r].order, jobs[r].buyer)
          /\ jobs' = [jobs EXCEPT ![r].step = "accrue"] /\ UNCHANGED <<referrer, commission>>
      BY <2>1 DEF Acc!Credit
    <3>2. balance' \in [User -> Int] /\ journal' \in [User -> Seq(Acc!Entry)]
      <4>1. "referral" \in Acc!EntryType /\ jobs[r].amount \in Int
        BY <1>5 DEF Acc!EntryType
      <4> QED
        BY <1>2, <1>5, <3>1, <4>1, EntryPosted
    <3>3. jobs' \in [Request -> Acc!Job \cup {Acc!Idle}]
      <4>1. [jobs[r] EXCEPT !.step = "accrue"] \in Acc!Job
        BY <1>4 DEF Acc!Job
      <4>2. jobs' = [jobs EXCEPT ![r] = [jobs[r] EXCEPT !.step = "accrue"]]
        BY <1>2, <3>1 DEF Acc!AccountsTypeOK
      <4> QED
        BY <1>2, <4>1, <4>2 DEF Acc!AccountsTypeOK
    <3> QED
      BY <1>2, <3>1, <3>2, <3>3 DEF Acc!AccountsTypeOK
  <2>2. CASE Acc!Accrue(r)
    BY <1>2, <1>5, <2>2 DEF Acc!Accrue, Acc!AccountsTypeOK
  <2> QED
    BY <1>1, <2>1, <2>2
<1> QED
  BY <1>1, <1>2, <1>6, CommissionKeeps

-----------------------------------------------------------------------------
(* Calls of the store that fail.                                           *)

\* Where a request goes when a call fails whose error it drops.
Onwards(x, q) ==
  \/ x.pc = "bind" /\ q.pc = "coupon"
  \/ x.pc = "refund" /\ q.pc = "saverefund"
  \/ x.pc = "save" /\ q.pc = "link"
  \/ x.pc = "link" /\ q.pc = AfterLink(x)
  \/ x.pc = "use" /\ q.pc = "commission"
  \/ x.pc = "mark" /\ q.pc = "finish"
  \/ x.pc = "deliver" /\ q.pc = "refund" /\ x.kind = "buy"

LEMMA StoreFailed ==
  ASSUME StorefrontInv, NEW r \in Request, StoreFails(r)
  PROVE  /\ req[r] \in Busy /\ Sane(req[r])
         /\ \E q : /\ req' = [req EXCEPT ![r] = q]
                  /\ \/ q = IdleReq
                     \/ /\ q \in Busy /\ Sane(q) /\ Onwards(req[r], q)
                        /\ q.kind = req[r].kind /\ q.user = req[r].user
                        /\ q.order = req[r].order /\ q.copy = req[r].copy
                        /\ q.moved = req[r].moved
                  /\ \A g \in Int : AtHand(q, g) => Holds(q.order, g)
<1>0. RequestsSane
  BY DEF StorefrontInv
<1>1. PICK x : x = req[r]
  OBVIOUS
<1>2. DOMAIN Onward = {"bind", "refund", "save", "use", "mark"}
  BY DEF Onward
<1>3. /\ \/ x.pc \in DOMAIN Onward /\ Goto(r, Onward[x.pc])
         \/ x.pc = "link" /\ Goto(r, AfterLink(x))
         \/ x.pc \in LastCalls /\ Answer(r)
         \/ x.pc = "deliver" /\ Fail(r)
  BY <1>1 DEF StoreFails, At
<1>4. x.pc \in Place
  BY <1>2, <1>3 DEF LastCalls, Place, Ordering, Reading, BuyPath, EndPath, PayPath
<1>5. x \in Busy /\ Sane(x)
  BY <1>0, <1>1, <1>4, AtSane DEF At
<1>6. ASSUME NEW pc \in Place, Goto(r, pc), Onwards(x, [pc |-> pc]), x.pc # "deliver"
      PROVE  \E q : /\ req' = [req EXCEPT ![r] = q]
                   /\ q \in Busy /\ Sane(q) /\ Onwards(x, q)
                   /\ q.kind = x.kind /\ q.user = x.user
                   /\ q.order = x.order /\ q.copy = x.copy /\ q.moved = x.moved
                   /\ \A g \in Int : AtHand(q, g) => Holds(q.order, g)
  <2>1. x.pc \in Reading => pc \in Reading
    BY <1>6 DEF Onwards, Reading
  <2>2. PICK q \in Busy :
          /\ req' = [req EXCEPT ![r] = q] /\ q.pc = pc
          /\ q.kind = x.kind /\ q.user = x.user /\ q.order = x.order
          /\ q.copy = x.copy /\ q.moved = x.moved /\ q.got = x.got
          /\ q.pay = x.pay /\ q.method = x.method /\ q.number = x.number
          /\ \A g \in Int : AtHand(q, g) => Holds(q.order, g)
    BY <1>0, <1>1, <1>5, <1>6, <2>1, GoesTo
  <2>3. Onwards(x, q)
    BY <1>6, <2>2 DEF Onwards
  <2>4. x.pc = "link" => x.copy.coupon \in Coupon \cup {Book!NoCoupon}
    BY <1>5 DEF Sane, Copies, Reading, Book!OrderRow
  <2>5. Kinds(q)
    BY <1>5, <1>6, <2>2, <2>3
    DEF Sane, Kinds, Onwards, AfterLink, Ordering, Reading, BuyPath, EndPath
  <2>6. Copies(q)
    BY <1>5, <1>6, <2>2, <2>3, <2>4
    DEF Sane, Copies, Kinds, Onwards, AfterLink, Ordering, Reading, BuyPath, EndPath, PayPath
  <2> QED
    BY <2>2, <2>3, <2>5, <2>6 DEF Sane
<1>7. CASE x.pc \in DOMAIN Onward /\ Goto(r, Onward[x.pc])
  <2>1. PICK pc : pc = Onward[x.pc]
    OBVIOUS
  <2>2. pc \in Place /\ Onwards(x, [pc |-> pc]) /\ x.pc # "deliver"
    BY <1>2, <1>7, <2>1
    DEF Onward, Onwards, Place, Ordering, Reading, BuyPath, EndPath
  <2> QED
    BY <1>1, <1>5, <1>6, <1>7, <2>1, <2>2
<1>8. CASE x.pc = "link" /\ Goto(r, AfterLink(x))
  <2>1. AfterLink(x) \in Place /\ Onwards(x, [pc |-> AfterLink(x)]) /\ x.pc # "deliver"
    BY <1>8 DEF AfterLink, Onwards, Place, EndPath
  <2> QED
    BY <1>1, <1>5, <1>6, <1>8, <2>1
<1>9. CASE Answer(r)
  BY <1>1, <1>5, <1>9, IdleHolds DEF Answer
<1>10. CASE x.pc = "deliver" /\ Fail(r)
  BY <1>0, <1>1, <1>5, <1>10, Failed DEF Onwards
<1> QED
  BY <1>3, <1>7, <1>8, <1>9, <1>10

LEMMA StoreFailsInv ==
  ASSUME StorefrontInv, NEW r \in Request, StoreFails(r)
  PROVE  StorefrontInv'
<1>1. PICK q : /\ req' = [req EXCEPT ![r] = q]
               /\ q = IdleReq \/ (q \in Busy /\ Sane(q))
               /\ \A g \in Int : AtHand(q, g) => Holds(q.order, g)
  BY StoreFailed
<1>2. UNCHANGED <<vaultVars, couponVars, bookVars, bought, wins>>
  BY DEF StoreFails
<1>3. UNCHANGED bookVars /\ UNCHANGED orders /\ UNCHANGED payments
  BY <1>2 DEF bookVars
<1>4. TablesKeep /\ BookSane' /\ CouponsSane' /\ WinsSane'
  BY <1>2, <1>3, SameTables
<1>5. \A p \in Book!OrderIds' : \A g \in orders'[p].contents : Holds(p, g)
  BY <1>3, SameTables
<1>6. Acc!AccountsTypeOK'
  <2>1. CASE UNCHANGED accountVars
    BY <2>1, SameTables
  <2>2. CASE Acc!Abandon(r)
    BY <2>2 DEF Acc!Abandon, Acc!AccountsTypeOK, StorefrontInv
  <2> QED
    BY <2>1, <2>2 DEF StoreFails
<1>7. q \in Busy /\ Sane(q) => Sane(q)'
  BY <1>4, SaneKept
<1> QED
  BY <1>1, <1>2, <1>4, <1>5, <1>6, <1>7, StepKeeps

-----------------------------------------------------------------------------
(* The invariant holds at the start, and every step keeps it.              *)

\* A crash leaves the tables and no request.
LEMMA CrashInv ==
  ASSUME StorefrontInv, Crash
  PROVE  StorefrontInv'
<1>1. /\ req' = [r \in Request |-> IdleReq] /\ Acc!CrashJobs
      /\ UNCHANGED <<vaultVars, couponVars, bookVars, bought, wins>>
  BY DEF Crash
<1>2. UNCHANGED bookVars /\ UNCHANGED orders /\ UNCHANGED payments
  BY <1>1 DEF bookVars
<1>3. TablesKeep /\ BookSane' /\ CouponsSane' /\ WinsSane'
  BY <1>1, <1>2, SameTables
<1>4. RequestsSane'
  BY <1>1 DEF RequestsSane
<1>5. Acc!AccountsTypeOK'
  BY <1>1 DEF Acc!CrashJobs, Acc!AccountsTypeOK, StorefrontInv
<1>6. VaultSane'
  BY <1>1 DEF StorefrontInv, VaultSane, vaultVars, Vault!VaultTypeOK, UniqueIds
<1>7. GoodsSane'
  <2>1. GoodsSane
    BY DEF StorefrontInv
  <2>2. \A r \in Request : \A g : ~AtHand(req'[r], g)
    BY <1>1, IdleHolds
  <2>3. ASSUME NEW o, NEW g, Holds(o, g)'
        PROVE  Holds(o, g)
    <3>1. Holds(o, g)' <=> \/ o \in Book!OrderIds' /\ g \in orders'[o].contents
                           \/ \E r \in Request : AtHand(req'[r], g) /\ req'[r].order = o
      BY DEF Holds, AtHand
    <3> QED
      BY <1>2, <2>2, <2>3, <3>1 DEF Holds, Book!OrderIds
  <2>4. ASSUME NEW o
        PROVE  Vault!SoldTo(o)' = Vault!SoldTo(o)
    BY <1>1 DEF Vault!SoldTo, vaultVars
  <2>5. UNCHANGED bought
    BY <1>1
  <2>6. ASSUME NEW o \in Order, NEW g \in Int, Holds(o, g)'
        PROVE  \/ g > 0 /\ \E s \in Vault!SoldTo(o)' : s.id = g
               \/ g < 0 /\ -g <= bought'
    <3>1. \/ g > 0 /\ \E s \in Vault!SoldTo(o) : s.id = g
          \/ g < 0 /\ -g <= bought
      BY <2>1, <2>3, <2>6 DEF GoodsSane
    <3> QED
      BY <2>4, <2>5, <3>1
  <2>7. ASSUME NEW o \in Order, NEW p \in Order, NEW g \in Int, Holds(o, g)', Holds(p, g)'
        PROVE  o = p
    <3>1. Holds(o, g) /\ Holds(p, g)
      BY <2>3, <2>7
    <3> QED
      BY <2>1, <3>1 DEF GoodsSane
  <2> QED
    BY <2>1, <2>5, <2>6, <2>7 DEF GoodsSane
<1> QED
  BY <1>3, <1>4, <1>5, <1>6, <1>7 DEF StorefrontInv

\* The secrets imported before the start.
LEMMA ShelfSane ==
  ASSUME Init
  PROVE  VaultSane
<1> DEFINE n == Len(Shelf)
           row == [i \in 1 .. n |-> [id |-> i, commodity |-> Shelf[i], status |-> 0,
                                     order |-> NoOrder]]
<1>1. n \in Nat /\ \A i \in 1 .. n : Shelf[i] \in Commodity /\ i \in Nat \ {0}
  BY StorefrontAssumption
<1>2. /\ secrets = {[id |-> i, commodity |-> Shelf[i], status |-> 0, order |-> NoOrder] :
                     i \in 1 .. n}
      /\ nextSecret = n + 1
      /\ rows = [c \in Commodity |-> [state |-> "listed", stock |-> Cardinality(Vault!Unsold(c)),
                                      sold |-> 0]]
      /\ typed = [c \in Commodity |-> {}]
  BY DEF Init
<1>3. IsFiniteSet(secrets)
  <2>1. row \in [1 .. n -> secrets] /\ \A s \in secrets : \E i \in 1 .. n : row[i] = s
    BY <1>2
  <2>2. IsFiniteSet(1 .. n)
    BY <1>1, FS_Interval
  <2> HIDE DEF row, n
  <2>3. row \in Surjection(1 .. n, secrets)
    BY <2>1 DEF Surjection
  <2> QED
    BY <2>2, <2>3, FS_Surjection
<1>4. secrets \subseteq Vault!UnsoldSecret
  BY <1>1, <1>2 DEF Vault!UnsoldSecret
<1>5. UniqueIds
  BY <1>2 DEF UniqueIds
<1>6. \A c : Cardinality(Vault!Unsold(c)) \in Nat
  BY <1>3, FS_Subset, FS_CardinalityType DEF Vault!Unsold, Vault!UnsoldIn
<1>7. rows \in [Commodity -> Vault!Row]
  BY <1>2, <1>6 DEF Vault!Row
<1> QED
  BY <1>1, <1>2, <1>3, <1>4, <1>5, <1>7 DEF VaultSane, Vault!VaultTypeOK

LEMMA StorefrontInvInit == Init => StorefrontInv
<1> SUFFICES ASSUME Init PROVE StorefrontInv
  OBVIOUS
<1>1. req = [r \in Request |-> IdleReq] /\ \A r \in Request : \A g : ~AtHand(req[r], g)
  BY IdleHolds DEF Init
<1>2. RequestsSane
  BY <1>1 DEF RequestsSane
<1>3. VaultSane
  BY ShelfSane
<1>4. Acc!AccountsTypeOK
  <2>1. \A S : <<>> \in Seq(S)
    OBVIOUS
  <2> QED
    BY <2>1, StorefrontAssumption DEF Init, Acc!AccountsInit, Acc!AccountsTypeOK
<1>5. orders = <<>> /\ payments = <<>> /\ Book!OrderIds = {} /\ Book!PaymentIds = {}
  BY DEF Init, Book!BookInit, Book!OrderIds, Book!PaymentIds
<1>6. BookSane
  BY <1>5, StorefrontAssumption DEF BookSane
<1>7. CouponsSane
  <2>1. used = [c \in Coupon |-> 0] /\ usages = <<>>
    BY DEF Init, Coupons!CouponInit
  <2>2. Len(usages) = 0 /\ 1 .. Len(usages) = {} /\ usages \in Seq(Coupons!Usage)
    BY <2>1
  <2>3. \A c \in Coupon : Coupons!UsagesOf(c) = {}
    BY <2>2 DEF Coupons!UsagesOf
  <2>4. \A c \in Coupon : used[c] = Cardinality(Coupons!UsagesOf(c))
    BY <2>1, <2>3, FS_EmptySet
  <2> QED
    BY <2>1, <2>2, <2>4 DEF CouponsSane, CouponUsesRecorded
<1>8. WinsSane
  BY DEF Init, WinsSane
<1>9. GoodsSane
  BY <1>1, <1>5 DEF Init, GoodsSane, Holds
<1> QED
  BY <1>2, <1>3, <1>4, <1>6, <1>7, <1>8, <1>9 DEF StorefrontInv

LEMMA StorefrontInvNext == StorefrontInv /\ [Next]_vars => StorefrontInv'
<1> SUFFICES ASSUME StorefrontInv, [Next]_vars PROVE StorefrontInv'
  OBVIOUS
<1>1. ASSUME NEW r \in Request, Begin(r)
      PROVE  StorefrontInv'
  BY <1>1, BeginOrderInv, BeginPaymentInv, BeginReadingInv DEF Begin
<1>2. ASSUME NEW r \in Request, Proceed(r)
      PROVE  StorefrontInv'
  BY <1>2, BindInv, TakeCouponInv, CheckBalanceInv, CreateOrderInv, PaymentInv, PayLinkInv,
     MoneyInv, PullInv, TradeInv, SaveDeliveryInv, SaveRefundInv, UseCouponInv,
     BeginCommissionInv, CreditInv, MarkInv, FinishInv, SavePaidInv
  DEF Proceed
<1>3. CASE Crash
  BY <1>3, CrashInv
<1>4. ASSUME NEW r \in Request, StoreFails(r)
      PROVE  StorefrontInv'
  BY <1>4, StoreFailsInv
<1>5. CASE UNCHANGED vars
  <2>1. UNCHANGED bookVars /\ UNCHANGED orders /\ UNCHANGED payments
    BY <1>5 DEF vars, bookVars
  <2>2. /\ UNCHANGED <<vaultVars, accountVars, couponVars, bookVars, bought, wins>>
        /\ UNCHANGED req
    BY <1>5 DEF vars
  <2>3. TablesKeep /\ BookSane' /\ CouponsSane' /\ WinsSane' /\ Acc!AccountsTypeOK'
    BY <2>1, <2>2, SameTables
  <2>4. VaultSane'
    BY <2>2 DEF StorefrontInv, VaultSane, vaultVars, Vault!VaultTypeOK, UniqueIds
  <2>5. RequestsSane'
    BY <2>1, <2>2 DEF StorefrontInv, RequestsSane, Sane, Kinds, Copies, RowFits, SameOrder,
      Book!OrderIds, Book!PaymentIds
  <2>6. GoodsSane'
    BY <2>1, <2>2 DEF StorefrontInv, GoodsSane, Holds, AtHand, vaultVars, Vault!SoldTo,
      Book!OrderIds
  <2> QED
    BY <2>3, <2>4, <2>5, <2>6 DEF StorefrontInv
<1> QED
  BY <1>1, <1>2, <1>3, <1>4, <1>5 DEF Next

-----------------------------------------------------------------------------
(* What follows for every reachable state.                                 *)

\* The inductive invariant holds whatever handlers are called in whatever
\* interleaving, whatever upstreams and gateways answer and whenever the server
\* restarts (payment_api.go over the stores).
THEOREM StorefrontInvariant == Spec => []StorefrontInv
<1>1. Init => StorefrontInv
  BY StorefrontInvInit
<1>2. StorefrontInv /\ [Next]_vars => StorefrontInv'
  BY StorefrontInvNext
<1> QED
  BY <1>1, <1>2, PTL DEF Spec

\* Every table and every request stays of its kind.
THEOREM StorefrontTypes == Spec => []StorefrontTypeOK
<1>1. StorefrontInv => StorefrontTypeOK
  BY DEF StorefrontInv, StorefrontTypeOK, VaultSane, CouponsSane, BookSane, GoodsSane,
    RequestsSane, Busy
<1> QED
  BY <1>1, StorefrontInvariant, PTL

\* A card an order shows was sold to it and to no other, and no two orders show
\* the same goods: copies of rows that requests hold, and write back late, are
\* in the order's own hands (deliverSelf, SecretEngine, UpdateOrder).
THEOREM OrdersShowTheirOwn == Spec => []GoodsAreOwn
<1>1. StorefrontInv => GoodsAreOwn
  <2> SUFFICES ASSUME StorefrontInv PROVE GoodsAreOwn
    OBVIOUS
  <2>1. \A o \in Book!OrderIds : o \in Order /\ orders[o] \in Book!OrderRow
    BY IdsAreNumbers DEF StorefrontInv
  <2>2. \A o \in Book!OrderIds : \A g \in orders[o].contents : g \in Int /\ Holds(o, g)
    BY <2>1 DEF Book!OrderRow, Goods, Holds
  <2>3. ASSUME NEW o \in Book!OrderIds
        PROVE  Cards(o) \subseteq {s.id : s \in Vault!SoldTo(o)}
    <3>1. ASSUME NEW g \in Cards(o)
          PROVE  \E s \in Vault!SoldTo(o) : s.id = g
      <4>1. g \in Int /\ g > 0 /\ Holds(o, g) /\ ~(g < 0)
        BY <2>2 DEF Cards
      <4> QED
        BY <2>1, <4>1 DEF StorefrontInv, GoodsSane
    <3> QED
      BY <3>1
  <2>4. ASSUME NEW o \in Book!OrderIds, NEW p \in Book!OrderIds, o # p
        PROVE  orders[o].contents \cap orders[p].contents = {}
    <3>1. ASSUME NEW g \in orders[o].contents, g \in orders[p].contents
          PROVE  FALSE
      <4>1. g \in Int /\ Holds(o, g) /\ Holds(p, g) /\ o \in Order /\ p \in Order
        BY <2>1, <2>2, <3>1
      <4> QED
        BY <2>4, <4>1 DEF StorefrontInv, GoodsSane
    <3> QED
      BY <3>1
  <2> QED
    BY <2>3, <2>4 DEF GoodsAreOwn
<1> QED
  BY <1>1, StorefrontInvariant, PTL

\* An order of the shop's own cards that says delivered shows all it asked for,
\* and a refunded one none, whichever stale copy was written last.
THEOREM StatusesMatch == Spec => []StatusMatchesGoods
<1>1. StorefrontInv => StatusMatchesGoods
  BY DEF StorefrontInv, BookSane, StatusMatchesGoods, RowFits, Cards, CardsIn
<1> QED
  BY <1>1, StorefrontInvariant, PTL

\* A coupon's count is the number of its recorded uses, each by an order that
\* was granted it (UseCoupon after either kind of delivery).
THEOREM CouponUses == Spec => []CouponUsesRecorded
<1>1. StorefrontInv => CouponUsesRecorded
  BY DEF StorefrontInv, CouponsSane
<1> QED
  BY <1>1, StorefrontInvariant, PTL

\* However many callbacks of a payment race, one wins MarkPaymentPaid, over any
\* number of restarts.
THEOREM OneCallbackWins == Spec => []CallbackWinsOnce
<1>1. StorefrontInv => CallbackWinsOnce
  BY DEF StorefrontInv, WinsSane, CallbackWinsOnce
<1> QED
  BY <1>1, StorefrontInvariant, PTL
=============================================================================
