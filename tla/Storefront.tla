------------------------------ MODULE Storefront ------------------------------
(***************************************************************************)
(* Ordering, paying and delivering: internal/api/payment_api.go, with the  *)
(* balance engine of internal/payment and the delivery engines of          *)
(* internal/delivery it calls, over the stores of CardVault, Accounts,     *)
(* CouponBook and OrderBook.                                               *)
(*                                                                         *)
(* A request is a goroutine.  It goes from one call of the store, or of an *)
(* upstream, to the next with a copy of the order row in local memory; the *)
(* database serialises the calls, and other requests run between them.     *)
(***************************************************************************)
EXTENDS Integers, Sequences, FiniteSets

CONSTANTS
  Request,      \* the requests the server works on at once
  User, NoUser, \* registered users; the referrer_id 0
  Buyers,       \* the users who place orders
  Inviters,     \* the users whose invite code an order may carry
  Commodity,    \* ids of commodities
  Source,       \* commodities.source: "self" or "upstream"
  Price,        \* commodities.sale_price
  Quantity,     \* commodities.minimum and maximum, 0 for none
  Shelf,        \* the commodity of each secret imported before the start
  Nums,         \* the quantities buyers ask for
  Coupon,       \* ids of coupons
  Terms,        \* the terms of each coupon
  Opening,      \* the balance of each user at the start
  Handlers,     \* the handlers the clients of this instance call
  Answers,      \* how upstreams answer SubmitOrder in this instance
  Numbers,      \* whether gateway notifications carry a number: "given", "missing"
  Crashes,      \* whether the server may stop and restart
  Faults,       \* whether calls of the store may fail
  MaxOrders,    \* bound: orders ever created
  MaxPayments   \* bound: payments ever created

\* What the database and the admin's forms hold to: ids are not 0, quantities
\* and amounts are not negative, and the requests are finitely many.
ASSUME StorefrontAssumption ==
  /\ IsFiniteSet(Request)
  /\ NoUser \notin User /\ Buyers \subseteq User /\ Inviters \subseteq User
  /\ Source \in [Commodity -> {"self", "upstream"}]
  /\ Price \in [Commodity -> Nat]
  /\ Quantity \in [Commodity -> [min : Nat, max : Nat]]
  /\ Crashes \in BOOLEAN /\ Faults \in BOOLEAN
  /\ Shelf \in Seq(Commodity)
  /\ Nums \subseteq Nat \ {0}
  /\ 0 \notin Coupon
  /\ Terms \in [Coupon -> [limit : Nat, percent : BOOLEAN, discount : Nat, min : Nat]]
  /\ Opening \in [User -> Int]
  /\ MaxOrders \in Nat /\ MaxPayments \in Nat

VARIABLES
  secrets, nextSecret, rows, typed,                  \* CardVault
  balance, journal, referrer, commission, jobs,      \* Accounts
  used, usages,                                      \* CouponBook
  orders, payments,                                  \* OrderBook
  bought,       \* external: how many purchases upstreams have served
  req,          \* the local state of each request
  wins          \* history: how often each payment's callback won MarkPaymentPaid

vaultVars   == <<secrets, nextSecret, rows, typed>>
accountVars == <<balance, journal, referrer, commission, jobs>>
couponVars  == <<used, usages>>
bookVars    == <<orders, payments>>
vars == <<vaultVars, accountVars, couponVars, bookVars, bought, req, wins>>

Order == 1 .. MaxOrders
NoOrder == 0

\* Bounds of the stores that never bind here: orders and payments do.
MaxSecrets == Len(Shelf)
MaxTyped == 0
Amounts == {}
MaxEntries == 4 * (MaxOrders + MaxPayments)

\* What contents are made of: i > 0 is the secret with id i, -k is what the
\* k-th upstream purchase returned.
Goods == Int

Vault   == INSTANCE CardVault
Acc     == INSTANCE Accounts WITH Caller <- Request
Coupons == INSTANCE CouponBook
Book    == INSTANCE OrderBook

-----------------------------------------------------------------------------
(* The local state of a request: where it is, who called, what it was       *)
(* called for, its copy of the order row with the row's id, whether the     *)
(* copy's trade_no was replaced, the cards pulled so far, and the payment,  *)
(* method and gateway number at hand.                                       *)

IdleReq == [pc |-> "idle"]

NewReq(kind, pc, u, o, copy) ==
  [kind |-> kind, pc |-> pc, user |-> u, order |-> o, copy |-> copy,
   moved |-> FALSE, got |-> {}, pay |-> 0, method |-> "none", number |-> Book!NoNumber]

NoCopy == [none |-> TRUE]

At(r, pc)   == req[r].pc = pc
Goto(r, pc) == req' = [req EXCEPT ![r].pc = pc]
Answer(r)   == req' = [req EXCEPT ![r] = IdleReq]

\* Requests that will still create an order or a payment: the bounds are kept
\* by not starting more of them.
WillOrder == {r \in Request : req[r].pc \in {"bind", "coupon", "check", "create"}}
WillPay   == {r \in Request : \/ req[r].pc \in {"payrow", "newpay"}
                              \/ r \in WillOrder /\ req[r].kind = "order"}
RoomForOrder   == Len(orders) + Cardinality(WillOrder) < MaxOrders
RoomForPayment == Len(payments) + Cardinality(WillPay) < MaxPayments

Init ==
  /\ secrets = {[id |-> i, commodity |-> Shelf[i], status |-> 0, order |-> NoOrder] :
                  i \in 1 .. Len(Shelf)}
  /\ nextSecret = Len(Shelf) + 1
  /\ rows = [c \in Commodity |-> [state |-> "listed", stock |-> Cardinality(Vault!Unsold(c)),
                                  sold |-> 0]]
  /\ typed = [c \in Commodity |-> {}]
  /\ Acc!AccountsInit
  /\ Coupons!CouponInit
  /\ Book!BookInit
  /\ bought = 0
  /\ req = [r \in Request |-> IdleReq]
  /\ wins = [p \in 1 .. MaxPayments |-> 0]

-----------------------------------------------------------------------------
(* handleOrderCreateV3: "buy" pays from the balance, "order" by a payment.  *)

\* detailMin and detailMax.  Without a maximum the stock limits the quantity,
\* but only when there is any: with Stock 0 detailMax is 0, "no limit".
FitsQuantity(c, n) ==
  LET q    == Quantity[c]
      most == IF q.max > 0 THEN q.max ELSE rows[c].stock
  IN n >= q.min /\ (most > 0 => n <= most)

\* Read the commodity and price the order.  The steps that an invite code or a
\* coupon code adds are taken when it is given.
BeginOrder(r, kind) ==
  /\ kind \in Handlers
  /\ At(r, "idle")
  /\ RoomForOrder
  /\ kind = "order" => RoomForPayment
  /\ \E u \in Buyers, c \in Commodity, n \in Nums,
        pc \in {"coupon"} \cup (IF Inviters = {} THEN {} ELSE {"bind"}) :
       /\ FitsQuantity(c, n)
       /\ req' = [req EXCEPT ![r] = NewReq(kind, pc, u, 0,
            [user |-> u, commodity |-> c, num |-> n, amount |-> Price[c] * n,
             coupon |-> Book!NoCoupon, status |-> Book!Pending, contents |-> {}])]
  /\ UNCHANGED <<vaultVars, accountVars, couponVars, bookVars, bought, wins>>

\* BindReferrer; a buyer who is bound already, or whose own code it is, stays
\* as they are.
Bind(r) ==
  /\ At(r, "bind")
  /\ Goto(r, "coupon")
  /\ \E i \in Inviters :
       IF i # req[r].user /\ referrer[req[r].user] = NoUser
       THEN Acc!BindReferrer(req[r].user, i)
       ELSE UNCHANGED accountVars
  /\ UNCHANGED <<vaultVars, couponVars, bookVars, bought, wins>>

\* ValidateCoupon: a code it rejects is ignored, the order then costs the full
\* amount.
TakeCoupon(r) ==
  /\ At(r, "coupon")
  /\ LET copy == req[r].copy
         next == IF req[r].kind = "buy" THEN "check" ELSE "create"
     IN \/ Goto(r, next)
        \/ \E c \in Coupon, counted \in {TRUE, ~Faults} :
             /\ Coupons!Valid(c, copy.user, copy.amount, counted)
             /\ req' = [req EXCEPT ![r].pc = next, ![r].copy.coupon = c,
                                   ![r].copy.amount = @ - Coupons!Discount(c, @)]
  /\ UNCHANGED <<vaultVars, accountVars, couponVars, bookVars, bought, wins>>

\* GetUserByID: the balance is compared here and charged two calls later.
CheckBalance(r) ==
  /\ At(r, "check")
  /\ IF balance[req[r].user] < req[r].copy.amount THEN Answer(r) ELSE Goto(r, "create")
  /\ UNCHANGED <<vaultVars, accountVars, couponVars, bookVars, bought, wins>>

\* CreateOrder.  An order that is to be paid otherwise may end here, pending:
\* need_pay is false (403), or the method is missing or unknown (400).
CreateOrder(r) ==
  /\ At(r, "create")
  /\ Book!CreateOrder(req[r].copy)
  /\ \/ /\ req[r].kind = "buy"
        /\ req' = [req EXCEPT ![r].pc = "charge", ![r].order = Len(orders) + 1]
     \/ /\ req[r].kind = "order"
        /\ \/ req' = [req EXCEPT ![r].pc = "payrow", ![r].order = Len(orders) + 1]
           \/ Answer(r)
  /\ UNCHANGED <<vaultVars, accountVars, couponVars, bought, wins>>

\* The rest of the "order" path: CreatePayment, then UpdateOrder with the copy.
\* The engine is epay (balance is the "buy" path), whose CreatePay keeps no
\* state; the second CreatePayment, which should store the out_trade_no, fails
\* on the trade number it repeats, and its error is dropped.
PayRow(r) ==
  /\ At(r, "payrow")
  /\ Book!CreatePayment(req[r].order, req[r].copy.amount, "epay")
  /\ Goto(r, "paylink")
  /\ UNCHANGED <<vaultVars, accountVars, couponVars, bought, wins>>

PayLink(r) ==
  /\ At(r, "paylink")
  /\ Book!UpdateOrder(req[r].order, req[r].copy, FALSE)
  /\ Answer(r)
  /\ UNCHANGED <<vaultVars, accountVars, couponVars, bought, wins>>

\* AdjustBalance(uid, -amount, "consume", order): no lower bound.
Charge(r) ==
  /\ At(r, "charge")
  /\ Acc!AdjustBalance(req[r].user, -req[r].copy.amount, "consume", req[r].order)
  /\ Goto(r, "deliver")
  /\ UNCHANGED <<vaultVars, couponVars, bookVars, bought, wins>>

-----------------------------------------------------------------------------
(* Delivery: deliverSelf and deliverUpstream for "buy", SecretEngine and    *)
(* UpstreamEngine for "finish".                                             *)

\* What follows a delivery: "buy" saves its copy; "finish" does not, and goes
\* on to the coupon and the commission.
AfterDelivery(kind, copy) ==
  IF kind = "buy" THEN "save"
  ELSE IF copy.coupon # Book!NoCoupon THEN "use" ELSE "commission"

Got(r, goods, moved) ==
  LET copy == [req[r].copy EXCEPT !.status = Book!Delivered, !.contents = goods]
  IN req' = [req EXCEPT ![r].pc = AfterDelivery(req[r].kind, copy),
                        ![r].copy = copy, ![r].moved = moved, ![r].got = {}]

\* Defect of Fail: the refund is left out.
FailUnrefunded(r) == req' = [req EXCEPT ![r] = IdleReq]

\* Delivery failed: "buy" refunds, "finish" gives up and returns the error.
Fail(r) ==
  req' = [req EXCEPT ![r] = IF @.kind = "buy" THEN [@ EXCEPT !.pc = "refund", !.got = {}]
                            ELSE IdleReq]

\* Defect of Pull: an empty shelf ends the loop like a full delivery.
PullPartial(r) ==
  /\ At(r, "deliver")
  /\ Source[req[r].copy.commodity] = "self"
  /\ \E c \in {req[r].copy.commodity}, o \in {req[r].order} :
       \/ /\ Vault!PullSecret(c, o)
          /\ LET got == req[r].got \cup {s.id : s \in secrets' \ secrets}
             IN IF Cardinality(got) = req[r].copy.num THEN Got(r, got, FALSE)
                ELSE req' = [req EXCEPT ![r].got = got]
       \/ /\ Vault!Unsold(c) = {}
          /\ Got(r, req[r].got, FALSE)
          /\ UNCHANGED vaultVars
  /\ UNCHANGED <<accountVars, couponVars, bookVars, bought, wins>>

\* One PullSecret of the loop over num; cards pulled before the shelf is empty
\* stay sold to the order.
Pull(r) ==
  /\ At(r, "deliver")
  /\ Source[req[r].copy.commodity] = "self"
  /\ \E c \in {req[r].copy.commodity}, o \in {req[r].order} :
       \/ /\ Vault!PullSecret(c, o)
          /\ LET got == req[r].got \cup {s.id : s \in secrets' \ secrets}
             IN IF Cardinality(got) = req[r].copy.num THEN Got(r, got, FALSE)
                ELSE req' = [req EXCEPT ![r].got = got]
       \/ /\ Vault!Unsold(c) = {}
          /\ Fail(r)
          /\ UNCHANGED vaultVars
  /\ UNCHANGED <<accountVars, couponVars, bookVars, bought, wins>>

\* Defect of Trade: an error counts as a delivery too.
TradeUnchecked(r) ==
  /\ At(r, "deliver")
  /\ Source[req[r].copy.commodity] = "upstream"
  /\ \/ Got(r, {-(bought + 1)}, FALSE) /\ bought' = bought + 1
     \/ Got(r, {}, FALSE) /\ UNCHANGED bought
  /\ UNCHANGED <<vaultVars, accountVars, couponVars, bookVars, wins>>

\* upstream.Trade.  Any answer that is not an error counts as a delivery: the
\* result's code is stored, not looked at.  An answer may hold goods with or
\* without the upstream's trade number, which replaces the copy's; a refusal
\* holds neither.
Trade(r) ==
  /\ At(r, "deliver")
  /\ Source[req[r].copy.commodity] = "upstream"
  /\ \/ /\ \E a \in Answers \cap {"goods", "number"} :
             Got(r, {-(bought + 1)}, a = "number")
        /\ bought' = bought + 1
     \/ /\ "refusal" \in Answers
        /\ Got(r, {}, FALSE)
        /\ UNCHANGED bought
     \/ /\ "error" \in Answers
        /\ Fail(r)
        /\ UNCHANGED bought
  /\ UNCHANGED <<vaultVars, accountVars, couponVars, bookVars, wins>>

-----------------------------------------------------------------------------
(* The end of the balance path.                                            *)

\* UpdateOrder with the delivered copy.
SaveDelivery(r) ==
  /\ At(r, "save")
  /\ Book!UpdateOrder(req[r].order, req[r].copy, req[r].moved)
  /\ Goto(r, "link")
  /\ UNCHANGED <<vaultVars, accountVars, couponVars, bought, wins>>

AfterLink(q) == IF q.copy.coupon # Book!NoCoupon THEN "use" ELSE "commission"

\* Defect of LinkLog: the entry repeats the charge.
LinkLogCharging(r) ==
  /\ At(r, "link")
  /\ Acc!AdjustBalance(req[r].user, -req[r].copy.amount, "consume", req[r].order)
  /\ Goto(r, AfterLink(req[r]))
  /\ UNCHANGED <<vaultVars, couponVars, bookVars, bought, wins>>

\* linkBalanceLogToOrder: one more journal entry, over 0.
LinkLog(r) ==
  /\ At(r, "link")
  /\ Acc!AdjustBalance(req[r].user, 0, "consume", req[r].order)
  /\ Goto(r, AfterLink(req[r]))
  /\ UNCHANGED <<vaultVars, couponVars, bookVars, bought, wins>>

\* Defect of Refund: it returns the price before the discount.
RefundGross(r) ==
  /\ At(r, "refund")
  /\ LET copy == req[r].copy
     IN Acc!AdjustBalance(req[r].user, Price[copy.commodity] * copy.num, "refund", req[r].order)
  /\ Goto(r, "saverefund")
  /\ UNCHANGED <<vaultVars, couponVars, bookVars, bought, wins>>

\* AdjustBalance(uid, amount, "refund", order).
Refund(r) ==
  /\ At(r, "refund")
  /\ Acc!AdjustBalance(req[r].user, req[r].copy.amount, "refund", req[r].order)
  /\ Goto(r, "saverefund")
  /\ UNCHANGED <<vaultVars, couponVars, bookVars, bought, wins>>

\* Status 5 and UpdateOrder, whatever became of the refund.
SaveRefund(r) ==
  /\ At(r, "saverefund")
  /\ Book!UpdateOrder(req[r].order, [req[r].copy EXCEPT !.status = Book!Refunded], FALSE)
  /\ Answer(r)
  /\ UNCHANGED <<vaultVars, accountVars, couponVars, bought, wins>>

-----------------------------------------------------------------------------
(* The coupon and the commission, after either kind of delivery.           *)

UseCoupon(r) ==
  /\ At(r, "use")
  /\ Coupons!UseCoupon(req[r].copy.coupon, req[r].copy.user, req[r].order)
  /\ Goto(r, "commission")
  /\ UNCHANGED <<vaultVars, accountVars, bookVars, bought, wins>>

\* Defect of BeginCommission: it earns on the price before the discount.
BeginCommissionGross(r) ==
  /\ At(r, "commission")
  /\ LET copy == req[r].copy
         gross == Price[copy.commodity] * copy.num
     IN IF Acc!CommissionDue(referrer[copy.user], gross)
        THEN /\ Acc!StartCommission(r, copy.user, req[r].order, gross)
             /\ Goto(r, "credit")
        ELSE /\ Answer(r)
             /\ UNCHANGED accountVars
  /\ UNCHANGED <<vaultVars, couponVars, bookVars, bought, wins>>

\* ProcessOrderCommission: it ends early when no commission is due.
BeginCommission(r) ==
  /\ At(r, "commission")
  /\ LET copy == req[r].copy
     IN IF Acc!CommissionDue(referrer[copy.user], copy.amount)
        THEN /\ Acc!StartCommission(r, copy.user, req[r].order, copy.amount)
             /\ Goto(r, "credit")
        ELSE /\ Answer(r)
             /\ UNCHANGED accountVars
  /\ UNCHANGED <<vaultVars, couponVars, bookVars, bought, wins>>

CreditReferrer(r) ==
  /\ At(r, "credit")
  /\ Acc!Credit(r)
  /\ Goto(r, "accrue")
  /\ UNCHANGED <<vaultVars, couponVars, bookVars, bought, wins>>

AccrueCommission(r) ==
  /\ At(r, "accrue")
  /\ Acc!Accrue(r)
  /\ Answer(r)
  /\ UNCHANGED <<vaultVars, couponVars, bookVars, bought, wins>>

-----------------------------------------------------------------------------
(* handlePaymentCreate.                                                     *)

\* Read the order; only a pending one gets a payment.  Any user may ask.
BeginPayment(r) ==
  /\ "pay" \in Handlers
  /\ At(r, "idle")
  /\ RoomForPayment
  /\ \E u \in Buyers, o \in Book!OrderIds, m \in Book!Method :
       /\ orders[o].status = Book!Pending
       /\ req' = [req EXCEPT ![r] = [NewReq("pay", "newpay", u, o, orders[o]) EXCEPT !.method = m]]
  /\ UNCHANGED <<vaultVars, accountVars, couponVars, bookVars, bought, wins>>

\* CreatePayment; the balance engine then refuses an amount of 0.
NewPayment(r) ==
  /\ At(r, "newpay")
  /\ Book!CreatePayment(req[r].order, req[r].copy.amount, req[r].method)
  /\ IF req[r].method = "epay" THEN Goto(r, "paylink")
     ELSE IF req[r].copy.amount > 0 THEN Goto(r, "paycharge")
     ELSE Answer(r)
  /\ UNCHANGED <<vaultVars, accountVars, couponVars, bought, wins>>

\* BalanceEngine.CreatePay: charges without looking at the balance, with
\* order_id 0.  The stale copy is written next (PayLink).
PayCharge(r) ==
  /\ At(r, "paycharge")
  /\ Acc!AdjustBalance(req[r].user, -req[r].copy.amount, "consume", NoOrder)
  /\ Goto(r, "paylink")
  /\ UNCHANGED <<vaultVars, couponVars, bookVars, bought, wins>>

-----------------------------------------------------------------------------
(* handlePaymentCheck, handlePaymentCallback and handleBalanceFinish.       *)

\* GetPaymentByID: an open balance payment, whose QueryStatus is "success".
BeginCheck(r) ==
  /\ "check" \in Handlers
  /\ At(r, "idle")
  /\ \E p \in Book!PaymentIds :
       /\ payments[p].method = "balance" /\ ~payments[p].paid
       /\ req' = [req EXCEPT ![r] =
            [NewReq("finish", "mark", NoUser, payments[p].order, NoCopy) EXCEPT !.pay = p]]
  /\ UNCHANGED <<vaultVars, accountVars, couponVars, bookVars, bought, wins>>

\* MarkPaymentPaid, whose result is not looked at.
CheckMark(r) ==
  /\ At(r, "mark")
  /\ Book!MarkPaymentPaid(req[r].pay, Book!NoNumber)
  /\ Goto(r, "finish")
  /\ UNCHANGED <<vaultVars, accountVars, couponVars, bought, wins>>

\* The number in a gateway's notification of payment q (external).
NumbersOf(q) == {IF form = "given" THEN q ELSE Book!NoNumber : form \in Numbers}

\* A verified notification that epay payment q succeeded, over its amount:
\* GetPaymentByOutTradeNo and the comparison of the amounts, unless one is 0.
\* Without a match nothing happens.
BeginCallback(r) ==
  /\ "callback" \in Handlers
  /\ At(r, "idle")
  /\ \E q \in Book!PaymentIds : \E n \in NumbersOf(q) : \E p \in Book!PaymentByNumber(n) :
       /\ payments[q].method = "epay"
       /\ payments[q].amount > 0 /\ payments[p].amount > 0 =>
            payments[p].amount = payments[q].amount
       /\ req' = [req EXCEPT ![r] =
            [NewReq("finish", "callback", NoUser, payments[p].order, NoCopy)
               EXCEPT !.pay = p, !.number = n]]
  /\ UNCHANGED <<vaultVars, accountVars, couponVars, bookVars, bought, wins>>

\* MarkPaymentPaid: only the call that hit the row goes on to deliver.
CallbackMark(r) ==
  /\ At(r, "callback")
  /\ Book!MarkPaymentPaid(req[r].pay, req[r].number)
  /\ IF Book!CanMark(req[r].pay)
     THEN /\ Goto(r, "finish")
          /\ wins' = [wins EXCEPT ![req[r].pay] = @ + 1]
     ELSE /\ Answer(r)
          /\ UNCHANGED wins
  /\ UNCHANGED <<vaultVars, accountVars, couponVars, bought>>

\* The owner of a pending order asks for it to be finished.
BeginFinish(r) ==
  /\ "finish" \in Handlers
  /\ At(r, "idle")
  /\ \E o \in Book!OrderIds :
       /\ orders[o].status = Book!Pending
       /\ req' = [req EXCEPT ![r] = NewReq("finish", "finish", orders[o].user, o, NoCopy)]
  /\ UNCHANGED <<vaultVars, accountVars, couponVars, bookVars, bought, wins>>

-----------------------------------------------------------------------------
(* FinishPaidOrder.                                                        *)

\* Read the order: nothing to do from status 2 on, else the copy is paid.
Finish(r) ==
  /\ At(r, "finish")
  /\ LET row == orders[req[r].order]
     IN IF row.status >= Book!Delivered THEN Answer(r)
        ELSE req' = [req EXCEPT ![r].pc = "savepaid",
                                ![r].copy = [row EXCEPT !.status = Book!Paid]]
  /\ UNCHANGED <<vaultVars, accountVars, couponVars, bookVars, bought, wins>>

\* UpdateOrder, then Dispatch: a copy that has contents is only marked.
\* Nothing writes the order after the delivery.
SavePaid(r) ==
  /\ At(r, "savepaid")
  /\ Book!UpdateOrder(req[r].order, req[r].copy, FALSE)
  /\ IF req[r].copy.contents # {} THEN Got(r, req[r].copy.contents, FALSE)
     ELSE Goto(r, "deliver")
  /\ UNCHANGED <<vaultVars, accountVars, couponVars, bought, wins>>

-----------------------------------------------------------------------------
(* A call of the store fails (a busy or full database): its transaction is  *)
(* undone, and the code that made the call drops the error or gives up.     *)

\* The calls whose error is dropped, and what comes after them.
Onward == [bind |-> "coupon", refund |-> "saverefund", save |-> "link",
           use |-> "commission", mark |-> "finish"]

\* The calls that end the request when they fail: their error is returned, or
\* nothing comes after them.
LastCalls == {"check", "create", "payrow", "paylink", "charge", "saverefund",
              "commission", "credit", "accrue", "newpay", "paycharge",
              "callback", "finish", "savepaid"}

StoreFails(r) ==
  /\ Faults
  /\ \/ req[r].pc \in DOMAIN Onward /\ Goto(r, Onward[req[r].pc])
     \/ At(r, "link") /\ Goto(r, AfterLink(req[r]))
     \/ req[r].pc \in LastCalls /\ Answer(r)
     \/ At(r, "deliver") /\ Source[req[r].copy.commodity] = "self" /\ Fail(r)
  /\ IF req[r].pc \in {"credit", "accrue"} THEN Acc!Abandon(r) ELSE UNCHANGED accountVars
  /\ UNCHANGED <<vaultVars, couponVars, bookVars, bought, wins>>

\* The server stops and starts again: the requests are gone, the tables stay.
Crash ==
  /\ Crashes
  /\ \E r \in Request : ~At(r, "idle")
  /\ req' = [r \in Request |-> IdleReq]
  /\ Acc!CrashJobs
  /\ UNCHANGED <<vaultVars, couponVars, bookVars, bought, wins>>

Begin(r) ==
  \/ BeginOrder(r, "buy") \/ BeginOrder(r, "order")
  \/ BeginPayment(r) \/ BeginCheck(r) \/ BeginCallback(r) \/ BeginFinish(r)

\* What a request that was accepted does next; the Go scheduler runs it.
Proceed(r) ==
  \/ Bind(r) \/ TakeCoupon(r) \/ CheckBalance(r) \/ CreateOrder(r)
  \/ PayRow(r) \/ PayLink(r) \/ Charge(r)
  \/ Pull(r) \/ Trade(r)
  \/ SaveDelivery(r) \/ LinkLog(r) \/ Refund(r) \/ SaveRefund(r)
  \/ UseCoupon(r) \/ BeginCommission(r) \/ CreditReferrer(r) \/ AccrueCommission(r)
  \/ NewPayment(r) \/ PayCharge(r)
  \/ CheckMark(r) \/ CallbackMark(r)
  \/ Finish(r) \/ SavePaid(r)

Next ==
  \/ \E r \in Request : Begin(r) \/ Proceed(r) \/ StoreFails(r)
  \/ Crash

Spec == Init /\ [][Next]_vars

\* Every request that has begun goes on: handlers run to their end and no call
\* blocks for ever (upstream calls carry a timeout).
FairSpec == Spec /\ \A r \in Request : WF_vars(Proceed(r))

\* Moreover, a gateway repeats its notification of a payment, as gateways do
\* until they are answered "success" (external).
GatewaySpec == FairSpec /\ \A r \in Request : WF_vars(BeginCallback(r))
=============================================================================
