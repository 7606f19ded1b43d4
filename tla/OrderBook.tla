------------------------------ MODULE OrderBook ------------------------------
(***************************************************************************)
(* The orders and payments tables: internal/store/sqlite.go (CreateOrder,  *)
(* UpdateOrder) and internal/store/user.go (CreatePayment,                 *)
(* GetPaymentByOutTradeNo, MarkPaymentPaid).  Each is one statement, so    *)
(* each is one atomic action.  Ids are AUTOINCREMENT and start at 1; id 0  *)
(* is "none".  Columns that no handler's decision reads (messages, payment *)
(* ids and methods of orders, times, urls) are left out.                   *)
(***************************************************************************)
EXTENDS Integers, Sequences

CONSTANTS
  Commodity,    \* ids of commodities
  User,         \* ids of registered users
  Coupon,       \* ids of coupons
  Goods,        \* what an order's contents can be made of
  MaxOrders,    \* bound: orders ever created
  MaxPayments   \* bound: payments ever created

VARIABLES
  orders,       \* the rows of orders in id order
  payments      \* the rows of payments in id order

bookVars == <<orders, payments>>

Pending == 0    \* orders.status
Paid == 1
Delivered == 2
Refunded == 5
Status == {Pending, Paid, Delivered, Refunded}

NoCoupon == 0   \* orders.coupon_id of an order without a coupon
NoNumber == 0   \* payments.out_trade_no that is empty

OrderRow == [user : User, commodity : Commodity, num : Nat \ {0}, amount : Nat,
             coupon : Coupon \cup {NoCoupon}, status : Status, contents : SUBSET Goods]

Method == {"balance", "epay"}
PaymentRow == [order : 1 .. MaxOrders, amount : Nat, method : Method,
               paid : BOOLEAN, number : 0 .. MaxPayments]

OrderIds   == DOMAIN orders
PaymentIds == DOMAIN payments

BookInit ==
  /\ orders = <<>>
  /\ payments = <<>>

-----------------------------------------------------------------------------
\* CreateOrder; the caller learns the id, Len(orders) + 1.
CreateOrder(row) ==
  /\ Len(orders) < MaxOrders
  /\ orders' = Append(orders, row)
  /\ UNCHANGED payments

\* UpdateOrder with a copy of order id: everything the copy holds replaces the
\* row, whatever the row has become since the copy was read.  The WHERE clause
\* is trade_no = the copy's: a copy whose trade number an upstream "moved"
\* matches no row, and that is no error.
UpdateOrder(id, copy, moved) ==
  /\ orders' = IF moved THEN orders
               ELSE [orders EXCEPT ![id].status = copy.status,
                                   ![id].contents = copy.contents]
  /\ UNCHANGED payments

\* CreatePayment: out_trade_no is not known yet and stays empty.
CreatePayment(o, amount, method) ==
  /\ Len(payments) < MaxPayments
  /\ payments' = Append(payments, [order |-> o, amount |-> amount, method |-> method,
                                   paid |-> FALSE, number |-> NoNumber])
  /\ UNCHANGED orders

\* GetPaymentByOutTradeNo: the first row, in id order, with that number.
PaymentByNumber(n) ==
  {p \in PaymentIds : /\ payments[p].number = n
                      /\ \A q \in PaymentIds : payments[q].number = n => p <= q}

\* Defect of CanMark: the UPDATE without AND status = 0.
CanMarkAlways(p) == TRUE

\* Whether MarkPaymentPaid's UPDATE (WHERE id AND status = 0) hits a row, which
\* is what it returns.
CanMark(p) == ~payments[p].paid

\* MarkPaymentPaid: COALESCE keeps the number when none is given.
MarkPaymentPaid(p, n) ==
  /\ payments' = IF CanMark(p)
                 THEN [payments EXCEPT ![p].paid = TRUE,
                                       ![p].number = IF n = NoNumber THEN @ ELSE n]
                 ELSE payments
  /\ UNCHANGED orders
=============================================================================
