------------------------------ MODULE CouponBook ------------------------------
(***************************************************************************)
(* Coupons, internal/store/coupon.go: the used_count of each coupon and    *)
(* the coupon_usages table.  ValidateCoupon only reads, long before        *)
(* UseCoupon counts: in between, the discount is held by a request or by   *)
(* an unpaid order.                                                        *)
(***************************************************************************)
EXTENDS Integers, Sequences

CONSTANTS
  User,         \* ids of registered users
  Order,        \* ids of orders
  Coupon,       \* ids of the coupons the admin created
  Terms         \* what the admin wrote on each: [limit, percent, discount, min]

VARIABLES
  used,         \* coupons.used_count
  usages        \* the rows of coupon_usages in id order

couponVars == <<used, usages>>

Usage == [coupon : Coupon, user : User, order : Order]

CouponInit ==
  /\ used = [c \in Coupon |-> 0]
  /\ usages = <<>>

-----------------------------------------------------------------------------
\* The discount ValidateCoupon grants on an amount, never more than it.
Discount(c, amount) ==
  LET d == IF Terms[c].percent THEN (amount * Terms[c].discount) \div 100
           ELSE Terms[c].discount
  IN IF d > amount THEN amount ELSE d

UsagesOf(c)   == {i \in 1 .. Len(usages) : usages[i].coupon = c}
UsedBy(c, u)  == \E i \in UsagesOf(c) : usages[i].user = u

\* ValidateCoupon accepts.  It reads the coupon and then the usages; both only
\* grow, so whenever the two reads accept, so would one at the time of the first.
\* When the usages cannot be counted, the error is dropped and the count is 0.
Valid(c, u, amount, counted) ==
  /\ Terms[c].limit > 0 => used[c] < Terms[c].limit
  /\ amount >= Terms[c].min
  /\ counted => ~UsedBy(c, u)

\* Defect of UseCoupon: the usage is recorded, the count is not.
UseCouponUncounted(c, u, o) ==
  /\ usages' = Append(usages, [coupon |-> c, user |-> u, order |-> o])
  /\ UNCHANGED used

\* UseCoupon: both writes in one transaction, neither limited by the other.
UseCoupon(c, u, o) ==
  /\ used' = [used EXCEPT ![c] = @ + 1]
  /\ usages' = Append(usages, [coupon |-> c, user |-> u, order |-> o])
=============================================================================
