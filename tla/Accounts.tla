------------------------------- MODULE Accounts -------------------------------
(***************************************************************************)
(* User balances, their journal and the referral program:                  *)
(* internal/store/user.go (AdjustBalance) and internal/store/referral.go   *)
(* (BindReferrer, ProcessOrderCommission).  AdjustBalance is one            *)
(* transaction; ProcessOrderCommission is three calls of the store with     *)
(* other requests in between, and the server can stop between any two.     *)
(* Amounts are in the smallest unit of money.                              *)
(***************************************************************************)
EXTENDS Orders, Integers, Sequences, Functions

CONSTANTS
  User,         \* ids of registered users
  NoUser,       \* the referrer_id 0
  Caller,       \* the requests that can be inside ProcessOrderCommission
  Opening,      \* the balance each user has before the first entry
  Amounts,      \* the amounts checkouts and refunds post
  MaxEntries    \* bound: entries per user

ASSUME AccountsAssumption ==
  /\ NoUser \notin User
  /\ Opening \in [User -> Int]
  /\ Amounts \subseteq Int
  /\ MaxEntries \in Nat

VARIABLES
  balance,      \* users.balance
  journal,      \* balance_logs of each user in id order
  referrer,     \* users.referrer_id
  commission,   \* users.commission_balance
  jobs          \* the local state of each request inside ProcessOrderCommission

accountVars == <<balance, journal, referrer, commission, jobs>>

EntryType == {"consume", "refund", "referral"}

\* A row of balance_logs.  "buyer" is history: the buyer a referral entry is for.
Entry == [type : EntryType, amount : Int, balance : Int,
          order : Order \cup {NoOrder}, buyer : User \cup {NoUser}]

Idle == [step |-> "idle"]
Job  == [step : {"credit", "accrue"}, buyer : User, referrer : User,
         order : Order, amount : Nat]

AccountsInit ==
  /\ balance = Opening
  /\ journal = [u \in User |-> <<>>]
  /\ referrer = [u \in User |-> NoUser]
  /\ commission = [u \in User |-> 0]
  /\ jobs = [p \in Caller |-> Idle]

-----------------------------------------------------------------------------
\* commission := amount * 0.05
Commission(amount) == (amount * 5) \div 100

\* Defect: the entry records the balance the update replaced.
PostStale(u, typ, amount, o, b) ==
  /\ Len(journal[u]) < MaxEntries
  /\ balance' = [balance EXCEPT ![u] = @ + amount]
  /\ journal' = [journal EXCEPT ![u] = Append(@,
       [type |-> typ, amount |-> amount, balance |-> balance[u], order |-> o, buyer |-> b])]

\* UPDATE ... RETURNING balance and the INSERT of its journal entry.
Post(u, typ, amount, o, b) ==
  /\ Len(journal[u]) < MaxEntries
  /\ balance' = [balance EXCEPT ![u] = @ + amount]
  /\ journal' = [journal EXCEPT ![u] = Append(@,
       [type |-> typ, amount |-> amount, balance |-> balance[u] + amount,
        order |-> o, buyer |-> b])]

\* AdjustBalance as the checkout calls it: there is no lower bound.
AdjustBalance(u, amount, typ, o) ==
  /\ Post(u, typ, amount, o, NoUser)
  /\ UNCHANGED <<referrer, commission, jobs>>

\* Defect: the UPDATE and the SELECT without their conditions.
BindReferrerAgain(u, r) ==
  /\ referrer' = [referrer EXCEPT ![u] = r]
  /\ UNCHANGED <<balance, journal, commission, jobs>>

\* BindReferrer once the invite code has been looked up as user r (id != u):
\* the UPDATE only hits a user who has no referrer yet.
BindReferrer(u, r) ==
  /\ r # u
  /\ referrer[u] = NoUser
  /\ referrer' = [referrer EXCEPT ![u] = r]
  /\ UNCHANGED <<balance, journal, commission, jobs>>

-----------------------------------------------------------------------------
(* ProcessOrderCommission(order, buyer, amount, 0.05), called by request p. *)

\* Whether the call gets past its early returns for the buyer's referrer r.
CommissionDue(r, amount) == r # NoUser /\ amount > 0 /\ Commission(amount) >= 1

\* SELECT referrer_id: what the rest of the call works with.
StartCommission(p, b, o, amount) ==
  /\ jobs[p] = Idle
  /\ CommissionDue(referrer[b], amount)
  /\ jobs' = [jobs EXCEPT ![p] =
       [step |-> "credit", buyer |-> b, referrer |-> referrer[b], order |-> o,
        amount |-> Commission(amount)]]
  /\ UNCHANGED <<balance, journal, referrer, commission>>

\* AdjustBalance(referrerID, commission, "referral", ...).
Credit(p) ==
  /\ jobs[p].step = "credit"
  /\ Post(jobs[p].referrer, "referral", jobs[p].amount, jobs[p].order, jobs[p].buyer)
  /\ jobs' = [jobs EXCEPT ![p].step = "accrue"]
  /\ UNCHANGED <<referrer, commission>>

\* Defects of the last statement: it runs again; it subtracts.
AccrueAgain(p) ==
  /\ jobs[p].step = "accrue"
  /\ commission' = [commission EXCEPT ![jobs[p].referrer] = @ + jobs[p].amount]
  /\ jobs' = jobs
  /\ UNCHANGED <<balance, journal, referrer>>
AccrueNegative(p) ==
  /\ jobs[p].step = "accrue"
  /\ commission' = [commission EXCEPT ![jobs[p].referrer] = @ - jobs[p].amount]
  /\ jobs' = [jobs EXCEPT ![p] = Idle]
  /\ UNCHANGED <<balance, journal, referrer>>

\* UPDATE users SET commission_balance = commission_balance + ?.
Accrue(p) ==
  /\ jobs[p].step = "accrue"
  /\ commission' = [commission EXCEPT ![jobs[p].referrer] = @ + jobs[p].amount]
  /\ jobs' = [jobs EXCEPT ![p] = Idle]
  /\ UNCHANGED <<balance, journal, referrer>>

\* A statement of the call fails: an error of the credit ends it, one of the
\* last statement is dropped.
Abandon(p) ==
  /\ jobs[p] # Idle
  /\ jobs' = [jobs EXCEPT ![p] = Idle]
  /\ UNCHANGED <<balance, journal, referrer, commission>>

\* The server stops: every request under way is lost, the tables stay.
CrashJobs ==
  /\ jobs' = [p \in Caller |-> Idle]
  /\ UNCHANGED <<balance, journal, referrer, commission>>

-----------------------------------------------------------------------------
AccountsNext ==
  \/ \E u \in User, a \in Amounts, o \in Order \cup {NoOrder} :
        AdjustBalance(u, a, IF a > 0 THEN "refund" ELSE "consume", o)
  \/ \E u, r \in User : BindReferrer(u, r)
  \/ \E p \in Caller, b \in User, o \in Order, a \in Amounts :
        StartCommission(p, b, o, -a)
  \/ \E p \in Caller : Credit(p) \/ Accrue(p) \/ Abandon(p)
  \/ CrashJobs

AccountsSpec == AccountsInit /\ [][AccountsNext]_accountVars

-----------------------------------------------------------------------------
\* Balances, journals, referrers and commissions are of their kinds; a job
\* under way has a referrer and a commission.
AccountsTypeOK ==
  /\ balance \in [User -> Int]
  /\ journal \in [User -> Seq(Entry)]
  /\ referrer \in [User -> User \cup {NoUser}]
  /\ commission \in [User -> Nat]
  /\ jobs \in [Caller -> Job \cup {Idle}]

\* The balance before entry i of u's journal.
Before(u, i) == IF i = 1 THEN Opening[u] ELSE journal[u][i - 1].balance

\* A journal accounts for every change of a balance: each entry starts from
\* the balance the previous one recorded, and the last one recorded the
\* balance the user has (AdjustBalance writes both in one transaction).
JournalReconciles ==
  \A u \in User :
    /\ \A i \in 1 .. Len(journal[u]) :
         journal[u][i].balance = Before(u, i) + journal[u][i].amount
    /\ balance[u] = Before(u, Len(journal[u]) + 1)

\* A referral credit went to the referrer its buyer has now: the call credits
\* the referrer it read two calls ago, which is right because a bound
\* referrer is never replaced.
CreditedToReferrer ==
  \A u \in User : \A i \in 1 .. Len(journal[u]) :
    journal[u][i].type = "referral" => referrer[journal[u][i].buyer] = u

\* What the referral entries of u add up to.
Referrals(u) == {i \in 1 .. Len(journal[u]) : journal[u][i].type = "referral"}
Earned(u) == SumFunctionOnSet([i \in Referrals(u) |-> journal[u][i].amount], Referrals(u))

\* What calls under way have credited to u and will still accrue.
Accruing(u) == {p \in Caller : jobs[p].step = "accrue" /\ jobs[p].referrer = u}
Unaccrued(u) == SumFunctionOnSet([p \in Accruing(u) |-> jobs[p].amount], Accruing(u))

\* The commission account never runs ahead of the credits in the journal,
\* counting what calls under way have credited and will still accrue.
\* (It may stay behind for good when the server stops in between.)
CommissionBacked == \A u \in User : commission[u] + Unaccrued(u) <= Earned(u)

\* A user keeps the first referrer an invite code bound, and nobody is their
\* own referrer.
KeepsReferrer ==
  \A u \in User :
    /\ referrer[u] # NoUser => referrer'[u] = referrer[u]
    /\ referrer'[u] # u
ReferrerFixed == [][KeepsReferrer]_accountVars
=============================================================================
