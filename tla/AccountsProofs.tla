---------------------------- MODULE AccountsProofs ----------------------------
(***************************************************************************)
(* The theorems of Accounts: types, that the journal accounts for every    *)
(* balance, that a referral credit reaches the buyer's referrer, that a     *)
(* bound referrer stays, and that the commission accounts never run ahead   *)
(* of the journal, for any users, callers, amounts and journals.  The last  *)
(* compares two sums over finite sets; the lemmas about SumFunctionOnSet    *)
(* come by induction over the subsets of a set, from the well-foundedness   *)
(* of the natural numbers.                                                  *)
(***************************************************************************)
EXTENDS Accounts, FiniteSets, FiniteSetTheorems, WellFoundedInduction, TLAPS

\* Nobody is bound to themselves: BindReferrer looks the code up with id != u.
NoSelfReferral == \A u \in User : referrer[u] # u

\* What a call read about its buyer's referrer is still true while it runs.
JobsCurrent ==
  \A p \in Caller : jobs[p] # Idle => referrer[jobs[p].buyer] = jobs[p].referrer

\* A referral entry names its buyer.
CreditsNameBuyers ==
  \A u \in User : \A i \in 1 .. Len(journal[u]) :
    journal[u][i].type = "referral" => journal[u][i].buyer \in User

\* The inductive invariant: CreditedToReferrer alone is not inductive, because
\* a credit uses a referrer its request read earlier; JobsCurrent carries it.
AccountsInv ==
  /\ AccountsTypeOK
  /\ JournalReconciles
  /\ NoSelfReferral
  /\ JobsCurrent
  /\ CreditsNameBuyers
  /\ CreditedToReferrer

-----------------------------------------------------------------------------
\* The commission on a positive amount is a natural number.
LEMMA CommissionNat ==
  ASSUME NEW a \in Int, a > 0
  PROVE  Commission(a) \in Nat
  BY DEF Commission

\* What Post does to the journals: one entry at the end of one of them.
LEMMA PostStep ==
  ASSUME AccountsTypeOK, NEW u \in User, NEW typ \in EntryType, NEW a \in Int,
         NEW o \in Order \cup {NoOrder}, NEW b \in User \cup {NoUser},
         Post(u, typ, a, o, b)
  PROVE  /\ balance' \in [User -> Int]
         /\ journal' \in [User -> Seq(Entry)]
         /\ balance'[u] = balance[u] + a
         /\ Len(journal'[u]) = Len(journal[u]) + 1
         /\ \A i \in 1 .. Len(journal[u]) : journal'[u][i] = journal[u][i]
         /\ journal'[u][Len(journal[u]) + 1] =
              [type |-> typ, amount |-> a, balance |-> balance[u] + a,
               order |-> o, buyer |-> b]
         /\ \A v \in User \ {u} : balance'[v] = balance[v] /\ journal'[v] = journal[v]
<1> DEFINE e == [type |-> typ, amount |-> a, balance |-> balance[u] + a,
                 order |-> o, buyer |-> b]
<1>1. /\ balance' = [balance EXCEPT ![u] = @ + a]
      /\ journal' = [journal EXCEPT ![u] = Append(@, e)]
  BY DEF Post
<1>2. balance \in [User -> Int] /\ journal \in [User -> Seq(Entry)]
  BY DEF AccountsTypeOK
<1>3. e \in Entry
  BY <1>2 DEF Entry
<1> HIDE DEF e
<1>4. journal[u] \in Seq(Entry) /\ journal'[u] = Append(journal[u], e)
  BY <1>1, <1>2
<1>5. journal'[u] \in Seq(Entry)
  BY <1>3, <1>4
<1>6. journal' \in [User -> Seq(Entry)]
  BY <1>1, <1>2, <1>4, <1>5
<1>7. balance' \in [User -> Int] /\ balance'[u] = balance[u] + a
  BY <1>1, <1>2
<1>8. /\ Len(journal'[u]) = Len(journal[u]) + 1
      /\ \A i \in 1 .. Len(journal[u]) : journal'[u][i] = journal[u][i]
      /\ journal'[u][Len(journal[u]) + 1] = e
  BY <1>3, <1>4
<1>9. \A v \in User \ {u} : balance'[v] = balance[v] /\ journal'[v] = journal[v]
  BY <1>1, <1>2
<1> QED
  BY <1>6, <1>7, <1>8, <1>9 DEF e

\* A posted entry keeps every journal reconciled with its balance.
LEMMA PostReconciles ==
  ASSUME AccountsTypeOK, JournalReconciles, NEW u \in User, NEW typ \in EntryType,
         NEW a \in Int, NEW o \in Order \cup {NoOrder}, NEW b \in User \cup {NoUser},
         Post(u, typ, a, o, b)
  PROVE  JournalReconciles'
<1> DEFINE e == [type |-> typ, amount |-> a, balance |-> balance[u] + a,
                 order |-> o, buyer |-> b]
<1>1. balance[u] \in Int /\ Opening[u] \in Int /\ Len(journal[u]) \in Nat
  BY AccountsAssumption DEF AccountsTypeOK
<1>2. PICK n \in Nat : n = Len(journal[u])
  BY <1>1
<1> HIDE DEF e
<1>3. /\ balance'[u] = balance[u] + a
      /\ Len(journal'[u]) = n + 1
      /\ \A i \in 1 .. n : journal'[u][i] = journal[u][i]
      /\ journal'[u][n + 1] = e
      /\ \A v \in User \ {u} : balance'[v] = balance[v] /\ journal'[v] = journal[v]
  <2>1. /\ balance'[u] = balance[u] + a
        /\ Len(journal'[u]) = Len(journal[u]) + 1
        /\ \A i \in 1 .. Len(journal[u]) : journal'[u][i] = journal[u][i]
        /\ journal'[u][Len(journal[u]) + 1] =
             [type |-> typ, amount |-> a, balance |-> balance[u] + a,
              order |-> o, buyer |-> b]
        /\ \A v \in User \ {u} : balance'[v] = balance[v] /\ journal'[v] = journal[v]
    BY PostStep, SMTT(30)
  <2>2. journal'[u][Len(journal[u]) + 1] = e
    BY <2>1 DEF e
  <2> QED
    BY <1>2, <2>1, <2>2
<1>4. /\ \A i \in 1 .. n : journal[u][i].balance = Before(u, i) + journal[u][i].amount
      /\ balance[u] = Before(u, n + 1)
  BY <1>2 DEF JournalReconciles
<1>5. e.amount = a /\ e.balance = balance[u] + a
  BY DEF e
<1>6. ASSUME NEW i \in 1 .. n + 1
      PROVE  Before(u, i)' = Before(u, i)
  <2>1. CASE i = 1
    BY <2>1 DEF Before
  <2>2. CASE i # 1
    <3>1. i - 1 \in 1 .. n
      BY <1>2, <2>2
    <3> QED
      BY <1>3, <2>2, <3>1 DEF Before
  <2> QED
    BY <2>1, <2>2
<1>7. Before(u, n + 2)' = balance[u] + a
  <2>1. (n + 2) - 1 = n + 1 /\ n + 2 # 1
    BY <1>2
  <2> QED
    BY <1>3, <1>5, <2>1 DEF Before
<1>8. ASSUME NEW i \in 1 .. n + 1
      PROVE  journal'[u][i].balance = Before(u, i)' + journal'[u][i].amount
  <2>1. CASE i \in 1 .. n
    BY <1>3, <1>4, <1>6, <2>1
  <2>2. CASE i = n + 1
    BY <1>1, <1>2, <1>3, <1>4, <1>5, <1>6, <2>2
  <2> QED
    BY <1>2, <2>1, <2>2
<1>9. balance'[u] = Before(u, Len(journal[u]) + 1)'
  <2>1. Len(journal'[u]) + 1 = n + 2
    BY <1>2, <1>3
  <2> QED
    BY <1>3, <1>7, <2>1 DEF Before
<1>10. ASSUME NEW v \in User \ {u}
       PROVE  /\ \A i \in 1 .. Len(journal'[v]) :
                   journal'[v][i].balance = Before(v, i)' + journal'[v][i].amount
              /\ balance'[v] = Before(v, Len(journal[v]) + 1)'
  BY <1>3 DEF JournalReconciles, Before
<1> QED
  BY <1>3, <1>8, <1>9, <1>10 DEF JournalReconciles

\* An entry that is not a referral keeps the facts about referral entries, and
\* so does one for the buyer's own referrer.
LEMMA PostCredits ==
  ASSUME AccountsTypeOK, CreditsNameBuyers, CreditedToReferrer, UNCHANGED referrer,
         NEW u \in User, NEW typ \in EntryType, NEW a \in Int,
         NEW o \in Order \cup {NoOrder}, NEW b \in User \cup {NoUser},
         typ = "referral" => b \in User /\ referrer[b] = u,
         Post(u, typ, a, o, b)
  PROVE  CreditsNameBuyers' /\ CreditedToReferrer'
<1> DEFINE e == [type |-> typ, amount |-> a, balance |-> balance[u] + a,
                 order |-> o, buyer |-> b]
<1>1. Len(journal[u]) \in Nat
  BY DEF AccountsTypeOK
<1>2. /\ Len(journal'[u]) = Len(journal[u]) + 1
      /\ \A i \in 1 .. Len(journal[u]) : journal'[u][i] = journal[u][i]
      /\ journal'[u][Len(journal[u]) + 1] = e
      /\ \A v \in User \ {u} : journal'[v] = journal[v]
  BY PostStep
<1>3. e.type = typ /\ e.buyer = b
  OBVIOUS
<1> HIDE DEF e
<1>4. ASSUME NEW v \in User, NEW i \in 1 .. Len(journal'[v]),
             journal'[v][i].type = "referral"
      PROVE  journal'[v][i].buyer \in User /\ referrer[journal'[v][i].buyer] = v
  <2>1. CASE v # u
    BY <1>2, <1>4, <2>1 DEF CreditsNameBuyers, CreditedToReferrer
  <2>2. CASE v = u /\ i = Len(journal[u]) + 1
    BY <1>2, <1>3, <1>4, <2>2
  <2>3. CASE v = u /\ i # Len(journal[u]) + 1
    <3>1. i \in 1 .. Len(journal[u])
      BY <1>1, <1>2, <2>3
    <3> QED
      BY <1>2, <1>4, <2>3, <3>1 DEF CreditsNameBuyers, CreditedToReferrer
  <2> QED
    BY <2>1, <2>2, <2>3
<1> QED
  BY <1>4 DEF CreditsNameBuyers, CreditedToReferrer

-----------------------------------------------------------------------------
\* A charge, a refund or a zero entry keeps the inductive invariant.
LEMMA AdjustPreserves ==
  ASSUME AccountsInv, NEW u \in User, NEW a \in Int, NEW typ \in {"consume", "refund"},
         NEW o \in Order \cup {NoOrder}, AdjustBalance(u, a, typ, o)
  PROVE  AccountsInv'
<1>1. Post(u, typ, a, o, NoUser) /\ UNCHANGED <<referrer, commission, jobs>>
  BY DEF AdjustBalance
<1>2. typ \in EntryType /\ typ # "referral"
  BY DEF EntryType
<1>3. AccountsTypeOK'
  BY <1>1, <1>2, PostStep DEF AccountsInv, AccountsTypeOK
<1>4. JournalReconciles'
  BY <1>1, <1>2, PostReconciles DEF AccountsInv
<1>5. CreditsNameBuyers' /\ CreditedToReferrer'
  BY <1>1, <1>2, PostCredits DEF AccountsInv
<1>6. NoSelfReferral' /\ JobsCurrent'
  BY <1>1 DEF AccountsInv, NoSelfReferral, JobsCurrent
<1> QED
  BY <1>3, <1>4, <1>5, <1>6 DEF AccountsInv

\* Binding a referrer disturbs neither credits nor calls under way: both only
\* speak of buyers who are bound already.
LEMMA BindPreserves ==
  ASSUME AccountsInv, NEW u \in User, NEW r \in User, BindReferrer(u, r)
  PROVE  AccountsInv'
<1>1. /\ r # u /\ referrer[u] = NoUser
      /\ referrer' = [referrer EXCEPT ![u] = r]
      /\ UNCHANGED <<balance, journal, commission, jobs>>
  BY DEF BindReferrer
<1>2. AccountsTypeOK' /\ JournalReconciles' /\ NoSelfReferral' /\ CreditsNameBuyers'
  BY <1>1 DEF AccountsInv, AccountsTypeOK, JournalReconciles, NoSelfReferral,
       CreditsNameBuyers, Before
<1>3. \A v \in User : referrer[v] # NoUser => referrer'[v] = referrer[v]
  BY <1>1 DEF AccountsInv, AccountsTypeOK
<1>4. JobsCurrent'
  <2>1. \A p \in Caller : jobs[p] # Idle => jobs[p] \in Job
    BY DEF AccountsInv, AccountsTypeOK
  <2>2. \A p \in Caller : jobs[p] # Idle =>
          jobs[p].buyer \in User /\ jobs[p].referrer \in User
    BY <2>1 DEF Job
  <2> QED
    BY <1>1, <1>3, <2>2, AccountsAssumption DEF AccountsInv, JobsCurrent
<1>5. CreditedToReferrer'
  BY <1>1, <1>3, AccountsAssumption
  DEF AccountsInv, CreditsNameBuyers, CreditedToReferrer
<1> QED
  BY <1>2, <1>4, <1>5 DEF AccountsInv

\* The first call of ProcessOrderCommission keeps it: what it reads is current.
LEMMA StartPreserves ==
  ASSUME AccountsInv, NEW p \in Caller, NEW b \in User, NEW o \in Order,
         NEW a \in Int, StartCommission(p, b, o, a)
  PROVE  AccountsInv'
<1> DEFINE j == [step |-> "credit", buyer |-> b, referrer |-> referrer[b],
                 order |-> o, amount |-> Commission(a)]
<1>1. /\ jobs' = [jobs EXCEPT ![p] = j]
      /\ UNCHANGED <<balance, journal, referrer, commission>>
      /\ referrer[b] # NoUser /\ a > 0
  BY DEF StartCommission, CommissionDue
<1>2. j \in Job
  BY <1>1, CommissionNat DEF AccountsInv, AccountsTypeOK, Job
<1>3. j.buyer = b /\ j.referrer = referrer[b]
  OBVIOUS
<1> HIDE DEF j
<1>4. AccountsTypeOK'
  BY <1>1, <1>2 DEF AccountsInv, AccountsTypeOK
<1>5. JobsCurrent'
  BY <1>1, <1>3 DEF AccountsInv, AccountsTypeOK, JobsCurrent
<1> QED
  BY <1>1, <1>4, <1>5 DEF AccountsInv, JournalReconciles, NoSelfReferral,
    CreditsNameBuyers, CreditedToReferrer, Before

\* The credit keeps it: JobsCurrent makes the referrer the buyer's own.
LEMMA CreditPreserves ==
  ASSUME AccountsInv, NEW p \in Caller, Credit(p)
  PROVE  AccountsInv'
<1> DEFINE j == jobs[p]
<1>1. /\ j.step = "credit"
      /\ Post(j.referrer, "referral", j.amount, j.order, j.buyer)
      /\ jobs' = [jobs EXCEPT ![p].step = "accrue"]
      /\ UNCHANGED <<referrer, commission>>
  BY DEF Credit
<1>2. j \in Job /\ j # Idle
  BY <1>1 DEF AccountsInv, AccountsTypeOK, Idle
<1>3. /\ j.referrer \in User /\ j.amount \in Int /\ j.order \in Order
      /\ j.buyer \in User /\ "referral" \in EntryType
  BY <1>2 DEF Job, EntryType
<1>4. referrer[j.buyer] = j.referrer
  BY <1>2 DEF AccountsInv, JobsCurrent
<1>5. [j EXCEPT !.step = "accrue"] \in Job
  BY <1>2 DEF Job
<1>6. AccountsTypeOK'
  <2>1. balance' \in [User -> Int] /\ journal' \in [User -> Seq(Entry)]
    BY <1>1, <1>3, PostStep DEF AccountsInv
  <2>2. jobs' = [jobs EXCEPT ![p] = [j EXCEPT !.step = "accrue"]]
    BY <1>1 DEF AccountsInv, AccountsTypeOK
  <2> QED
    BY <1>1, <1>5, <2>1, <2>2 DEF AccountsInv, AccountsTypeOK
<1>7. JournalReconciles'
  BY <1>1, <1>3, PostReconciles DEF AccountsInv
<1>8. CreditsNameBuyers' /\ CreditedToReferrer'
  BY <1>1, <1>3, <1>4, PostCredits DEF AccountsInv
<1>9. JobsCurrent'
  <2>1. jobs'[p].buyer = j.buyer /\ jobs'[p].referrer = j.referrer
    BY <1>1, <1>2 DEF AccountsInv, AccountsTypeOK, Job
  <2>2. \A q \in Caller \ {p} : jobs'[q] = jobs[q]
    BY <1>1 DEF AccountsInv, AccountsTypeOK
  <2> QED
    BY <1>1, <1>4, <2>1, <2>2 DEF AccountsInv, JobsCurrent
<1>10. NoSelfReferral'
  BY <1>1 DEF AccountsInv, NoSelfReferral
<1> QED
  BY <1>6, <1>7, <1>8, <1>9, <1>10 DEF AccountsInv

\* The accrual, an error and a crash end calls and leave balances alone.
LEMMA EndPreserves ==
  ASSUME AccountsInv, CrashJobs \/ \E p \in Caller : Accrue(p) \/ Abandon(p)
  PROVE  AccountsInv'
<1>1. /\ UNCHANGED <<balance, journal, referrer>>
      /\ commission' \in [User -> Nat]
      /\ jobs' \in [Caller -> Job \cup {Idle}]
      /\ \A q \in Caller : jobs'[q] # Idle => jobs'[q] = jobs[q]
  <2>1. CASE CrashJobs
    BY <2>1 DEF CrashJobs, AccountsInv, AccountsTypeOK
  <2>2. ASSUME NEW p \in Caller, Accrue(p)
        PROVE  <1>1!1 /\ <1>1!2 /\ <1>1!3 /\ <1>1!4
    <3>1. jobs[p].step = "accrue" /\ jobs[p] \in Job \cup {Idle}
      BY <2>2 DEF Accrue, AccountsInv, AccountsTypeOK
    <3>2. jobs[p].referrer \in User /\ jobs[p].amount \in Nat
      BY <3>1 DEF Job, Idle
    <3> QED
      BY <2>2, <3>2 DEF Accrue, AccountsInv, AccountsTypeOK
  <2>3. ASSUME NEW p \in Caller, Abandon(p)
        PROVE  <1>1!1 /\ <1>1!2 /\ <1>1!3 /\ <1>1!4
    BY <2>3 DEF Abandon, AccountsInv, AccountsTypeOK
  <2> QED
    BY <2>1, <2>2, <2>3
<1>2. AccountsTypeOK' /\ JobsCurrent'
  BY <1>1 DEF AccountsInv, AccountsTypeOK, JobsCurrent
<1>3. JournalReconciles'
  BY <1>1 DEF AccountsInv, JournalReconciles, Before
<1>4. CreditsNameBuyers' /\ CreditedToReferrer'
  BY <1>1 DEF AccountsInv, CreditsNameBuyers, CreditedToReferrer
<1> QED
  BY <1>1, <1>2, <1>3, <1>4 DEF AccountsInv, NoSelfReferral

-----------------------------------------------------------------------------
\* Users start without journal entries, referrers and calls under way.
LEMMA AccountsInvInit ==
  AccountsInit => AccountsInv
<1> SUFFICES ASSUME AccountsInit PROVE AccountsInv
  OBVIOUS
<1>1. \A u \in User : journal[u] = <<>> /\ balance[u] = Opening[u]
  BY DEF AccountsInit
<1>2. AccountsTypeOK
  BY AccountsAssumption DEF AccountsInit, AccountsTypeOK
<1>3. JournalReconciles
  <2>1. ASSUME NEW u \in User
        PROVE  Len(journal[u]) = 0 /\ balance[u] = Before(u, 1)
    BY <1>1 DEF Before
  <2>2. ASSUME NEW u \in User
        PROVE  /\ 1 .. Len(journal[u]) = {}
               /\ balance[u] = Before(u, Len(journal[u]) + 1)
    <3>1. Len(journal[u]) + 1 = 1
      BY <2>1
    <3> QED
      BY <2>1, <3>1
  <2> QED
    BY <2>2 DEF JournalReconciles
<1>4. CreditsNameBuyers /\ CreditedToReferrer
  BY <1>1 DEF CreditsNameBuyers, CreditedToReferrer
<1>5. NoSelfReferral /\ JobsCurrent
  BY AccountsAssumption DEF AccountsInit, NoSelfReferral, JobsCurrent
<1> QED
  BY <1>2, <1>3, <1>4, <1>5 DEF AccountsInv

\* Every call of the store, and a crash, keeps the inductive invariant.
LEMMA AccountsInvNext ==
  AccountsInv /\ [AccountsNext]_accountVars => AccountsInv'
<1> SUFFICES ASSUME AccountsInv, [AccountsNext]_accountVars PROVE AccountsInv'
  OBVIOUS
<1>1. ASSUME NEW u \in User, NEW a \in Amounts, NEW o \in Order \cup {NoOrder},
             AdjustBalance(u, a, IF a > 0 THEN "refund" ELSE "consume", o)
      PROVE  AccountsInv'
  <2>1. a \in Int
    BY AccountsAssumption
  <2>2. CASE a > 0
    BY <1>1, <2>1, <2>2, AdjustPreserves
  <2>3. CASE ~(a > 0)
    BY <1>1, <2>1, <2>3, AdjustPreserves
  <2> QED
    BY <2>2, <2>3
<1>2. ASSUME NEW u \in User, NEW r \in User, BindReferrer(u, r)
      PROVE  AccountsInv'
  BY <1>2, BindPreserves
<1>3. ASSUME NEW p \in Caller, NEW b \in User, NEW o \in Order, NEW a \in Amounts,
             StartCommission(p, b, o, -a)
      PROVE  AccountsInv'
  <2>1. -a \in Int
    BY AccountsAssumption
  <2> QED
    BY <1>3, <2>1, StartPreserves
<1>4. ASSUME NEW p \in Caller, Credit(p)
      PROVE  AccountsInv'
  BY <1>4, CreditPreserves
<1>5. ASSUME CrashJobs \/ \E p \in Caller : Accrue(p) \/ Abandon(p)
      PROVE  AccountsInv'
  BY <1>5, EndPreserves
<1>6. CASE UNCHANGED accountVars
  BY <1>6 DEF accountVars, AccountsInv, AccountsTypeOK, JournalReconciles,
    NoSelfReferral, JobsCurrent, CreditsNameBuyers, CreditedToReferrer, Before
<1> QED
  BY <1>1, <1>2, <1>3, <1>4, <1>5, <1>6 DEF AccountsNext

\* The inductive invariant holds of every state.
THEOREM AccountsInvariant == AccountsSpec => []AccountsInv
  BY AccountsInvInit, AccountsInvNext, PTL DEF AccountsSpec

\* Balances, journals, referrers, commissions and calls keep their kinds.
THEOREM AccountsTypeCorrect == AccountsSpec => []AccountsTypeOK
<1>1. AccountsInv => AccountsTypeOK
  BY DEF AccountsInv
<1> QED
  BY <1>1, AccountsInvariant, PTL

\* However requests interleave, a user's journal explains their balance.
THEOREM JournalExplainsBalance == AccountsSpec => []JournalReconciles
<1>1. AccountsInv => JournalReconciles
  BY DEF AccountsInv
<1> QED
  BY <1>1, AccountsInvariant, PTL

\* A commission is credited to the referrer of the buyer it is for, although
\* it is credited calls after the referrer was read.
THEOREM CreditsReachReferrer == AccountsSpec => []CreditedToReferrer
<1>1. AccountsInv => CreditedToReferrer
  BY DEF AccountsInv
<1> QED
  BY <1>1, AccountsInvariant, PTL

\* The first referrer an invite code binds is never replaced.
THEOREM ReferrerStays == AccountsSpec => ReferrerFixed
<1>1. AccountsInv /\ [AccountsNext]_accountVars => [KeepsReferrer]_accountVars
  <2> SUFFICES ASSUME AccountsInv, AccountsNext PROVE KeepsReferrer
    BY DEF accountVars
  <2>1. ASSUME NEW u \in User, NEW r \in User, BindReferrer(u, r)
        PROVE  KeepsReferrer
    BY <2>1 DEF BindReferrer, KeepsReferrer, AccountsInv, AccountsTypeOK, NoSelfReferral
  <2>2. CASE UNCHANGED referrer
    BY <2>2 DEF KeepsReferrer, AccountsInv, NoSelfReferral
  <2> QED
    BY <2>1, <2>2
    DEF AccountsNext, AdjustBalance, StartCommission, Credit, Accrue, Abandon, CrashJobs
<1> QED
  BY <1>1, AccountsInvariant, PTL DEF AccountsSpec, ReferrerFixed

-----------------------------------------------------------------------------
\* Induction over the natural numbers, for a set instead of a predicate: a
\* least number outside the set has a predecessor in it.
LEMMA NatSet ==
  ASSUME NEW T, 0 \in T, \A n \in Nat : n \in T => n + 1 \in T
  PROVE  Nat \subseteq T
<1>1. PICK R : R = OpToRel(<, Nat)
  OBVIOUS
<1>2. IsWellFoundedOn(R, Nat)
  BY <1>1, NatLessThanWellFounded
<1>3. \A m, n \in Nat : m < n => <<m, n>> \in R
  BY <1>1 DEF OpToRel
<1>4. SUFFICES ASSUME Nat \ T # {} PROVE FALSE
  OBVIOUS
<1>5. PICK x \in Nat \ T : \A y \in Nat \ T : ~ (<<y, x>> \in R)
  BY <1>2, <1>4, WFMin
<1>6. x - 1 \in Nat /\ x - 1 < x /\ (x - 1) + 1 = x
  BY <1>5
<1> QED
  BY <1>3, <1>5, <1>6

\* A fact about the subsets of a finite set that holds of a set when it holds
\* of the sets with one element less holds of all: T is where it holds.
LEMMA SubsetsIn ==
  ASSUME NEW S, IsFiniteSet(S), NEW T, {} \in T,
         \A U \in SUBSET S : U # {} /\ (\A x \in U : U \ {x} \in T) => U \in T
  PROVE  SUBSET S \subseteq T
<1> DEFINE Upto == {n \in Nat : \A U \in SUBSET S : Cardinality(U) <= n => U \in T}
<1>1. \A U \in SUBSET S : IsFiniteSet(U) /\ Cardinality(U) \in Nat
  BY FS_Subset, FS_CardinalityType
<1>2. 0 \in Upto
  BY <1>1, FS_EmptySet
<1>3. ASSUME NEW n \in Nat, n \in Upto, NEW U \in SUBSET S, Cardinality(U) <= n + 1, U # {}
      PROVE  \A x \in U : U \ {x} \in T
  <2>1. ASSUME NEW x \in U
        PROVE  Cardinality(U \ {x}) <= n
    <3>1. Cardinality(U \ {x}) = Cardinality(U) - 1
      BY <1>1, FS_RemoveElement
    <3> QED
      BY <1>1, <1>3, <3>1
  <2> QED
    BY <1>3, <2>1
<1>4. ASSUME NEW n \in Nat, n \in Upto
      PROVE  n + 1 \in Upto
  <2>1. ASSUME NEW U \in SUBSET S, Cardinality(U) <= n + 1
        PROVE  U \in T
    <3>1. CASE U = {}
      BY <3>1
    <3>2. CASE U # {}
      <4>1. \A x \in U : U \ {x} \in T
        BY <1>3, <1>4, <2>1, <3>2
      <4> QED
        BY <3>2, <4>1
    <3> QED
      BY <3>1, <3>2
  <2> QED
    BY <2>1
<1> HIDE DEF Upto
<1>5. Nat \subseteq Upto
  BY <1>2, <1>4, NatSet
<1> QED
  BY <1>1, <1>5 DEF Upto

-----------------------------------------------------------------------------
\* The recursive function that adds up w over the subsets of S.
IsSum(f, w, S) ==
  f = [s \in SUBSET S |-> IF s = {} THEN 0
                          ELSE LET x == CHOOSE x \in s : TRUE
                               IN  w[x] + f[s \ {x}]]

LEMMA SumIs ==
  ASSUME NEW w, NEW S
  PROVE  SumFunctionOnSet(w, S) = (CHOOSE f : IsSum(f, w, S))[S]
  BY DEF IsSum, SumFunctionOnSet, FoldFunctionOnSet, MapThenFoldSet

\* There is such a function.
LEMMA SumExists ==
  ASSUME NEW w, NEW S, IsFiniteSet(S)
  PROVE  \E f : IsSum(f, w, S)
<1> DEFINE Step(f) == [s \in SUBSET S |-> IF s = {} THEN 0
                          ELSE LET x == CHOOSE x \in s : TRUE
                               IN  w[x] + f[s \ {x}]]
           Upto == {n \in Nat : \E f : \A s \in SUBSET S :
                                  Cardinality(s) <= n => f[s] = Step(f)[s]}
<1>1. \A U \in SUBSET S : IsFiniteSet(U) /\ Cardinality(U) \in Nat
  BY FS_Subset, FS_CardinalityType
<1>2. ASSUME NEW f
      PROVE  /\ Step(f) = [s \in SUBSET S |-> Step(f)[s]]
             /\ Step(f)[{}] = 0
             /\ \A s \in SUBSET S : s # {} =>
                  Step(f)[s] = w[CHOOSE x \in s : TRUE] + f[s \ {CHOOSE x \in s : TRUE}]
  OBVIOUS
<1>3. \A s \in SUBSET S : s # {} => (CHOOSE x \in s : TRUE) \in s
  OBVIOUS
<1> HIDE DEF Step
<1>4. 0 \in Upto
  <2>1. \A s \in SUBSET S : Cardinality(s) <= 0 => s = {}
    BY <1>1, FS_EmptySet
  <2>2. [s \in SUBSET S |-> 0][{}] = Step([s \in SUBSET S |-> 0])[{}]
    BY <1>2
  <2>3. \A s \in SUBSET S : Cardinality(s) <= 0 =>
          [t \in SUBSET S |-> 0][s] = Step([t \in SUBSET S |-> 0])[s]
    BY <2>1, <2>2
  <2> QED
    BY <2>3
<1>5. ASSUME NEW n \in Nat, n \in Upto
      PROVE  n + 1 \in Upto
  <2>1. PICK f : \A s \in SUBSET S : Cardinality(s) <= n => f[s] = Step(f)[s]
    BY <1>5
  <2>2. PICK g : g = Step(f)
    OBVIOUS
  <2>3. ASSUME NEW s \in SUBSET S, Cardinality(s) <= n + 1, s # {}
        PROVE  g[s] = Step(g)[s]
    <3>1. PICK x \in s : x = CHOOSE y \in s : TRUE
      BY <1>3, <2>3
    <3>2. Cardinality(s \ {x}) = Cardinality(s) - 1
      BY <1>1, FS_RemoveElement
    <3>3. Cardinality(s \ {x}) <= n
      BY <1>1, <2>3, <3>2
    <3>4. f[s \ {x}] = g[s \ {x}]
      BY <2>1, <2>2, <3>3
    <3>5. \A h : Step(h)[s] = w[x] + h[s \ {x}]
      BY <1>2, <2>3, <3>1
    <3>6. g[s] = w[x] + f[s \ {x}] /\ Step(g)[s] = w[x] + g[s \ {x}]
      BY <2>2, <3>5
    <3> QED
      BY <3>4, <3>6
  <2>4. g[{}] = Step(g)[{}]
    BY <1>2, <2>2
  <2> QED
    BY <2>3, <2>4
<1> HIDE DEF Upto
<1>6. Cardinality(S) \in Upto
  BY <1>1, <1>4, <1>5, NatSet
<1>7. \A s \in SUBSET S : Cardinality(s) <= Cardinality(S)
  BY FS_Subset
<1>8. PICK f : \A s \in SUBSET S : f[s] = Step(f)[s]
  BY <1>6, <1>7 DEF Upto
<1>9. PICK g : g = Step(f)
  OBVIOUS
<1>10. ASSUME NEW s \in SUBSET S, s # {}
       PROVE  g[s] = Step(g)[s]
  <2>1. PICK x \in s : x = CHOOSE y \in s : TRUE
    BY <1>3, <1>10
  <2>2. f[s \ {x}] = g[s \ {x}]
    BY <1>8, <1>9
  <2>3. \A h : Step(h)[s] = w[x] + h[s \ {x}]
    BY <1>2, <1>10, <2>1
  <2>4. g[s] = w[x] + f[s \ {x}] /\ Step(g)[s] = w[x] + g[s \ {x}]
    BY <1>9, <2>3
  <2> QED
    BY <2>2, <2>4
<1>11. g[{}] = Step(g)[{}]
  BY <1>2, <1>9
<1>12. \A s \in SUBSET S : g[s] = Step(g)[s]
  BY <1>10, <1>11
<1>13. g = [s \in SUBSET S |-> Step(f)[s]] /\ Step(g) = [s \in SUBSET S |-> Step(g)[s]]
  BY <1>2, <1>9
<1>14. g = Step(g)
  BY <1>9, <1>12, <1>13
<1> QED
  BY <1>14 DEF IsSum, Step

\* f adds up w over the subsets of S, one chosen element at a time.
AddsUp(f, w, S) ==
  /\ f[{}] = 0
  /\ \A s \in SUBSET S : s # {} =>
       \E x \in s : x = (CHOOSE y \in s : TRUE) /\ f[s] = w[x] + f[s \ {x}]

\* The sum of a finite set is what such a function has there.
LEMMA SumAt ==
  ASSUME NEW w, NEW S, IsFiniteSet(S)
  PROVE  \E f : f[S] = SumFunctionOnSet(w, S) /\ AddsUp(f, w, S)
<1>1. PICK f : f = CHOOSE g : IsSum(g, w, S)
  OBVIOUS
<1>2. IsSum(f, w, S)
  BY <1>1, SumExists
<1>3. f[S] = SumFunctionOnSet(w, S)
  BY <1>1, SumIs
<1>4. f[{}] = 0
  BY <1>2 DEF IsSum
<1>5. ASSUME NEW s \in SUBSET S, s # {}
      PROVE  \E x \in s : x = (CHOOSE y \in s : TRUE) /\ f[s] = w[x] + f[s \ {x}]
  <2>1. f[s] = w[CHOOSE x \in s : TRUE] + f[s \ {CHOOSE x \in s : TRUE}]
    BY <1>2, <1>5 DEF IsSum
  <2>2. (CHOOSE x \in s : TRUE) \in s
    BY <1>5
  <2> QED
    BY <2>1, <2>2
<1>6. AddsUp(f, w, S)
  BY <1>4, <1>5 DEF AddsUp
<1> QED
  BY <1>3, <1>6

\* The sum of nothing.
LEMMA SumEmpty ==
  ASSUME NEW w
  PROVE  SumFunctionOnSet(w, {}) = 0
  BY SumAt, FS_EmptySet DEF AddsUp

\* Functions that agree on a finite set have one sum there, wherever the set
\* the recursive function is defined on ends.
LEMMA SumsAgree ==
  ASSUME NEW w, NEW v, NEW S, IsFiniteSet(S), \A x \in S : w[x] = v[x],
         NEW f, AddsUp(f, v, S)
  PROVE  f[S] = SumFunctionOnSet(w, S)
<1>1. PICK g : g[S] = SumFunctionOnSet(w, S) /\ AddsUp(g, w, S)
  BY SumAt
<1> DEFINE T == {U \in SUBSET S : f[U] = g[U]}
<1>2. {} \in T
  BY <1>1 DEF AddsUp
<1>3. ASSUME NEW U \in SUBSET S, U # {}, \A x \in U : U \ {x} \in T
      PROVE  U \in T
  <2>1. PICK x \in U : x = (CHOOSE y \in U : TRUE) /\ f[U] = v[x] + f[U \ {x}]
    BY <1>3 DEF AddsUp
  <2>2. g[U] = w[x] + g[U \ {x}]
    BY <1>1, <1>3, <2>1 DEF AddsUp
  <2>3. f[U \ {x}] = g[U \ {x}] /\ w[x] = v[x]
    BY <1>3
  <2> QED
    BY <2>1, <2>2, <2>3
<1> HIDE DEF T
<1>4. S \in T
  BY <1>2, <1>3, SubsetsIn
<1> QED
  BY <1>1, <1>4 DEF T

\* Equal summands, equal sums.
LEMMA SumSame ==
  ASSUME NEW w, NEW v, NEW S, IsFiniteSet(S), \A x \in S : w[x] = v[x]
  PROVE  SumFunctionOnSet(w, S) = SumFunctionOnSet(v, S)
<1>1. PICK f : f[S] = SumFunctionOnSet(v, S) /\ AddsUp(f, v, S)
  BY SumAt
<1>2. f[S] = SumFunctionOnSet(w, S)
  BY <1>1, SumsAgree
<1> QED
  BY <1>1, <1>2

\* The sum of natural numbers is one.
LEMMA SumNat ==
  ASSUME NEW w, NEW S, IsFiniteSet(S), \A x \in S : w[x] \in Nat
  PROVE  SumFunctionOnSet(w, S) \in Nat
<1>1. PICK f : f[S] = SumFunctionOnSet(w, S) /\ AddsUp(f, w, S)
  BY SumAt
<1> DEFINE T == {U \in SUBSET S : f[U] \in Nat}
<1>2. {} \in T
  BY <1>1 DEF AddsUp
<1>3. ASSUME NEW U \in SUBSET S, U # {}, \A x \in U : U \ {x} \in T
      PROVE  U \in T
  <2>1. PICK x \in U : f[U] = w[x] + f[U \ {x}]
    BY <1>1, <1>3 DEF AddsUp
  <2>2. f[U \ {x}] \in Nat /\ w[x] \in Nat
    BY <1>3
  <2> QED
    BY <2>1, <2>2
<1> HIDE DEF T
<1>4. S \in T
  BY <1>2, <1>3, SubsetsIn
<1> QED
  BY <1>1, <1>4 DEF T

\* One more element adds its summand, whichever element the sum takes first.
LEMMA SumAdds ==
  ASSUME NEW w, NEW S, IsFiniteSet(S), NEW z, z \notin S,
         \A x \in S \cup {z} : w[x] \in Nat
  PROVE  SumFunctionOnSet(w, S \cup {z}) = SumFunctionOnSet(w, S) + w[z]
<1>1. PICK R : R = S \cup {z}
  OBVIOUS
<1>2. IsFiniteSet(R)
  BY <1>1, FS_AddElement
<1>3. PICK f : f[R] = SumFunctionOnSet(w, R) /\ AddsUp(f, w, R)
  BY <1>2, SumAt
<1> DEFINE T == {U \in SUBSET R : /\ f[U] \in Nat
                               /\ \A y \in U : f[U \ {y}] \in Nat /\ f[U] = w[y] + f[U \ {y}]}
<1>4. {} \in T
  BY <1>3 DEF AddsUp
<1>5. ASSUME NEW U \in SUBSET R, U # {}, \A x \in U : U \ {x} \in T
      PROVE  U \in T
  <2>1. PICK x \in U : f[U] = w[x] + f[U \ {x}]
    BY <1>3, <1>5 DEF AddsUp
  <2>2. f[U \ {x}] \in Nat /\ w[x] \in Nat
    BY <1>1, <1>5
  <2>3. ASSUME NEW y \in U, y # x
        PROVE  f[U] = w[y] + f[U \ {y}]
    <3>1. PICK Q : Q = U \ {x, y}
      OBVIOUS
    <3>2. Q = (U \ {x}) \ {y} /\ Q = (U \ {y}) \ {x}
      BY <3>1
    <3>3. f[U \ {x}] = w[y] + f[Q]
      BY <1>5, <2>3, <3>2
    <3>4. f[U \ {y}] = w[x] + f[Q] /\ f[U \ {y}] \in Nat
      BY <1>5, <2>3, <3>2
    <3>5. f[Q] \in Nat
      BY <1>5, <2>3, <3>2
    <3> QED
      BY <1>1, <2>1, <2>2, <3>3, <3>4, <3>5
  <2>4. f[U] \in Nat /\ \A y \in U : f[U \ {y}] \in Nat
    BY <1>5, <2>1, <2>2
  <2>5. \A y \in U : f[U] = w[y] + f[U \ {y}]
    BY <2>1, <2>3
  <2> QED
    BY <1>5, <2>4, <2>5
<1> HIDE DEF T
<1>6. R \in T
  BY <1>2, <1>4, <1>5, SubsetsIn
<1>7. f[R] = w[z] + f[R \ {z}] /\ R \ {z} = S
  BY <1>1, <1>6 DEF T
<1>8. AddsUp(f, w, S)
  BY <1>1, <1>3 DEF AddsUp
<1>9. f[S] = SumFunctionOnSet(w, S)
  BY <1>3, <1>8, SumsAgree
<1>10. SumFunctionOnSet(w, S) \in Nat /\ w[z] \in Nat
  BY SumNat
<1>11. SumFunctionOnSet(w, R) = SumFunctionOnSet(w, S) + w[z]
  <2>1. PICK a, b, c : a = f[R] /\ b = f[S] /\ c = w[z]
    OBVIOUS
  <2>2. f[R \ {z}] = b
    BY <1>7, <2>1
  <2>3. a = c + b
    BY <1>7, <2>1, <2>2
  <2>4. b \in Nat /\ c \in Nat
    BY <1>9, <1>10, <2>1
  <2>5. a = b + c
    BY <2>3, <2>4
  <2> QED
    BY <1>3, <1>9, <2>1, <2>5
<1> QED
  BY <1>1, <1>11

-----------------------------------------------------------------------------
\* A referral entry is never a charge.
CreditsAreGains ==
  \A u \in User : \A i \in Referrals(u) : journal[u][i].amount \in Nat

\* Only finitely many calls wait to accrue: each was started and credited.
FewAccruing == \A u \in User : IsFiniteSet(Accruing(u))

\* The inductive invariant of CommissionBacked: what is earned and what is
\* still owed are sums of natural numbers over finite sets.
BackedInv == AccountsInv /\ CreditsAreGains /\ FewAccruing /\ CommissionBacked

\* The two sums are natural numbers.
LEMMA SumsOfMoney ==
  ASSUME BackedInv, NEW u \in User
  PROVE  /\ commission[u] \in Nat /\ Earned(u) \in Nat /\ Unaccrued(u) \in Nat
         /\ IsFiniteSet(Referrals(u))
         /\ \A p \in Accruing(u) : jobs[p] \in Job
<1>1. commission[u] \in Nat /\ Len(journal[u]) \in Nat
  BY DEF BackedInv, AccountsInv, AccountsTypeOK
<1>2. IsFiniteSet(1 .. Len(journal[u]))
  BY <1>1, FS_Interval
<1>3. IsFiniteSet(Referrals(u))
  BY <1>2, FS_Subset DEF Referrals
<1>4. PICK w, R : R = Referrals(u) /\ w = [i \in R |-> journal[u][i].amount]
  OBVIOUS
<1>5. \A i \in R : w[i] \in Nat
  BY <1>4 DEF BackedInv, CreditsAreGains
<1>6. SumFunctionOnSet(w, R) \in Nat
  BY <1>3, <1>4, <1>5, SumNat
<1>7. Earned(u) \in Nat
  BY <1>4, <1>6 DEF Earned
<1>8. \A p \in Accruing(u) : jobs[p] \in Job
  BY DEF BackedInv, AccountsInv, AccountsTypeOK, Accruing, Idle
<1>9. PICK v, S : S = Accruing(u) /\ v = [p \in S |-> jobs[p].amount]
  OBVIOUS
<1>10. \A p \in S : v[p] \in Nat
  BY <1>8, <1>9 DEF Job
<1>11. SumFunctionOnSet(v, S) \in Nat
  BY <1>9, <1>10, SumNat DEF BackedInv, FewAccruing
<1>12. Unaccrued(u) \in Nat
  BY <1>9, <1>11 DEF Unaccrued
<1> QED
  BY <1>1, <1>3, <1>7, <1>8, <1>12

\* An entry that is no referral adds nothing to what a user earned, a referral
\* its amount.
LEMMA PostEarns ==
  ASSUME BackedInv, NEW u \in User, NEW typ \in EntryType, NEW a \in Int,
         NEW o \in Order \cup {NoOrder}, NEW b \in User \cup {NoUser},
         typ = "referral" => a \in Nat, Post(u, typ, a, o, b)
  PROVE  /\ CreditsAreGains'
         /\ Earned(u)' = Earned(u) + (IF typ = "referral" THEN a ELSE 0)
         /\ \A v \in User \ {u} : Earned(v)' = Earned(v)
<1> DEFINE e == [type |-> typ, amount |-> a, balance |-> balance[u] + a,
                 order |-> o, buyer |-> b]
<1>1. PICK n \in Nat : n = Len(journal[u])
  BY DEF BackedInv, AccountsInv, AccountsTypeOK
<1>2. /\ Len(journal'[u]) = n + 1
      /\ \A i \in 1 .. n : journal'[u][i] = journal[u][i]
      /\ journal'[u][n + 1] = e
      /\ \A v \in User \ {u} : journal'[v] = journal[v]
  BY <1>1, PostStep DEF BackedInv, AccountsInv
<1>3. e.type = typ /\ e.amount = a
  OBVIOUS
<1> HIDE DEF e
<1>4. ASSUME NEW v \in User \ {u}
      PROVE  Referrals(v)' = Referrals(v) /\ Earned(v)' = Earned(v)
  BY <1>2, <1>4 DEF Earned, Referrals
<1>5. PICK R, w : R = Referrals(u) /\ w = [i \in R |-> journal[u][i].amount]
  OBVIOUS
<1>6. PICK Q, x : Q = Referrals(u)' /\ x = [i \in Q |-> journal'[u][i].amount]
  OBVIOUS
<1>7. R = {i \in 1 .. n : journal[u][i].type = "referral"}
  BY <1>1, <1>5 DEF Referrals
<1>8. Q = {i \in 1 .. n + 1 : journal'[u][i].type = "referral"}
  BY <1>2, <1>6 DEF Referrals
<1>9. Q = IF typ = "referral" THEN R \cup {n + 1} ELSE R
  <2>1. \A i \in 1 .. n : i \in Q <=> i \in R
    BY <1>2, <1>7, <1>8
  <2>2. n + 1 \in Q <=> typ = "referral"
    BY <1>2, <1>3, <1>8
  <2>3. Q \subseteq 1 .. n + 1 /\ R \subseteq 1 .. n /\ n + 1 \notin R
    BY <1>7, <1>8
  <2>4. \A i \in 1 .. n + 1 : i \in 1 .. n \/ i = n + 1
    OBVIOUS
  <2>5. CASE typ = "referral"
    <3>1. Q \subseteq R \cup {n + 1}
      BY <2>1, <2>3, <2>4
    <3>2. R \subseteq Q /\ n + 1 \in Q
      BY <2>1, <2>2, <2>3, <2>5
    <3> QED
      BY <2>5, <3>1, <3>2
  <2>6. CASE typ # "referral"
    <3>1. Q \subseteq R
      BY <2>1, <2>2, <2>3, <2>4, <2>6
    <3>2. R \subseteq Q
      BY <2>1, <2>3
    <3> QED
      BY <2>6, <3>1, <3>2
  <2> QED
    BY <2>5, <2>6
<1>10. \A i \in R : w[i] \in Nat /\ i \in 1 .. n
  BY <1>5, <1>7 DEF BackedInv, CreditsAreGains
<1>11. \A i \in R : i \in Q /\ x[i] = w[i]
  BY <1>2, <1>5, <1>6, <1>9, <1>10
<1>12. typ = "referral" => x[n + 1] = a
  BY <1>2, <1>3, <1>6, <1>9
<1>13. IsFiniteSet(R) /\ n + 1 \notin R
  BY <1>5, <1>10, SumsOfMoney
<1>14. SumFunctionOnSet(x, Q) =
         SumFunctionOnSet(w, R) + (IF typ = "referral" THEN a ELSE 0)
  <2>1. CASE typ = "referral"
    <3>1. x[n + 1] \in Nat
      BY <1>12, <2>1
    <3>2. SumFunctionOnSet(x, R) = SumFunctionOnSet(w, R)
      BY <1>11, <1>13, SumSame
    <3>3. \A i \in R \cup {n + 1} : x[i] \in Nat
      BY <1>10, <1>11, <3>1
    <3>4. PICK z : z = n + 1
      OBVIOUS
    <3>5. IsFiniteSet(R) /\ z \notin R /\ \A i \in R \cup {z} : x[i] \in Nat
      BY <1>13, <3>3, <3>4
    <3>6. SumFunctionOnSet(x, R \cup {z}) = SumFunctionOnSet(x, R) + x[z]
      BY <3>5, SumAdds
    <3> QED
      BY <1>9, <1>12, <2>1, <3>2, <3>4, <3>6
  <2>2. CASE typ # "referral"
    <3>1. SumFunctionOnSet(x, R) = SumFunctionOnSet(w, R)
      BY <1>11, <1>13, SumSame
    <3>2. SumFunctionOnSet(w, R) \in Nat
      BY <1>10, <1>13, SumNat
    <3>3. SumFunctionOnSet(w, R) = SumFunctionOnSet(w, R) + 0
      BY <3>2
    <3> QED
      BY <1>9, <2>2, <3>1, <3>3
  <2> QED
    BY <2>1, <2>2
<1>15. Earned(u) = SumFunctionOnSet(w, R) /\ Earned(u)' = SumFunctionOnSet(x, Q)
  BY <1>5, <1>6 DEF Earned
<1>16. CreditsAreGains'
  <2>1. \A i \in Q : x[i] \in Nat
    BY <1>9, <1>10, <1>11, <1>12
  <2>2. \A i \in Referrals(u)' : journal'[u][i].amount \in Nat
    BY <1>6, <2>1
  <2>3. \A v \in User \ {u} : \A i \in Referrals(v)' : journal'[v][i].amount \in Nat
    BY <1>2, <1>4 DEF BackedInv, CreditsAreGains
  <2> QED
    BY <2>2, <2>3 DEF CreditsAreGains
<1> QED
  BY <1>4, <1>14, <1>15, <1>16

\* A user whose accruing calls and their amounts stay is owed the same.
LEMMA OwedTheSame ==
  ASSUME NEW u \in User, Accruing(u)' = Accruing(u),
         \A p \in Accruing(u) : jobs'[p].amount = jobs[p].amount
  PROVE  Unaccrued(u)' = Unaccrued(u)
<1>1. [p \in Accruing(u)' |-> jobs'[p].amount] = [p \in Accruing(u) |-> jobs[p].amount]
  OBVIOUS
<1> QED
  BY <1>1 DEF Unaccrued

\* T is S and p, and v adds the summand of p to those of w.
Joins(w, v, S, T, p) ==
  /\ IsFiniteSet(S) /\ T = S \cup {p} /\ p \notin S
  /\ v[p] \in Nat
  /\ \A q \in S : w[q] \in Nat /\ v[q] = w[q]

\* A call that joins the accruing ones adds its amount to what is owed.
LEMMA OwedJoins ==
  ASSUME NEW w, NEW v, NEW S, NEW T, NEW p, Joins(w, v, S, T, p)
  PROVE  SumFunctionOnSet(v, T) = SumFunctionOnSet(w, S) + v[p]
<1>1. SumFunctionOnSet(v, S) = SumFunctionOnSet(w, S)
  BY SumSame DEF Joins
<1>2. \A q \in S \cup {p} : v[q] \in Nat
  BY DEF Joins
<1>3. IsFiniteSet(S) /\ p \notin S
  BY DEF Joins
<1>4. SumFunctionOnSet(v, S \cup {p}) = SumFunctionOnSet(v, S) + v[p]
  BY <1>2, <1>3, SumAdds
<1>5. T = S \cup {p}
  BY DEF Joins
<1> QED
  BY <1>1, <1>4, <1>5

\* What every step that leaves the calls that accrue and the referral entries
\* as they are keeps.
LEMMA OthersBacked ==
  ASSUME BackedInv, AccountsInv', UNCHANGED commission,
         \A u \in User : /\ Accruing(u)' = Accruing(u)
                         /\ \A p \in Accruing(u) : jobs'[p].amount = jobs[p].amount
                         /\ Earned(u)' = Earned(u),
         CreditsAreGains'
  PROVE  BackedInv'
<1>1. FewAccruing'
  BY DEF BackedInv, FewAccruing
<1>2. \A u \in User : Unaccrued(u)' = Unaccrued(u)
  BY OwedTheSame
<1>3. CommissionBacked'
  BY <1>2 DEF BackedInv, CommissionBacked
<1> QED
  BY <1>1, <1>3 DEF BackedInv

\* Charges, refunds, bindings and first calls concern no commission yet.
LEMMA QuietBacked ==
  ASSUME BackedInv, AccountsInv',
         \/ \E u \in User, a \in Int, typ \in {"consume", "refund"}, o \in Order \cup {NoOrder} :
              AdjustBalance(u, a, typ, o)
         \/ \E u, r \in User : BindReferrer(u, r)
         \/ \E p \in Caller, b \in User, o \in Order, a \in Int : StartCommission(p, b, o, a)
         \/ UNCHANGED accountVars
  PROVE  BackedInv'
<1>1. ASSUME NEW u \in User, NEW a \in Int, NEW typ \in {"consume", "refund"},
             NEW o \in Order \cup {NoOrder}, AdjustBalance(u, a, typ, o)
      PROVE  BackedInv'
  <2>1. Post(u, typ, a, o, NoUser) /\ UNCHANGED <<commission, jobs>>
    BY <1>1 DEF AdjustBalance
  <2>2. typ \in EntryType /\ typ # "referral"
    BY DEF EntryType
  <2>3. /\ CreditsAreGains' /\ Earned(u)' = Earned(u) + 0
        /\ \A v \in User \ {u} : Earned(v)' = Earned(v)
    BY <2>1, <2>2, PostEarns
  <2>4. Earned(u) \in Nat
    BY SumsOfMoney
  <2>5. \A v \in User : Earned(v)' = Earned(v)
    BY <2>3, <2>4
  <2>6. \A v \in User : /\ Accruing(v)' = Accruing(v)
                        /\ \A p \in Accruing(v) : jobs'[p].amount = jobs[p].amount
    BY <2>1 DEF Accruing
  <2> QED
    BY <2>1, <2>3, <2>5, <2>6, OthersBacked
<1>2. ASSUME UNCHANGED journal
      PROVE  CreditsAreGains' /\ \A v \in User : Earned(v)' = Earned(v)
  BY <1>2 DEF BackedInv, CreditsAreGains, Referrals, Earned
<1>3. ASSUME UNCHANGED <<journal, commission, jobs>>
      PROVE  BackedInv'
  <2>1. \A v \in User : /\ Accruing(v)' = Accruing(v)
                        /\ \A p \in Accruing(v) : jobs'[p].amount = jobs[p].amount
    BY <1>3 DEF Accruing
  <2> QED
    BY <1>2, <1>3, <2>1, OthersBacked
<1>4. ASSUME NEW p \in Caller, NEW b \in User, NEW o \in Order, NEW a \in Int,
             StartCommission(p, b, o, a)
      PROVE  BackedInv'
  <2>1. jobs[p] = Idle /\ jobs'[p].step = "credit" /\ UNCHANGED <<journal, commission>>
    BY <1>4 DEF StartCommission, BackedInv, AccountsInv, AccountsTypeOK
  <2>2. \A q \in Caller \ {p} : jobs'[q] = jobs[q]
    BY <1>4 DEF StartCommission, BackedInv, AccountsInv, AccountsTypeOK
  <2>3. jobs[p].step # "accrue"
    BY <2>1 DEF Idle
  <2>4. \A v \in User : /\ Accruing(v)' = Accruing(v)
                        /\ \A q \in Accruing(v) : jobs'[q].amount = jobs[q].amount
    BY <2>1, <2>2, <2>3 DEF Accruing
  <2> QED
    BY <1>2, <2>1, <2>4, OthersBacked
<1> QED
  BY <1>1, <1>3, <1>4 DEF BindReferrer, accountVars

\* A credit moves what is earned and what is owed by the same amount.
LEMMA CreditBacked ==
  ASSUME BackedInv, AccountsInv', NEW p \in Caller, Credit(p)
  PROVE  BackedInv'
<1>1. PICK j : j = jobs[p]
  OBVIOUS
<1>2. /\ j.step = "credit"
      /\ Post(j.referrer, "referral", j.amount, j.order, j.buyer)
      /\ jobs' = [jobs EXCEPT ![p].step = "accrue"]
      /\ UNCHANGED commission
  BY <1>1 DEF Credit
<1>3. j \in Job
  BY <1>1, <1>2 DEF BackedInv, AccountsInv, AccountsTypeOK, Idle
<1>4. /\ j.referrer \in User /\ j.amount \in Nat /\ j.order \in Order
      /\ j.buyer \in User /\ "referral" \in EntryType
  BY <1>3 DEF Job, EntryType
<1>5. PICK r \in User, a \in Nat : r = j.referrer /\ a = j.amount
  BY <1>4
<1>6. /\ CreditsAreGains' /\ Earned(r)' = Earned(r) + a
      /\ \A v \in User \ {r} : Earned(v)' = Earned(v)
  BY <1>2, <1>4, <1>5, PostEarns
<1>7. /\ jobs'[p].step = "accrue" /\ jobs'[p].referrer = r /\ jobs'[p].amount = a
      /\ \A q \in Caller \ {p} : jobs'[q] = jobs[q]
  BY <1>1, <1>2, <1>3, <1>5 DEF BackedInv, AccountsInv, AccountsTypeOK, Job
<1>8. jobs[p].step # "accrue"
  BY <1>1, <1>2
<1>9. ASSUME NEW v \in User \ {r}
      PROVE  /\ Accruing(v)' = Accruing(v)
             /\ \A q \in Accruing(v) : jobs'[q].amount = jobs[q].amount
  BY <1>7, <1>8 DEF Accruing
<1>10. \A v \in User \ {r} : Accruing(v)' = Accruing(v) /\ Unaccrued(v)' = Unaccrued(v)
  BY <1>9, OwedTheSame
<1>11. PICK S, T, f, g : S = Accruing(r) /\ T = Accruing(r)' /\ f = jobs /\ g = jobs'
  OBVIOUS
<1>12. T = S \cup {p} /\ p \notin S /\ \A q \in S : g[q] = f[q]
  BY <1>7, <1>8, <1>11 DEF Accruing
<1>13. IsFiniteSet(S) /\ \A q \in S : f[q].amount \in Nat /\ g[q].amount = f[q].amount
  <2>1. \A q \in S : f[q] \in Job
    BY <1>11, SumsOfMoney
  <2> QED
    BY <1>11, <1>12, <2>1 DEF BackedInv, FewAccruing, Job
<1>14. PICK d, h : d = [q \in S |-> f[q].amount] /\ h = [q \in T |-> g[q].amount]
  OBVIOUS
<1>15. h[p] = a /\ \A q \in S : d[q] \in Nat /\ h[q] = d[q]
  BY <1>7, <1>11, <1>12, <1>13, <1>14
<1>16. IsFiniteSet(Accruing(r)') /\ Unaccrued(r)' = Unaccrued(r) + a
  <2>0. Joins(d, h, S, T, p)
    BY <1>12, <1>13, <1>15 DEF Joins
  <2>1. SumFunctionOnSet(h, T) = SumFunctionOnSet(d, S) + h[p]
    BY <2>0, OwedJoins
  <2>2. Unaccrued(r) = SumFunctionOnSet(d, S) /\ Unaccrued(r)' = SumFunctionOnSet(h, T)
    BY <1>11, <1>14 DEF Unaccrued
  <2>3. IsFiniteSet(T)
    BY <1>12, <1>13, FS_AddElement
  <2> QED
    BY <1>11, <1>15, <2>1, <2>2, <2>3
<1>17. FewAccruing'
  BY <1>10, <1>16 DEF BackedInv, FewAccruing
<1>18. CommissionBacked'
  <2>1. commission[r] + Unaccrued(r)' <= Earned(r)'
    <3>1. PICK c, o, e : c = commission[r] /\ o = Unaccrued(r) /\ e = Earned(r)
      OBVIOUS
    <3>2. c \in Nat /\ o \in Nat /\ e \in Nat /\ c + o <= e
      BY <3>1, SumsOfMoney DEF BackedInv, CommissionBacked
    <3>3. c + (o + a) <= e + a
      BY <3>2
    <3> QED
      BY <1>6, <1>16, <3>1, <3>3
  <2>2. \A v \in User \ {r} : commission[v] + Unaccrued(v)' <= Earned(v)'
    BY <1>6, <1>10 DEF BackedInv, CommissionBacked
  <2> QED
    BY <1>2, <2>1, <2>2 DEF CommissionBacked
<1> QED
  BY <1>6, <1>17, <1>18 DEF BackedInv

\* The accrual moves an amount from what is owed to the commission account; an
\* error in its place only forgets what was owed.
LEMMA AccrueBacked ==
  ASSUME BackedInv, AccountsInv', NEW p \in Caller, jobs[p].step = "accrue",
         Accrue(p) \/ Abandon(p)
  PROVE  BackedInv'
<1>1. PICK j : j = jobs[p]
  OBVIOUS
<1>2. /\ j.step = "accrue"
      /\ \/ commission' = [commission EXCEPT ![j.referrer] = @ + j.amount]
         \/ commission' = commission
      /\ jobs' = [jobs EXCEPT ![p] = Idle]
      /\ UNCHANGED journal
  BY <1>1 DEF Accrue, Abandon
<1>3. j \in Job
  BY <1>1, <1>2 DEF BackedInv, AccountsInv, AccountsTypeOK, Idle
<1>4. PICK r \in User, a \in Nat : r = j.referrer /\ a = j.amount
  BY <1>3 DEF Job
<1>5. /\ commission'[r] = commission[r] + a \/ commission'[r] = commission[r]
      /\ \A v \in User \ {r} : commission'[v] = commission[v]
  BY <1>2, <1>4 DEF BackedInv, AccountsInv, AccountsTypeOK
<1>6. jobs'[p].step # "accrue" /\ \A q \in Caller \ {p} : jobs'[q] = jobs[q]
  BY <1>2 DEF BackedInv, AccountsInv, AccountsTypeOK, Idle
<1>7. CreditsAreGains' /\ \A v \in User : Earned(v)' = Earned(v)
  BY <1>2 DEF BackedInv, CreditsAreGains, Referrals, Earned
<1>8. ASSUME NEW v \in User \ {r}
      PROVE  /\ Accruing(v)' = Accruing(v)
             /\ \A q \in Accruing(v) : jobs'[q].amount = jobs[q].amount
  BY <1>1, <1>4, <1>6 DEF Accruing
<1>9. \A v \in User \ {r} : Accruing(v)' = Accruing(v) /\ Unaccrued(v)' = Unaccrued(v)
  BY <1>8, OwedTheSame
<1>10. PICK S, T, f, g : S = Accruing(r) /\ T = Accruing(r)' /\ f = jobs /\ g = jobs'
  OBVIOUS
<1>11. S = T \cup {p} /\ p \notin T /\ \A q \in T : g[q] = f[q]
  BY <1>1, <1>2, <1>4, <1>6, <1>10 DEF Accruing
<1>12. IsFiniteSet(S) /\ \A q \in S : f[q].amount \in Nat
  <2>1. \A q \in S : f[q] \in Job
    BY <1>10, SumsOfMoney
  <2> QED
    BY <1>10, <2>1 DEF BackedInv, FewAccruing, Job
<1>13. IsFiniteSet(T) /\ \A q \in T : g[q].amount \in Nat /\ f[q].amount = g[q].amount
  <2>1. T \subseteq S
    BY <1>11
  <2> QED
    BY <1>11, <1>12, <2>1, FS_Subset
<1>14. PICK d, h : d = [q \in T |-> g[q].amount] /\ h = [q \in S |-> f[q].amount]
  OBVIOUS
<1>15. h[p] = a /\ \A q \in T : d[q] \in Nat /\ h[q] = d[q]
  BY <1>1, <1>4, <1>10, <1>11, <1>13, <1>14
<1>16. IsFiniteSet(Accruing(r)') /\ Unaccrued(r) = Unaccrued(r)' + a
  <2>0. Joins(d, h, T, S, p)
    BY <1>11, <1>13, <1>15 DEF Joins
  <2>1. SumFunctionOnSet(h, S) = SumFunctionOnSet(d, T) + h[p]
    BY <2>0, OwedJoins
  <2>2. Unaccrued(r) = SumFunctionOnSet(h, S) /\ Unaccrued(r)' = SumFunctionOnSet(d, T)
    BY <1>10, <1>14 DEF Unaccrued
  <2> QED
    BY <1>10, <1>13, <1>15, <2>1, <2>2
<1>17. FewAccruing'
  BY <1>9, <1>16 DEF BackedInv, FewAccruing
<1>18. Unaccrued(r)' \in Nat
  <2>1. SumFunctionOnSet(d, T) \in Nat
    BY <1>13, <1>15, SumNat
  <2> QED
    BY <1>10, <1>14, <2>1 DEF Unaccrued
<1>19. CommissionBacked'
  <2>1. commission'[r] + Unaccrued(r)' <= Earned(r)'
    <3>1. PICK c, o, e : c = commission[r] /\ o = Unaccrued(r)' /\ e = Earned(r)
      OBVIOUS
    <3>2. c \in Nat /\ o \in Nat /\ e \in Nat
      BY <1>18, <3>1, SumsOfMoney
    <3>3. c + (o + a) <= e
      BY <1>16, <3>1 DEF BackedInv, CommissionBacked
    <3>4. (c + a) + o <= e /\ c + o <= e
      BY <3>2, <3>3
    <3> QED
      BY <1>5, <1>7, <3>1, <3>4
  <2>2. \A v \in User \ {r} : commission'[v] + Unaccrued(v)' <= Earned(v)'
    BY <1>5, <1>7, <1>9 DEF BackedInv, CommissionBacked
  <2> QED
    BY <2>1, <2>2 DEF CommissionBacked
<1> QED
  BY <1>7, <1>17, <1>19 DEF BackedInv

\* An error before the credit leaves everything as it is.
LEMMA AbandonBacked ==
  ASSUME BackedInv, AccountsInv', NEW p \in Caller, Abandon(p)
  PROVE  BackedInv'
<1>1. CASE jobs[p].step = "accrue"
  BY <1>1, AccrueBacked
<1>2. CASE jobs[p].step # "accrue"
  <2>1. /\ UNCHANGED <<journal, commission>> /\ jobs'[p].step # "accrue"
        /\ \A q \in Caller \ {p} : jobs'[q] = jobs[q]
    BY DEF Abandon, BackedInv, AccountsInv, AccountsTypeOK, Idle
  <2>2. CreditsAreGains' /\ \A v \in User : Earned(v)' = Earned(v)
    BY <2>1 DEF BackedInv, CreditsAreGains, Referrals, Earned
  <2>3. \A v \in User : /\ Accruing(v)' = Accruing(v)
                        /\ \A q \in Accruing(v) : jobs'[q].amount = jobs[q].amount
    BY <1>2, <2>1 DEF Accruing
  <2> QED
    BY <2>1, <2>2, <2>3, OthersBacked
<1> QED
  BY <1>1, <1>2

\* A crash forgets what was owed, and nothing that was earned.
LEMMA CrashBacked ==
  ASSUME BackedInv, AccountsInv', CrashJobs
  PROVE  BackedInv'
<1>1. UNCHANGED <<journal, commission>> /\ \A p \in Caller : jobs'[p].step # "accrue"
  BY DEF CrashJobs, Idle
<1>2. CreditsAreGains' /\ \A v \in User : Earned(v)' = Earned(v)
  BY <1>1 DEF BackedInv, CreditsAreGains, Referrals, Earned
<1>3. ASSUME NEW v \in User
      PROVE  /\ IsFiniteSet(Accruing(v)')
             /\ commission'[v] + Unaccrued(v)' <= Earned(v)'
  <2>1. Accruing(v)' = {}
    BY <1>1 DEF Accruing
  <2>2. Unaccrued(v)' = 0
    BY <2>1, SumEmpty DEF Unaccrued
  <2>3. PICK c, o, e : c = commission[v] /\ o = Unaccrued(v) /\ e = Earned(v)
    OBVIOUS
  <2>4. c \in Nat /\ o \in Nat /\ e \in Nat /\ c + o <= e
    BY <2>3, SumsOfMoney DEF BackedInv, CommissionBacked
  <2>5. c + 0 <= e
    BY <2>4
  <2> QED
    BY <1>1, <1>2, <2>1, <2>2, <2>3, <2>5, FS_EmptySet
<1>4. FewAccruing' /\ CommissionBacked'
  BY <1>3 DEF FewAccruing, CommissionBacked
<1> QED
  BY <1>2, <1>4 DEF BackedInv

\* Nothing is earned and nothing owed at first.
LEMMA BackedInit ==
  AccountsInit => BackedInv
<1> SUFFICES ASSUME AccountsInit PROVE BackedInv
  OBVIOUS
<1>1. AccountsInv
  BY AccountsInvInit
<1>2. ASSUME NEW u \in User
      PROVE  /\ Referrals(u) = {} /\ Accruing(u) = {} /\ commission[u] = 0
             /\ Earned(u) = 0 /\ Unaccrued(u) = 0
  <2>1. journal[u] = <<>> /\ commission[u] = 0
    BY DEF AccountsInit
  <2>2. Referrals(u) = {}
    <3>1. Len(journal[u]) = 0
      BY <2>1
    <3>2. 1 .. Len(journal[u]) = {}
      BY <3>1
    <3> QED
      BY <3>2 DEF Referrals
  <2>3. Accruing(u) = {}
    BY DEF AccountsInit, Accruing, Idle
  <2> QED
    BY <2>1, <2>2, <2>3, SumEmpty DEF Earned, Unaccrued
<1>3. CreditsAreGains
  BY <1>2 DEF CreditsAreGains
<1>4. FewAccruing /\ CommissionBacked
  BY <1>2, FS_EmptySet DEF FewAccruing, CommissionBacked
<1> QED
  BY <1>1, <1>3, <1>4 DEF BackedInv

\* Every call of the store, and a crash, keeps commissions backed.
LEMMA BackedNext ==
  BackedInv /\ [AccountsNext]_accountVars => BackedInv'
<1> SUFFICES ASSUME BackedInv, [AccountsNext]_accountVars PROVE BackedInv'
  OBVIOUS
<1>1. AccountsInv'
  BY AccountsInvNext DEF BackedInv
<1>2. ASSUME NEW u \in User, NEW a \in Amounts, NEW o \in Order \cup {NoOrder},
             AdjustBalance(u, a, IF a > 0 THEN "refund" ELSE "consume", o)
      PROVE  BackedInv'
  <2>1. PICK typ \in {"consume", "refund"} : typ = IF a > 0 THEN "refund" ELSE "consume"
    OBVIOUS
  <2>2. AdjustBalance(u, a, typ, o) /\ a \in Int
    BY <1>2, <2>1, AccountsAssumption
  <2> QED
    BY <1>1, <2>2, QuietBacked
<1>3. ASSUME NEW u \in User, NEW r \in User, BindReferrer(u, r)
      PROVE  BackedInv'
  BY <1>1, <1>3, QuietBacked
<1>4. ASSUME NEW p \in Caller, NEW b \in User, NEW o \in Order, NEW a \in Amounts,
             StartCommission(p, b, o, -a)
      PROVE  BackedInv'
  <2>1. -a \in Int
    BY AccountsAssumption
  <2> QED
    BY <1>1, <1>4, <2>1, QuietBacked
<1>5. ASSUME NEW p \in Caller, Credit(p)
      PROVE  BackedInv'
  BY <1>1, <1>5, CreditBacked
<1>6. ASSUME NEW p \in Caller, Accrue(p) \/ Abandon(p)
      PROVE  BackedInv'
  BY <1>1, <1>6, AccrueBacked, AbandonBacked DEF Accrue
<1>7. CASE CrashJobs
  BY <1>1, <1>7, CrashBacked
<1>8. CASE UNCHANGED accountVars
  BY <1>1, <1>8, QuietBacked
<1> QED
  BY <1>2, <1>3, <1>4, <1>5, <1>6, <1>7, <1>8 DEF AccountsNext

\* However calls of ProcessOrderCommission interleave and wherever the server
\* stops, commission_balance is covered by referral entries of the journal.
THEOREM CommissionsBacked == AccountsSpec => []CommissionBacked
<1>1. BackedInv => CommissionBacked
  BY DEF BackedInv
<1> QED
  BY <1>1, BackedInit, BackedNext, PTL DEF AccountsSpec
=============================================================================
