------------------------------ MODULE CardVault ------------------------------
(***************************************************************************)
(* The card-secret vault of internal/store/commodity.go: the card_secrets  *)
(* table and the stock and sold counters the commodities table keeps about *)
(* it.  The database has one connection, so every call below, a single     *)
(* statement or one transaction, is one atomic action.                     *)
(***************************************************************************)
EXTENDS Orders, Naturals, FiniteSets

CONSTANTS
  Commodity,    \* ids of commodities
  MaxSecrets,   \* bound: number of secret ids ever handed out
  MaxTyped      \* bound: largest counter value an admin's form posts

ASSUME VaultAssumption ==
  /\ NoOrder \notin Order
  /\ MaxSecrets \in Nat
  /\ MaxTyped \in Nat

VARIABLES
  secrets,      \* the rows of card_secrets, a set of records
  nextSecret,   \* the next AUTOINCREMENT id of card_secrets
  rows,         \* the rows of commodities: state, stock and sold columns
  typed         \* history: the counters that differ from the table because an
                \* admin's save wrote them, not because the store counted them

vaultVars == <<secrets, nextSecret, rows, typed>>

UnsoldSecret == [id : Nat \ {0}, commodity : Commodity, status : {0}, order : {NoOrder}]
SoldSecret   == [id : Nat \ {0}, commodity : Commodity, status : {1}, order : Order]
Row          == [state : {"never", "listed", "deleted"}, stock : Nat, sold : Nat]
Counter      == {"stock", "sold"}

VaultInit ==
  /\ secrets = {}
  /\ nextSecret = 1
  /\ rows = [c \in Commodity |-> [state |-> "never", stock |-> 0, sold |-> 0]]
  /\ typed = [c \in Commodity |-> {}]

-----------------------------------------------------------------------------
(* Queries.                                                                *)

UnsoldIn(S, c) == {s \in S : s.commodity = c /\ s.status = 0}
SoldIn(S, c)   == {s \in S : s.commodity = c /\ s.status = 1}

Unsold(c) == UnsoldIn(secrets, c)
Sold(c)   == SoldIn(secrets, c)
SoldTo(o) == {s \in secrets : s.status = 1 /\ s.order = o}

\* SELECT ... ORDER BY id ASC LIMIT 1 over the unsold secrets of c picks s.
IsOldest(c, s) == s \in Unsold(c) /\ \A t \in Unsold(c) : s.id <= t.id

\* The counters of c that would be wrong if its row held st and sd.
Mistyped(c, st, sd) ==
  {k \in Counter : \/ k = "stock" /\ st # Cardinality(Unsold(c))
                   \/ k = "sold"  /\ sd # Cardinality(Sold(c))}

\* UPDATE commodities SET stock = (SELECT COUNT(*) ... status = 0), sold = sold + n:
\* counts the table the same transaction has written; no row, no effect.
RefreshStock(c, n) ==
  IF rows[c].state = "listed"
  THEN /\ rows' = [rows EXCEPT ![c].stock = Cardinality(UnsoldIn(secrets', c)),
                               ![c].sold = @ + n]
       /\ typed' = [typed EXCEPT ![c] = @ \ {"stock"}]
  ELSE UNCHANGED <<rows, typed>>

-----------------------------------------------------------------------------
(* Operations.                                                             *)

\* HandleCreateCommodity and CreateCommodity: a new row whose counters come
\* from the posted form.
CreateCommodity(c, st, sd) ==
  /\ rows[c].state = "never"
  /\ rows' = [rows EXCEPT ![c] = [state |-> "listed", stock |-> st, sold |-> sd]]
  /\ typed' = [typed EXCEPT ![c] = Mistyped(c, st, sd)]
  /\ UNCHANGED <<secrets, nextSecret>>

\* UpdateCommodity rewrites the whole row: its callers post a form or a copy
\* read earlier, so both counters become whatever that copy says.
UpdateCommodity(c, st, sd) ==
  /\ rows[c].state = "listed"
  /\ rows' = [rows EXCEPT ![c].stock = st, ![c].sold = sd]
  /\ typed' = [typed EXCEPT ![c] = Mistyped(c, st, sd)]
  /\ UNCHANGED <<secrets, nextSecret>>

\* Both deletes run in one transaction, whether or not the row exists: an id
\* that is deleted already, or that never was, still loses its secrets.  The
\* ids are never reused.
DeleteCommodity(c) ==
  /\ secrets' = {s \in secrets : s.commodity # c}
  /\ rows' = [rows EXCEPT ![c].state = IF @ = "listed" THEN "deleted" ELSE @]
  /\ UNCHANGED <<nextSecret, typed>>

\* The rows of one import: n unsold secrets with the next n ids.
Fresh(c, n) ==
  {[id |-> i, commodity |-> c, status |-> 0, order |-> NoOrder] :
     i \in nextSecret .. (nextSecret + n - 1)}

\* A defect of ImportSecrets: add the imported number instead of counting.
ImportSecretsAdding(c, n) ==
  /\ nextSecret + n <= MaxSecrets + 1
  /\ secrets' = secrets \cup Fresh(c, n)
  /\ nextSecret' = nextSecret + n
  /\ IF rows[c].state = "listed"
     THEN /\ rows' = [rows EXCEPT ![c].stock = @ + n]
          /\ typed' = [typed EXCEPT ![c] = @ \ {"stock"}]
     ELSE UNCHANGED <<rows, typed>>

\* ImportSecrets with n non-empty contents.  There is no foreign key: the
\* commodity may be unknown or deleted, and its row is then not refreshed.
ImportSecrets(c, n) ==
  /\ nextSecret + n <= MaxSecrets + 1
  /\ secrets' = secrets \cup Fresh(c, n)
  /\ nextSecret' = nextSecret + n
  /\ RefreshStock(c, 0)

\* The writes of PullSecret's transaction once its SELECT has chosen s.
Sell(c, s, o, n) ==
  /\ secrets' = (secrets \ {s}) \cup {[s EXCEPT !.status = 1, !.order = o]}
  /\ RefreshStock(c, n)
  /\ UNCHANGED nextSecret

\* Defects of PullSecret: any unsold secret instead of the oldest; no
\* sold + 1; order_id left at 0; the status not looked at.
PullSecretAny(c, o) == \E s \in Unsold(c) : Sell(c, s, o, 1)
PullSecretUncounted(c, o) == \E s \in Unsold(c) : IsOldest(c, s) /\ Sell(c, s, o, 0)
PullSecretUnbound(c, o) == \E s \in Unsold(c) : IsOldest(c, s) /\ Sell(c, s, NoOrder, 1)
PullSecretResell(c, o) ==
  \E s \in secrets : s.commodity = c /\ Sell(c, s, o, 1)

\* PullSecret when an unsold secret is left; with none it returns nil and
\* changes nothing.
PullSecret(c, o) == \E s \in Unsold(c) : IsOldest(c, s) /\ Sell(c, s, o, 1)

-----------------------------------------------------------------------------
VaultNext ==
  \/ \E c \in Commodity, st, sd \in 0 .. MaxTyped :
        CreateCommodity(c, st, sd) \/ UpdateCommodity(c, st, sd)
  \/ \E c \in Commodity : DeleteCommodity(c)
  \/ \E c \in Commodity, n \in 0 .. MaxSecrets : ImportSecrets(c, n)
  \/ \E c \in Commodity, o \in Order : PullSecret(c, o)

VaultSpec == VaultInit /\ [][VaultNext]_vaultVars

-----------------------------------------------------------------------------
\* Every row is an unsold secret bound to no order or a sold one bound to the
\* order that took it (PullSecret writes status and order_id together).
VaultTypeOK ==
  /\ secrets \subseteq UnsoldSecret \cup SoldSecret
  /\ nextSecret \in Nat \ {0}
  /\ rows \in [Commodity -> Row]
  /\ typed \in [Commodity -> SUBSET Counter]

\* Secrets of one commodity leave the vault in the order they were imported:
\* no unsold secret is older than a sold one (ORDER BY id ASC in PullSecret
\* over ids that only grow).
OldestFirst ==
  \A s, t \in secrets :
    s.commodity = t.commodity /\ s.id < t.id /\ t.status = 1 => s.status = 1

\* The stock the storefront shows is the number of secrets it can deliver,
\* unless the last writer of the column was an admin's save: every import and
\* every sale recounts it in its own transaction.
StockExact ==
  \A c \in Commodity :
    rows[c].state = "listed" /\ "stock" \notin typed[c] =>
      rows[c].stock = Cardinality(Unsold(c))

\* The sold counter is the number of secrets sold, unless an admin's save
\* replaced it: sold + 1 commits with the sale it counts.
SoldExact ==
  \A c \in Commodity :
    rows[c].state = "listed" /\ "sold" \notin typed[c] =>
      rows[c].sold = Cardinality(Sold(c))

\* A sold secret is never sold again, to no other order and not back to the
\* shelf.  It leaves the vault only with every other secret of its commodity,
\* and only when that commodity is no longer listed: DeleteCommodity takes the
\* whole shelf, also what a pull in flight or a late import put there after an
\* earlier deletion.
SaleFinal ==
  \A s \in secrets :
    s.status = 1 => \/ s \in secrets'
                    \/ /\ rows'[s.commodity].state # "listed"
                       /\ secrets' = {t \in secrets : t.commodity # s.commodity}
SoldForever == [][SaleFinal]_vaultVars
=============================================================================
