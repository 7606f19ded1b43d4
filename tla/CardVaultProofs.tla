--------------------------- MODULE CardVaultProofs ---------------------------
(***************************************************************************)
(* The theorems of CardVault: its type invariant, the order in which       *)
(* secrets are sold, the exactness of both counters, and that a sale is    *)
(* final, for any number of commodities, orders and secrets.               *)
(***************************************************************************)
EXTENDS CardVault, FiniteSetTheorems, TLAPS

\* AUTOINCREMENT: ids are handed out once and in increasing order.
UniqueIds == \A s, t \in secrets : s.id = t.id => s = t
GrowingIds == \A s \in secrets : s.id < nextSecret

\* The inductive invariant.  OldestFirst needs GrowingIds for an import and
\* UniqueIds for a sale; the counters need the table to be finite.
VaultInv ==
  /\ VaultTypeOK
  /\ IsFiniteSet(secrets)
  /\ UniqueIds
  /\ GrowingIds
  /\ OldestFirst
  /\ StockExact
  /\ SoldExact

-----------------------------------------------------------------------------
\* The rows an import adds: a finite set of unsold secrets of its commodity,
\* with ids that were not yet handed out.
LEMMA FreshRows ==
  ASSUME NEW c \in Commodity, NEW n \in Nat, nextSecret \in Nat \ {0}
  PROVE  /\ IsFiniteSet(Fresh(c, n))
         /\ Fresh(c, n) \subseteq UnsoldSecret
         /\ \A s \in Fresh(c, n) : /\ s.commodity = c
                                   /\ s.id >= nextSecret
                                   /\ s.id < nextSecret + n
         /\ \A s, t \in Fresh(c, n) : s.id = t.id => s = t
<1> DEFINE I == nextSecret .. (nextSecret + n - 1)
           r(i) == [id |-> i, commodity |-> c, status |-> 0, order |-> NoOrder]
           f == [i \in I |-> r(i)]
<1>1. IsFiniteSet(I)
  BY FS_Interval
<1>2. f \in Surjection(I, Fresh(c, n))
  BY DEF Surjection, Fresh
<1>3. IsFiniteSet(Fresh(c, n))
  BY <1>1, <1>2, FS_Surjection
<1>4. Fresh(c, n) \subseteq UnsoldSecret
  BY DEF Fresh, UnsoldSecret
<1> QED
  BY <1>3, <1>4 DEF Fresh

\* The rows of one commodity and status are finite when the table is, so
\* that counting them gives a natural number.
LEMMA FiniteShelf ==
  ASSUME NEW S, IsFiniteSet(S), NEW c
  PROVE  /\ IsFiniteSet(UnsoldIn(S, c)) /\ Cardinality(UnsoldIn(S, c)) \in Nat
         /\ IsFiniteSet(SoldIn(S, c)) /\ Cardinality(SoldIn(S, c)) \in Nat
  BY FS_Subset, FS_CardinalityType DEF UnsoldIn, SoldIn

-----------------------------------------------------------------------------
\* What a sale does to the table, which the invariant and the action property
\* both rest on.
LEMMA SaleStep ==
  ASSUME VaultInv, NEW c \in Commodity, NEW o \in Order, NEW s \in Unsold(c),
         IsOldest(c, s), Sell(c, s, o, 1)
  PROVE  \E z \in SoldSecret :
           /\ z.id = s.id /\ z.commodity = c /\ z.status = 1
           /\ s \in secrets /\ s.commodity = c /\ s.status = 0
           /\ z \notin secrets
           /\ secrets' = (secrets \ {s}) \cup {z}
<1> DEFINE z == [s EXCEPT !.status = 1, !.order = o]
<1>1. s \in secrets /\ s.commodity = c /\ s.status = 0
  BY DEF Unsold, UnsoldIn
<1>2. s \in UnsoldSecret
  BY <1>1 DEF VaultInv, VaultTypeOK, UnsoldSecret, SoldSecret
<1>3. z \in SoldSecret /\ z.id = s.id /\ z.commodity = c /\ z.status = 1
  BY <1>1, <1>2 DEF UnsoldSecret, SoldSecret
<1>4. secrets' = (secrets \ {s}) \cup {z}
  BY DEF Sell
<1> HIDE DEF z
<1>5. z \notin secrets
  <2>1. SUFFICES ASSUME z \in secrets PROVE FALSE
    OBVIOUS
  <2>2. z = s
    BY <1>1, <1>3, <2>1 DEF VaultInv, UniqueIds
  <2> QED
    BY <1>1, <1>3, <2>2
<1> QED
  BY <1>1, <1>3, <1>4, <1>5

\* A sale keeps the inductive invariant.
LEMMA SalePreserves ==
  ASSUME VaultInv, NEW c \in Commodity, NEW o \in Order, PullSecret(c, o)
  PROVE  VaultInv'
<1>1. PICK s \in Unsold(c) : IsOldest(c, s) /\ Sell(c, s, o, 1)
  BY DEF PullSecret
<1>2. PICK z \in SoldSecret :
        /\ z.id = s.id /\ z.commodity = c /\ z.status = 1
        /\ s \in secrets /\ s.commodity = c /\ s.status = 0
        /\ z \notin secrets
        /\ secrets' = (secrets \ {s}) \cup {z}
  BY <1>1, SaleStep
<1>3. IsFiniteSet(secrets')
  BY <1>2, FS_AddElement, FS_RemoveElement DEF VaultInv
<1>4. /\ nextSecret' = nextSecret
      /\ RefreshStock(c, 1)
  BY <1>1 DEF Sell
<1>5. VaultTypeOK'
  <2>1. secrets' \subseteq UnsoldSecret \cup SoldSecret
    BY <1>2 DEF VaultInv, VaultTypeOK
  <2>2. rows' \in [Commodity -> Row] /\ typed' \in [Commodity -> SUBSET Counter]
    BY <1>3, <1>4, FiniteShelf DEF VaultInv, VaultTypeOK, RefreshStock, Row
  <2> QED
    BY <1>4, <2>1, <2>2 DEF VaultInv, VaultTypeOK
<1>6. UniqueIds' /\ GrowingIds'
  BY <1>2, <1>4 DEF VaultInv, UniqueIds, GrowingIds
<1>7. OldestFirst'
  BY <1>1, <1>2 DEF VaultInv, VaultTypeOK, UnsoldSecret, SoldSecret, OldestFirst,
       IsOldest, Unsold, UnsoldIn, UniqueIds
<1>8. \A d \in Commodity \ {c} :
        UnsoldIn(secrets', d) = Unsold(d) /\ SoldIn(secrets', d) = Sold(d)
  BY <1>2 DEF Unsold, Sold, UnsoldIn, SoldIn
<1>9. StockExact'
  BY <1>4, <1>8 DEF VaultInv, VaultTypeOK, Row, RefreshStock, StockExact, Unsold
<1>10. SoldExact'
  <2>1. SoldIn(secrets', c) = Sold(c) \cup {z} /\ z \notin Sold(c)
    BY <1>2 DEF Sold, SoldIn
  <2>2. Cardinality(SoldIn(secrets', c)) = Cardinality(Sold(c)) + 1
    BY <2>1, FiniteShelf, FS_AddElement DEF VaultInv, Sold
  <2> QED
    BY <1>4, <1>8, <2>2
    DEF VaultInv, VaultTypeOK, Row, RefreshStock, SoldExact, Sold
<1> QED
  BY <1>3, <1>5, <1>6, <1>7, <1>9, <1>10 DEF VaultInv

\* An import keeps the inductive invariant.
LEMMA ImportPreserves ==
  ASSUME VaultInv, NEW c \in Commodity, NEW n \in Nat, ImportSecrets(c, n)
  PROVE  VaultInv'
<1> DEFINE F == Fresh(c, n)
<1>1. nextSecret \in Nat \ {0}
  BY DEF VaultInv, VaultTypeOK
<1>2. /\ IsFiniteSet(F)
      /\ F \subseteq UnsoldSecret
      /\ \A s \in F : s.commodity = c /\ s.id >= nextSecret /\ s.id < nextSecret + n
      /\ \A s, t \in F : s.id = t.id => s = t
  BY <1>1, FreshRows
<1>3. /\ secrets' = secrets \cup F
      /\ nextSecret' = nextSecret + n
      /\ RefreshStock(c, 0)
  BY DEF ImportSecrets
<1> HIDE DEF F
<1>4. IsFiniteSet(secrets')
  BY <1>2, <1>3, FS_Union DEF VaultInv
<1>5. VaultTypeOK'
  <2>1. secrets' \subseteq UnsoldSecret \cup SoldSecret /\ nextSecret' \in Nat \ {0}
    BY <1>1, <1>2, <1>3 DEF VaultInv, VaultTypeOK
  <2>2. rows' \in [Commodity -> Row] /\ typed' \in [Commodity -> SUBSET Counter]
    BY <1>3, <1>4, FiniteShelf DEF VaultInv, VaultTypeOK, RefreshStock, Row
  <2> QED
    BY <2>1, <2>2 DEF VaultTypeOK
<1>6. \A s \in secrets : s.id \in Nat /\ s.id < nextSecret
  BY DEF VaultInv, VaultTypeOK, GrowingIds, UnsoldSecret, SoldSecret
<1>7. \A s \in F : s.id \in Nat /\ s.status = 0
  BY <1>2 DEF UnsoldSecret
<1>8. UniqueIds'
  BY <1>1, <1>2, <1>3, <1>6, <1>7 DEF VaultInv, UniqueIds
<1>9. GrowingIds'
  BY <1>1, <1>2, <1>3, <1>6, <1>7 DEF GrowingIds
<1>10. OldestFirst'
  BY <1>1, <1>2, <1>3, <1>6, <1>7 DEF VaultInv, OldestFirst
<1>11. /\ \A d \in Commodity : SoldIn(secrets', d) = Sold(d)
       /\ \A d \in Commodity \ {c} : UnsoldIn(secrets', d) = Unsold(d)
  BY <1>2, <1>3, <1>7 DEF Unsold, Sold, UnsoldIn, SoldIn
<1>12. StockExact'
  <2>1. CASE rows[c].state = "listed"
    <3>1. /\ rows' = [rows EXCEPT ![c].stock = Cardinality(UnsoldIn(secrets', c)),
                                 ![c].sold = @ + 0]
          /\ typed' = [typed EXCEPT ![c] = @ \ {"stock"}]
      BY <1>3, <2>1 DEF RefreshStock
    <3>2. rows'[c].stock = Cardinality(UnsoldIn(secrets', c))
      BY <3>1 DEF VaultInv, VaultTypeOK, Row
    <3>3. \A d \in Commodity \ {c} : rows'[d] = rows[d] /\ typed'[d] = typed[d]
      BY <3>1 DEF VaultInv, VaultTypeOK
    <3> QED
      BY <1>11, <3>2, <3>3 DEF VaultInv, StockExact, Unsold
  <2>2. CASE rows[c].state # "listed"
    BY <1>3, <1>11, <2>2 DEF VaultInv, RefreshStock, StockExact, Unsold
  <2> QED
    BY <2>1, <2>2
<1>13. /\ \A d \in Commodity : rows'[d].sold = rows[d].sold /\ rows'[d].state = rows[d].state
       /\ \A d \in Commodity : "sold" \in typed'[d] <=> "sold" \in typed[d]
  BY <1>3 DEF VaultInv, VaultTypeOK, Row, RefreshStock
<1>14. SoldExact'
  BY <1>11, <1>13 DEF VaultInv, SoldExact, Sold
<1> QED
  BY <1>4, <1>5, <1>8, <1>9, <1>10, <1>12, <1>14 DEF VaultInv

\* Writing a whole row and deleting one keep the inductive invariant: the
\* counters a form replaces are the ones "typed" then excuses.
LEMMA RowPreserves ==
  ASSUME VaultInv, NEW c \in Commodity, NEW st \in Nat, NEW sd \in Nat,
         CreateCommodity(c, st, sd) \/ UpdateCommodity(c, st, sd)
  PROVE  VaultInv'
<1>1. secrets' = secrets /\ nextSecret' = nextSecret
  BY DEF CreateCommodity, UpdateCommodity
<1>2. /\ rows' \in [Commodity -> Row]
      /\ rows'[c].stock = st /\ rows'[c].sold = sd
      /\ \A d \in Commodity \ {c} : rows'[d] = rows[d]
      /\ typed' = [typed EXCEPT ![c] = Mistyped(c, st, sd)]
  BY DEF VaultInv, VaultTypeOK, CreateCommodity, UpdateCommodity, Row
<1>3. VaultTypeOK'
  BY <1>1, <1>2 DEF VaultInv, VaultTypeOK, Mistyped
<1>4. UniqueIds' /\ GrowingIds' /\ OldestFirst'
  BY <1>1 DEF VaultInv, UniqueIds, GrowingIds, OldestFirst
<1>5. /\ "stock" \notin Mistyped(c, st, sd) => st = Cardinality(Unsold(c))
      /\ "sold" \notin Mistyped(c, st, sd) => sd = Cardinality(Sold(c))
  BY DEF Mistyped, Counter
<1>6. /\ typed'[c] = Mistyped(c, st, sd)
      /\ \A d \in Commodity \ {c} : typed'[d] = typed[d]
  BY <1>2 DEF VaultInv, VaultTypeOK
<1>7. StockExact' /\ SoldExact'
  BY <1>1, <1>2, <1>5, <1>6
  DEF VaultInv, StockExact, SoldExact, Unsold, Sold, UnsoldIn, SoldIn
<1> QED
  BY <1>1, <1>3, <1>4, <1>7 DEF VaultInv

LEMMA DeletePreserves ==
  ASSUME VaultInv, NEW c \in Commodity, DeleteCommodity(c)
  PROVE  VaultInv'
<1>1. /\ secrets' = {s \in secrets : s.commodity # c}
      /\ rows' = [rows EXCEPT ![c].state = IF @ = "listed" THEN "deleted" ELSE @]
      /\ nextSecret' = nextSecret /\ typed' = typed
  BY DEF DeleteCommodity
<1>2. IsFiniteSet(secrets')
  BY <1>1, FS_Subset DEF VaultInv
<1>3. VaultTypeOK'
  BY <1>1 DEF VaultInv, VaultTypeOK, Row
<1>4. UniqueIds' /\ GrowingIds' /\ OldestFirst'
  BY <1>1 DEF VaultInv, UniqueIds, GrowingIds, OldestFirst
<1>5. /\ rows'[c].state # "listed"
      /\ \A d \in Commodity \ {c} : /\ rows'[d] = rows[d]
                                   /\ UnsoldIn(secrets', d) = Unsold(d)
                                   /\ SoldIn(secrets', d) = Sold(d)
  BY <1>1 DEF VaultInv, VaultTypeOK, Row, Unsold, Sold, UnsoldIn, SoldIn
<1>6. StockExact' /\ SoldExact'
  BY <1>1, <1>5 DEF VaultInv, StockExact, SoldExact, Unsold, Sold
<1> QED
  BY <1>2, <1>3, <1>4, <1>6 DEF VaultInv

-----------------------------------------------------------------------------
\* The vault starts empty, with every invariant.
LEMMA VaultInvInit ==
  VaultInit => VaultInv
<1> SUFFICES ASSUME VaultInit PROVE VaultInv
  OBVIOUS
<1>1. VaultTypeOK
  BY DEF VaultInit, VaultTypeOK, Row
<1> QED
  BY <1>1, FS_EmptySet
  DEF VaultInit, VaultInv, UniqueIds, GrowingIds, OldestFirst, StockExact, SoldExact

\* Every call of the store keeps it.
LEMMA VaultInvNext ==
  VaultInv /\ [VaultNext]_vaultVars => VaultInv'
<1> SUFFICES ASSUME VaultInv, [VaultNext]_vaultVars PROVE VaultInv'
  OBVIOUS
<1>1. ASSUME NEW c \in Commodity, NEW st \in 0 .. MaxTyped, NEW sd \in 0 .. MaxTyped,
             CreateCommodity(c, st, sd) \/ UpdateCommodity(c, st, sd)
      PROVE  VaultInv'
  BY <1>1, RowPreserves, VaultAssumption
<1>2. ASSUME NEW c \in Commodity, DeleteCommodity(c)
      PROVE  VaultInv'
  BY <1>2, DeletePreserves
<1>3. ASSUME NEW c \in Commodity, NEW n \in 0 .. MaxSecrets, ImportSecrets(c, n)
      PROVE  VaultInv'
  BY <1>3, ImportPreserves, VaultAssumption
<1>4. ASSUME NEW c \in Commodity, NEW o \in Order, PullSecret(c, o)
      PROVE  VaultInv'
  BY <1>4, SalePreserves
<1>5. CASE UNCHANGED vaultVars
  BY <1>5 DEF vaultVars, VaultInv, VaultTypeOK, UniqueIds, GrowingIds, OldestFirst,
       StockExact, SoldExact, Unsold, Sold, UnsoldIn, SoldIn
<1> QED
  BY <1>1, <1>2, <1>3, <1>4, <1>5 DEF VaultNext

\* The inductive invariant holds of every state of the vault.
THEOREM VaultInvariant == VaultSpec => []VaultInv
  BY VaultInvInit, VaultInvNext, PTL DEF VaultSpec

\* A secret's status and order_id always agree, and the counters are numbers.
THEOREM VaultTypeCorrect == VaultSpec => []VaultTypeOK
<1>1. VaultInv => VaultTypeOK
  BY DEF VaultInv
<1> QED
  BY <1>1, VaultInvariant, PTL

\* No sale ever takes a secret while an older one of its commodity is unsold.
THEOREM SalesInImportOrder == VaultSpec => []OldestFirst
<1>1. VaultInv => OldestFirst
  BY DEF VaultInv
<1> QED
  BY <1>1, VaultInvariant, PTL

\* The counters the storefront shows are exact until a save replaces them.
THEOREM CountersExact == VaultSpec => [](StockExact /\ SoldExact)
<1>1. VaultInv => StockExact /\ SoldExact
  BY DEF VaultInv
<1> QED
  BY <1>1, VaultInvariant, PTL

\* The count of sales is the number of secrets sold, sale by sale, until a save
\* of the form replaces it.
THEOREM SalesCounted == VaultSpec => []SoldExact
<1>1. VaultInv => SoldExact
  BY DEF VaultInv
<1> QED
  BY <1>1, VaultInvariant, PTL

\* No call takes a sold secret from its order; it goes only with the whole
\* shelf of a commodity that is no longer listed.
THEOREM SalesFinal == VaultSpec => SoldForever
<1>1. ASSUME VaultInv, [VaultNext]_vaultVars, NEW s \in secrets, s.status = 1
      PROVE  \/ s \in secrets'
             \/ /\ rows'[s.commodity].state # "listed"
                /\ secrets' = {t \in secrets : t.commodity # s.commodity}
  <2>1. ASSUME NEW c \in Commodity, NEW st \in 0 .. MaxTyped, NEW sd \in 0 .. MaxTyped,
               CreateCommodity(c, st, sd) \/ UpdateCommodity(c, st, sd)
        PROVE  s \in secrets'
    BY <1>1, <2>1 DEF CreateCommodity, UpdateCommodity
  <2>2. ASSUME NEW c \in Commodity, DeleteCommodity(c), s \notin secrets'
        PROVE  /\ rows'[s.commodity].state # "listed"
               /\ secrets' = {t \in secrets : t.commodity # s.commodity}
    BY <1>1, <2>2 DEF DeleteCommodity, VaultInv, VaultTypeOK, Row
  <2>3. ASSUME NEW c \in Commodity, NEW n \in 0 .. MaxSecrets, ImportSecrets(c, n)
        PROVE  s \in secrets'
    BY <1>1, <2>3 DEF ImportSecrets
  <2>4. ASSUME NEW c \in Commodity, NEW o \in Order, PullSecret(c, o)
        PROVE  s \in secrets'
    BY <1>1, <2>4 DEF PullSecret, Sell, Unsold, UnsoldIn
  <2>5. CASE UNCHANGED vaultVars
    BY <1>1, <2>5 DEF vaultVars
  <2> QED
    BY <1>1, <2>1, <2>2, <2>3, <2>4, <2>5 DEF VaultNext
<1>2. VaultInv /\ [VaultNext]_vaultVars => [SaleFinal]_vaultVars
  BY <1>1 DEF SaleFinal
<1> QED
  BY <1>2, VaultInvariant, PTL DEF VaultSpec, SoldForever
=============================================================================
