--------------------------- MODULE CatalogueProofs ---------------------------
(***************************************************************************)
(* Proofs about the catalogue of CatalogueSync, for any items and costs,   *)
(* any number of syncs at once, any forms and price steps, and any bounds. *)
(***************************************************************************)
EXTENDS CatalogueSync, FiniteSetTheorems, TLAPS

\* A marked-up price is a price, and covers the cost.
LEMMA MarkupCovers ==
  ASSUME NEW cost \in Nat
  PROVE  Markup(cost) \in Nat /\ Markup(cost) >= cost
BY SMT DEF Markup

\* So does what a batch makes of a price.
LEMMA AdjustedCovers ==
  ASSUME NEW row \in Row, NEW s \in Steps
  PROVE  /\ Adjusted(row, s.kind, s.op, s.amount) \in Nat
         /\ Adjusted(row, s.kind, s.op, s.amount) >= row.cost
<1> DEFINE step == IF s.kind = "fixed" THEN s.amount ELSE (row.sale * s.amount) \div 100
<1>1. row.sale \in Nat /\ row.cost \in Nat /\ s.amount \in Nat
  BY SyncAssumption DEF Row
<1>2. step \in Int
  <2>1. row.sale * s.amount \in Int
    BY <1>1
  <2>2. \A n \in Int : n \div 100 \in Int
    OBVIOUS
  <2> QED
    BY <1>1, <2>1, <2>2
<1>3. Stepped(row.sale, s.kind, s.op, s.amount) \in Int
  <2> HIDE DEF step
  <2>1. Stepped(row.sale, s.kind, s.op, s.amount)
          = IF s.op = "+" THEN row.sale + step ELSE row.sale - step
    BY DEF Stepped, step
  <2> QED
    BY <1>1, <1>2, <2>1
<1> QED
  BY <1>1, <1>3 DEF Adjusted, AtLeast

\* No offer of the upstream is mistaken for an empty cache.
LEMMA OffersDiffer == \A s \in Offer : s # NoOffer
<1> SUFFICES ASSUME NEW s \in Offer, s = NoOffer
             PROVE FALSE
  OBVIOUS
<1>1. DOMAIN s = Item /\ DOMAIN NoOffer = {NoItem}
  BY DEF Offer, NoOffer
<1> QED
  BY <1>1, ItemAssumption

-----------------------------------------------------------------------------
(* The inductive invariant.                                                *)

RowsOK ==
  /\ rows \in [DOMAIN rows -> Row]
  /\ nextRow \in Nat \ {0} /\ DOMAIN rows \subseteq 1 .. (nextRow - 1)

Holding == {"refresh", "check", "raise"}
InBreaker == {"check", "raise"}

\* What a sync knows: its row, as long as it is linked, is linked to its item, and
\* only the timer comes to the breaker, with a copy that is sold at a loss.
Knows(p, r) ==
  /\ r \in SyncState
  /\ r.todo # {} => r.snap # NoOffer
  /\ r.pc \notin {"idle", "returned"} => r.snap \in Offer
  /\ r.pc \in Holding \cup {"insert"} => r.item \in Item
  /\ r.pc \in InBreaker => p = Timer
  /\ r.pc \in Holding =>
       /\ r.id < nextRow
       /\ r.id \in DOMAIN rows /\ rows[r.id].source = "upstream" => rows[r.id].outer = r.item
  /\ r.pc = "raise" =>
       /\ r.copy \in Row /\ AtALoss(r.copy)
       /\ r.copy.source = "upstream" => r.copy.outer = r.item

\* Syncs with the same row have it for the same item.
RowsShared ==
  \A p, q \in Syncs :
    sync[p].pc \in Holding /\ sync[q].pc \in Holding /\ sync[p].id = sync[q].id
      => sync[p].item = sync[q].item

\* One row at most, and none while a sync is about to insert it; one such sync.
Inserting(p, x) == sync[p].pc = "insert" /\ sync[p].item = x
OneRow(x) ==
  /\ \A i, j \in Linked(x) : i = j
  /\ \A p \in Syncs : Inserting(p, x) => Linked(x) = {} /\ \A q \in Syncs : Inserting(q, x) => q = p
OneCategory ==
  /\ categories <= 1
  /\ \A p \in Syncs :
       At(p, "newcategory") => categories = 0 /\ \A q \in Syncs : At(q, "newcategory") => q = p

OtherTypes ==
  /\ categories \in Nat /\ offer \in Offer /\ page \in Offer \cup {NoOffer} /\ requests \in Nat
  /\ market \in [pc : {"idle", "sent"}, id : Nat, copy : Row \cup {NoRow}]
  /\ market.pc = "sent" => market.copy \in Row
  /\ phase \in {"up", "stopping", "exited"} /\ edits \in Nat /\ offers \in Nat
  /\ raced \subseteq Item \cup {Category}

CatalogueInv ==
  /\ RowsOK
  /\ OtherTypes
  /\ sync = [p \in Syncs |-> sync[p]]
  /\ \A p \in Syncs : Knows(p, sync[p])
  /\ RowsShared
  /\ \A x \in Item \ raced : OneRow(x)
  /\ Category \notin raced => OneCategory
  /\ LossExplained

LEMMA IdleKnows == \A p \in Syncs : Knows(p, Idle)
<1>1. Idle \in SyncState
  BY DEF Idle, SyncState
<1> QED
  BY <1>1 DEF Knows, Idle, Holding, InBreaker

LEMMA InitInv == SyncInit => CatalogueInv
<1> SUFFICES ASSUME SyncInit PROVE CatalogueInv
  OBVIOUS
<1> USE DEF SyncInit, CatalogueInit
<1>1. DOMAIN rows = {} /\ RowsOK
  BY DEF RowsOK
<1>2. OtherTypes
  BY DEF OtherTypes, NoExport
<1>3. \A p \in Syncs : Knows(p, sync[p]) /\ sync[p].pc = "idle"
  BY IdleKnows DEF Idle
<1>4. \A x \in Item : Linked(x) = {}
  BY <1>1 DEF Linked
<1> QED
  BY <1>1, <1>2, <1>3, <1>4
  DEF CatalogueInv, RowsShared, OneRow, OneCategory, Inserting, At, LossExplained, Holding

-----------------------------------------------------------------------------
(* Steps of one sync that leave the tables alone.                          *)

LEMMA OneSync ==
  ASSUME CatalogueInv, NEW p \in Syncs, NEW r, Knows(p, r),
         sync' = [sync EXCEPT ![p] = r], UNCHANGED catalogueVars,
         OtherTypes', raced \subseteq raced',
         r.pc \in Holding =>
           \A q \in Syncs : sync[q].pc \in Holding /\ sync[q].id = r.id => sync[q].item = r.item,
         r.pc = "insert" =>
           \/ r.item \in raced'
           \/ Linked(r.item) = {} /\ \A q \in Syncs : ~ Inserting(q, r.item),
         r.pc = "newcategory" =>
           \/ Category \in raced'
           \/ categories = 0 /\ \A q \in Syncs : ~ At(q, "newcategory"),
         \A i \in DOMAIN rows :
           AtALoss(rows[i]) /\ ~ rows[i].blind /\ p = Timer => r.id = i /\ r.pc \in InBreaker
  PROVE  CatalogueInv'
<1>1. sync' = [q \in Syncs |-> IF q = p THEN r ELSE sync[q]]
  BY DEF CatalogueInv
<1>2. UNCHANGED <<rows, nextRow, categories>>
  BY DEF catalogueVars
<1>3. RowsOK'
  BY <1>2 DEF CatalogueInv, RowsOK
<1>4. \A q \in Syncs : Knows(q, sync[q])'
  <2> SUFFICES ASSUME NEW q \in Syncs PROVE Knows(q, sync[q])'
    OBVIOUS
  <2>1. Knows(q, sync'[q])
    BY <1>1 DEF CatalogueInv
  <2> QED
    BY <1>2, <2>1 DEF Knows
<1>5. RowsShared'
  BY <1>1 DEF CatalogueInv, RowsShared
<1>6. \A x \in Item \ raced' : OneRow(x)'
  <2> SUFFICES ASSUME NEW x \in Item \ raced' PROVE OneRow(x)'
    OBVIOUS
  <2>1. Linked(x)' = Linked(x) /\ OneRow(x)
    BY <1>2 DEF CatalogueInv, Linked
  <2>2. \A q \in Syncs : Inserting(q, x)' => Inserting(q, x) \/ (q = p /\ r.pc = "insert" /\ r.item = x)
    BY <1>1 DEF Inserting
  <2> QED
    BY <2>1, <2>2 DEF OneRow
<1>7. Category \notin raced' => OneCategory'
  <2>1. \A q \in Syncs : At(q, "newcategory")' => At(q, "newcategory") \/ (q = p /\ r.pc = "newcategory")
    BY <1>1 DEF At
  <2> QED
    BY <1>2, <2>1 DEF CatalogueInv, OneCategory
<1>8. LossExplained'
  BY <1>1, <1>2 DEF CatalogueInv, LossExplained, AtALoss, InBreaker, Syncs
<1> QED
  BY <1>1, <1>3, <1>4, <1>5, <1>6, <1>7, <1>8 DEF CatalogueInv

\* What the steps of one sync leave alone besides the tables keeps its type.
LEMMA OnlyTypes ==
  ASSUME CatalogueInv, NEW p \in Syncs, Only(p), UNCHANGED categories,
         raced' \subseteq Item \cup {Category}
  PROVE  OtherTypes'
BY DEF CatalogueInv, OtherTypes, Only

LEMMA AwayKnows ==
  ASSUME CatalogueInv, NEW p \in Syncs, NEW s \in Offer
  PROVE  /\ Knows(p, [Idle EXCEPT !.pc = "sent", !.snap = s])
         /\ Knows(p, Reading(s))
<1>1. [Idle EXCEPT !.pc = "sent", !.snap = s] \in SyncState /\ Reading(s) \in SyncState
  BY DEF Idle, Reading, SyncState
<1> QED
  BY <1>1, OffersDiffer DEF Knows, Idle, Reading, Holding, InBreaker

\* The timer outside its breaker leaves no loss behind.
LEMMA NoLossPending ==
  ASSUME CatalogueInv, NEW p \in Syncs, sync[p].pc \notin InBreaker
  PROVE  \A i \in DOMAIN rows : ~ (AtALoss(rows[i]) /\ ~ rows[i].blind /\ p = Timer)
BY DEF CatalogueInv, LossExplained, InBreaker

LEMMA StartInv == ASSUME CatalogueInv, NEW p \in Syncs, Start(p) PROVE CatalogueInv'
<1> DEFINE r == IF page # NoOffer THEN Reading(page) ELSE [Idle EXCEPT !.pc = "sent", !.snap = offer]
<1>1. Knows(p, r) /\ r.pc \in {"sent", "category"}
  <2>1. page # NoOffer => page \in Offer
    BY DEF CatalogueInv, OtherTypes
  <2>2. offer \in Offer
    BY DEF CatalogueInv, OtherTypes
  <2> QED
    BY <2>1, <2>2, AwayKnows DEF Reading, Idle
<1>2. sync' = [sync EXCEPT ![p] = r] /\ UNCHANGED <<catalogueVars, raced>> /\ At(p, "idle")
  BY DEF Start
<1>3. OtherTypes'
  BY DEF CatalogueInv, OtherTypes, Start, catalogueVars
<1> HIDE DEF r
<1> QED
  BY <1>1, <1>2, <1>3, OneSync, NoLossPending DEF At, Holding, InBreaker

LEMMA AnsweredInv == ASSUME CatalogueInv, NEW p \in Syncs, Answered(p) PROVE CatalogueInv'
<1>1. sync[p].snap \in Offer
  BY DEF CatalogueInv, Knows, Answered, At
<1>2. Knows(p, Reading(sync[p].snap)) /\ Reading(sync[p].snap).pc = "category"
  BY <1>1, AwayKnows DEF Reading, Idle
<1>3. OtherTypes'
  BY <1>1 DEF CatalogueInv, OtherTypes, Answered, catalogueVars
<1> QED
  BY <1>2, <1>3, OneSync, NoLossPending DEF Answered, At, Holding, InBreaker

LEMMA FetchFailsInv == ASSUME CatalogueInv, NEW p \in Syncs, FetchFails(p) PROVE CatalogueInv'
<1>1. OtherTypes'
  BY OnlyTypes DEF FetchFails, catalogueVars, CatalogueInv, OtherTypes
<1> QED
  BY <1>1, IdleKnows, OneSync, NoLossPending
  DEF FetchFails, EndSync, At, Holding, InBreaker, Idle

LEMMA FindCategoryInv ==
  ASSUME CatalogueInv, NEW p \in Syncs, FindCategory(p) PROVE CatalogueInv'
<1> DEFINE to(pc) == [sync[p] EXCEPT !.pc = pc]
<1>1. \A pc \in {"newcategory", "items"} : Knows(p, to(pc)) /\ to(pc).pc = pc
  <2> SUFFICES ASSUME NEW pc \in {"newcategory", "items"} PROVE Knows(p, to(pc)) /\ to(pc).pc = pc
    OBVIOUS
  <2>1. Knows(p, sync[p]) /\ sync[p].pc = "category"
    BY DEF CatalogueInv, FindCategory, At
  <2>2. to(pc) \in SyncState /\ to(pc).pc = pc /\ to(pc).snap = sync[p].snap /\ to(pc).todo = sync[p].todo
    BY <2>1 DEF Knows, SyncState
  <2> HIDE DEF to
  <2> QED
    BY <2>1, <2>2 DEF Knows, Holding, InBreaker
<1>2. OtherTypes'
  BY OnlyTypes DEF FindCategory, catalogueVars, CatalogueInv, OtherTypes
<1>3. raced \subseteq raced' /\ UNCHANGED catalogueVars /\ sync[p].pc \notin InBreaker
  BY DEF FindCategory, At, InBreaker
<1>4. CASE categories = 0
  <2>1. sync' = [sync EXCEPT ![p] = to("newcategory")]
    BY <1>4 DEF FindCategory, Goto
  <2>2. Category \in raced' \/ \A q \in Syncs : ~ At(q, "newcategory")
    BY <1>4 DEF FindCategory
  <2> HIDE DEF to
  <2> QED
    BY <1>1, <1>2, <1>3, <1>4, <2>1, <2>2, OneSync, NoLossPending DEF Holding
<1>5. CASE categories # 0
  <2>1. sync' = [sync EXCEPT ![p] = to("items")]
    BY <1>5 DEF FindCategory, Goto
  <2> HIDE DEF to
  <2> QED
    BY <1>1, <1>2, <1>3, <2>1, OneSync, NoLossPending DEF Holding
<1> QED
  BY <1>4, <1>5

\* NextItem leaves a sync idle or at its next item.
Onwards(p) ==
  IF sync[p].todo = {sync[p].item} THEN Idle
  ELSE [Idle EXCEPT !.pc = "items", !.snap = sync[p].snap,
                    !.todo = sync[p].todo \ {sync[p].item}]

LEMMA OnwardsKnows ==
  ASSUME CatalogueInv, NEW p \in Syncs, sync[p].pc \in Holding \cup {"insert"}
  PROVE  /\ Knows(p, Onwards(p)) /\ Onwards(p).pc \in {"idle", "items"}
         /\ NextItem(p) => sync' = [sync EXCEPT ![p] = Onwards(p)]
<1>1. Knows(p, sync[p]) /\ sync[p].snap \in Offer
  BY DEF CatalogueInv, Knows, Holding
<1> DEFINE r == [Idle EXCEPT !.pc = "items", !.snap = sync[p].snap,
                    !.todo = sync[p].todo \ {sync[p].item}]
<1>2. r \in SyncState /\ r.pc = "items" /\ r.snap = sync[p].snap
  BY <1>1 DEF Idle, SyncState, Knows
<1>3. Knows(p, r)
  <2> HIDE DEF r
  <2> QED
    BY <1>1, <1>2, OffersDiffer DEF Knows, Holding, InBreaker
<1>4. Knows(p, Onwards(p)) /\ Onwards(p).pc \in {"idle", "items"}
  BY <1>2, <1>3, IdleKnows DEF Onwards, Idle
<1>5. NextItem(p) => sync' = [sync EXCEPT ![p] = Onwards(p)]
  BY DEF NextItem, Onwards
<1> QED
  BY <1>4, <1>5

\* The SELECT of UpsertFromUpstream: what it finds is linked to the item, and what
\* it does not find, while another sync does not either, is raced for.
LEMMA FindInv == ASSUME CatalogueInv, NEW p \in Syncs, Find(p) PROVE CatalogueInv'
<1>1. PICK x \in Item : FindBy(p, x, Linked(x))
  BY DEF Find
<1>2. Knows(p, sync[p]) /\ sync[p].pc = "items"
  BY <1>1 DEF CatalogueInv, FindBy, At
<1>3. OtherTypes'
  <2>1. raced' \subseteq raced \cup {x}
    BY <1>1 DEF FindBy
  <2>2. raced \subseteq Item \cup {Category}
    BY DEF CatalogueInv, OtherTypes
  <2> QED
    BY <1>1, <2>1, <2>2, OnlyTypes DEF FindBy, catalogueVars
<1>4. UNCHANGED catalogueVars /\ raced \subseteq raced' /\ sync[p].pc \notin InBreaker
  BY <1>1, <1>2 DEF FindBy, InBreaker
<1>5. CASE Linked(x) = {}
  <2> DEFINE r == [sync[p] EXCEPT !.pc = "insert", !.item = x]
  <2>1. sync' = [sync EXCEPT ![p] = r]
    BY <1>1, <1>5 DEF FindBy
  <2>2. r \in SyncState /\ r.pc = "insert" /\ r.item = x /\ r.snap = sync[p].snap /\ r.todo = sync[p].todo
    BY <1>2 DEF Knows, SyncState
  <2>3. x \in raced' \/ \A q \in Syncs : ~ Inserting(q, x)
    BY <1>1, <1>5 DEF FindBy, Inserting, At
  <2> HIDE DEF r
  <2>4. Knows(p, r)
    BY <1>2, <2>2 DEF Knows, Holding, InBreaker
  <2> QED
    BY <1>3, <1>4, <1>5, <2>1, <2>2, <2>3, <2>4, OneSync, NoLossPending DEF Holding
<1>6. CASE Linked(x) # {}
  <2>1. PICK i \in Linked(x) :
          sync' = [sync EXCEPT ![p].pc = "refresh", ![p].item = x, ![p].id = i]
    BY <1>1, <1>6 DEF FindBy
  <2> DEFINE r == [sync[p] EXCEPT !.pc = "refresh", !.item = x, !.id = i]
  <2>2. sync' = [sync EXCEPT ![p] = r]
    BY <2>1 DEF CatalogueInv
  <2>3. i \in DOMAIN rows /\ rows[i].source = "upstream" /\ rows[i].outer = x /\ i \in Nat /\ i < nextRow
    BY DEF Linked, CatalogueInv, RowsOK
  <2>4. /\ r \in SyncState /\ r.pc = "refresh" /\ r.item = x /\ r.id = i
        /\ r.snap = sync[p].snap /\ r.todo = sync[p].todo
    BY <1>2, <2>3 DEF Knows, SyncState
  <2> HIDE DEF r
  <2>5. Knows(p, r)
    BY <1>2, <2>3, <2>4 DEF Knows, Holding, InBreaker
  <2>6. \A q \in Syncs : sync[q].pc \in Holding /\ sync[q].id = i => sync[q].item = x
    BY <2>3 DEF CatalogueInv, Knows
  <2> QED
    BY <1>3, <1>4, <2>2, <2>4, <2>5, <2>6, OneSync, NoLossPending
<1> QED
  BY <1>5, <1>6

\* The breaker's copy is one of a row sold at a loss.
LEMMA CheckInv == ASSUME CatalogueInv, NEW p \in Syncs, Check(p) PROVE CatalogueInv'
<1> DEFINE i == sync[p].id
           r == [sync[p] EXCEPT !.pc = "raise", !.copy = rows[i]]
<1>1. Knows(p, sync[p]) /\ sync[p].pc = "check" /\ p = Timer
  BY DEF CatalogueInv, Check, At, Knows, InBreaker
<1>2. OtherTypes' /\ UNCHANGED <<catalogueVars, raced>>
  <2>1. raced' \subseteq Item \cup {Category}
    BY DEF Check, CatalogueInv, OtherTypes
  <2> QED
    BY <2>1, OnlyTypes DEF Check, catalogueVars
<1>3. \A j \in DOMAIN rows : AtALoss(rows[j]) /\ ~ rows[j].blind => j = i
  BY <1>1 DEF CatalogueInv, LossExplained
<1>4. CASE i \in DOMAIN rows /\ AtALoss(rows[i])
  <2>1. sync' = [sync EXCEPT ![p] = r]
    BY <1>4 DEF Check, CatalogueInv
  <2>2. rows[i] \in Row
    BY <1>4 DEF CatalogueInv, RowsOK
  <2>3. /\ r \in SyncState /\ r.pc = "raise" /\ r.copy = rows[i] /\ r.id = i
        /\ r.item = sync[p].item /\ r.snap = sync[p].snap /\ r.todo = sync[p].todo
    BY <1>1, <2>2 DEF Knows, SyncState
  <2> HIDE DEF r
  <2>4. Knows(p, r)
    BY <1>1, <1>4, <2>2, <2>3 DEF Knows, Holding, InBreaker
  <2>5. \A q \in Syncs : sync[q].pc \in Holding /\ sync[q].id = r.id => sync[q].item = r.item
    BY <1>1, <2>3 DEF CatalogueInv, RowsShared, Holding
  <2> QED
    BY <1>2, <1>3, <2>1, <2>3, <2>4, <2>5, OneSync DEF InBreaker
<1>5. CASE ~ (i \in DOMAIN rows /\ AtALoss(rows[i]))
  <2>1. NextItem(p)
    BY <1>5 DEF Check
  <2>2. \A j \in DOMAIN rows : ~ (AtALoss(rows[j]) /\ ~ rows[j].blind)
    BY <1>3, <1>5
  <2> QED
    BY <1>1, <1>2, <2>1, <2>2, OnwardsKnows, OneSync DEF Holding, InBreaker
<1> QED
  BY <1>4, <1>5

LEMMA TimerReturnsInv == ASSUME CatalogueInv, TimerReturns PROVE CatalogueInv'
<1> DEFINE r == [sync[Timer] EXCEPT !.pc = "returned"]
<1>1. Knows(Timer, sync[Timer]) /\ sync[Timer].pc = "idle" /\ Timer \in Syncs
  BY DEF CatalogueInv, TimerReturns, At, Syncs
<1>2. r \in SyncState /\ r.pc = "returned" /\ r.todo = sync[Timer].todo /\ r.snap = sync[Timer].snap
  BY <1>1 DEF Knows, SyncState
<1>3. sync' = [sync EXCEPT ![Timer] = r]
  BY DEF TimerReturns, Goto
<1> HIDE DEF r
<1>4. Knows(Timer, r)
  BY <1>1, <1>2 DEF Knows, Holding, InBreaker
<1>5. OtherTypes' /\ UNCHANGED <<catalogueVars, raced>>
  BY DEF TimerReturns, CatalogueInv, OtherTypes, catalogueVars
<1> QED
  BY <1>1, <1>2, <1>3, <1>4, <1>5, OneSync, NoLossPending DEF Holding, InBreaker

-----------------------------------------------------------------------------
(* Steps that write the tables.                                            *)

\* No row is linked that was not, and no id is used twice.
LinksKept ==
  /\ nextRow <= nextRow' /\ nextRow' \in Nat
  /\ \A i \in DOMAIN rows' : rows'[i].source = "upstream" =>
       i \in DOMAIN rows /\ rows[i].source = "upstream" /\ rows'[i].outer = rows[i].outer

\* No row comes to be sold below its cost but blindly.
LossKept ==
  \A i \in DOMAIN rows' : AtALoss(rows'[i]) =>
    rows'[i].blind \/ (i \in DOMAIN rows /\ AtALoss(rows[i]) /\ ~ rows[i].blind)

LEMMA KnowsKept ==
  ASSUME CatalogueInv, LinksKept, NEW p \in Syncs, NEW r, Knows(p, r)
  PROVE  Knows(p, r)'
<1>1. r.pc \in Holding => r.id \in Nat /\ nextRow \in Nat
  BY DEF Knows, SyncState, CatalogueInv, RowsOK
<1> QED
  BY <1>1 DEF LinksKept, Knows

LEMMA LinkedKept == LinksKept => \A x \in Item : Linked(x)' \subseteq Linked(x)
BY DEF LinksKept, Linked

\* A step of anybody but the syncs.
LEMMA NoSync ==
  ASSUME CatalogueInv, RowsOK', LinksKept, UNCHANGED <<sync, categories, raced>>, OtherTypes',
         LossKept
  PROVE  CatalogueInv'
<1>1. \A p \in Syncs : Knows(p, sync[p])'
  <2> SUFFICES ASSUME NEW p \in Syncs PROVE Knows(p, sync[p])'
    OBVIOUS
  <2>1. Knows(p, sync[p]) /\ sync'[p] = sync[p]
    BY DEF CatalogueInv
  <2>2. \A r : Knows(p, r) => Knows(p, r)'
    BY KnowsKept
  <2> QED
    BY <2>1, <2>2 DEF Knows
<1>2. RowsShared'
  BY DEF CatalogueInv, RowsShared
<1>3. \A x \in Item \ raced' : OneRow(x)'
  BY LinkedKept DEF CatalogueInv, OneRow, Inserting
<1>4. Category \notin raced' => OneCategory'
  BY DEF CatalogueInv, OneCategory, At
<1>5. LossExplained'
  BY DEF CatalogueInv, LossExplained, LossKept
<1> QED
  BY <1>1, <1>2, <1>3, <1>4, <1>5 DEF CatalogueInv

\* Admins write rows that belong to no upstream, and blind ones.
LEMMA PutKept ==
  ASSUME CatalogueInv, NEW i, NEW row \in Row, row.source # "upstream", row.blind,
         UpdateCommodity(i, row)
  PROVE  RowsOK' /\ LinksKept /\ LossKept
BY DEF UpdateCommodity, Put, CatalogueInv, RowsOK, LinksKept, LossKept

LEMMA CreatesKept ==
  ASSUME CatalogueInv, NEW f \in Forms, CreateCommodity(f.sale, f.cost)
  PROVE  RowsOK' /\ LinksKept /\ LossKept
<1> DEFINE row == [source |-> "self", outer |-> NoItem, cost |-> f.cost, sale |-> f.sale,
                   status |-> 1, blind |-> TRUE]
<1>1. row \in Row /\ row.source = "self" /\ row.blind
  BY SyncAssumption DEF Row, Source
<1>2. Insert(row)
  BY DEF CreateCommodity
<1> HIDE DEF row
<1> QED
  BY <1>1, <1>2 DEF Insert, CatalogueInv, RowsOK, LinksKept, LossKept

LEMMA FormsKept ==
  ASSUME CatalogueInv, AdminSavesPoolForm \/ AdminSavesCommodityForm
  PROVE  RowsOK' /\ LinksKept /\ LossKept
<1>1. PICK i \in DOMAIN rows, f \in Forms, source \in {"self", ""}, sale \in Nat :
        UpdateCommodity(i, [source |-> source, outer |-> NoItem, cost |-> f.cost,
                            sale |-> sale, status |-> f.status, blind |-> TRUE])
  BY SyncAssumption DEF AdminSavesPoolForm, AdminSavesCommodityForm
<1> DEFINE row == [source |-> source, outer |-> NoItem, cost |-> f.cost,
                   sale |-> sale, status |-> f.status, blind |-> TRUE]
<1>2. row \in Row /\ row.source # "upstream" /\ row.blind
  BY SyncAssumption DEF Row, Source
<1> HIDE DEF row
<1> QED
  BY <1>1, <1>2, PutKept DEF row

LEMMA BatchesKept ==
  ASSUME CatalogueInv, AdminDeletes \/ AdminSetsStatus \/ AdminAdjustsPrices
  PROVE  RowsOK' /\ LinksKept /\ LossKept
<1>1. CASE AdminDeletes
  BY <1>1 DEF AdminDeletes, DeleteCommodity, CatalogueInv, RowsOK, LinksKept, LossKept
<1>2. CASE AdminSetsStatus
  <2>1. PICK ids \in SUBSET DOMAIN rows, status \in {0, 1} : BatchSetStatus(ids, status)
    BY <1>2 DEF AdminSetsStatus
  <2> DEFINE row(j) == [rows[j] EXCEPT !.status = status]
  <2>2. \A j \in DOMAIN rows :
          /\ row(j) \in Row /\ row(j).source = rows[j].source /\ row(j).outer = rows[j].outer
          /\ row(j).cost = rows[j].cost /\ row(j).sale = rows[j].sale /\ row(j).blind = rows[j].blind
    BY DEF CatalogueInv, RowsOK, Row
  <2>3. rows' = [j \in DOMAIN rows |-> IF j \in ids THEN row(j) ELSE rows[j]] /\ nextRow' = nextRow
    BY <2>1 DEF BatchSetStatus
  <2> HIDE DEF row
  <2> QED
    BY <2>2, <2>3 DEF CatalogueInv, RowsOK, LinksKept, LossKept, AtALoss
<1>3. CASE AdminAdjustsPrices
  <2>1. PICK ids \in SUBSET DOMAIN rows, s \in Steps : BatchAdjustPrice(ids, s.kind, s.op, s.amount)
    BY <1>3 DEF AdminAdjustsPrices
  <2> DEFINE price(j) == Adjusted(rows[j], s.kind, s.op, s.amount)
             row(j) == [rows[j] EXCEPT !.sale = price(j), !.blind = FALSE]
  <2>2. \A j \in DOMAIN rows :
          /\ row(j) \in Row /\ row(j).source = rows[j].source /\ row(j).outer = rows[j].outer
          /\ row(j).cost <= row(j).sale
    <3> SUFFICES ASSUME NEW j \in DOMAIN rows
                 PROVE /\ row(j) \in Row /\ row(j).source = rows[j].source
                       /\ row(j).outer = rows[j].outer /\ row(j).cost <= row(j).sale
      OBVIOUS
    <3>1. rows[j] \in Row
      BY DEF CatalogueInv, RowsOK
    <3>2. price(j) \in Nat /\ price(j) >= rows[j].cost
      BY <3>1, AdjustedCovers
    <3> HIDE DEF price
    <3> QED
      BY <3>1, <3>2 DEF Row
  <2>3. rows' = [j \in DOMAIN rows |-> IF j \in ids THEN row(j) ELSE rows[j]] /\ nextRow' = nextRow
    BY <2>1 DEF BatchAdjustPrice
  <2>4. \A j \in DOMAIN rows : row(j).cost \in Nat /\ row(j).sale \in Nat
    <3> HIDE DEF row
    <3> QED
      BY <2>2 DEF Row
  <2> HIDE DEF row
  <2> QED
    BY <2>2, <2>3, <2>4 DEF CatalogueInv, RowsOK, LinksKept, LossKept, AtALoss
<1> QED
  BY <1>1, <1>2, <1>3

LEMMA ExportKept ==
  ASSUME CatalogueInv, ExportEnds
  PROVE  RowsOK' /\ LinksKept /\ LossKept
<1>1. CASE Exported
  <2> DEFINE row == [market.copy EXCEPT !.source = "market", !.outer = NoItem, !.blind = TRUE]
  <2>1. market.copy \in Row
    BY DEF CatalogueInv, OtherTypes, ExportEnds
  <2>2. row \in Row /\ row.source = "market" /\ row.blind
    BY <2>1 DEF Row, Source
  <2>3. UpdateCommodity(market.id, row)
    BY <1>1 DEF Exported
  <2> HIDE DEF row
  <2> QED
    BY <2>2, <2>3, PutKept
<1>2. CASE ExportFails
  BY <1>2 DEF ExportFails, CatalogueInv, RowsOK, LinksKept, LossKept
<1> QED
  BY <1>1, <1>2 DEF ExportEnds

LEMMA AdminInv == ASSUME CatalogueInv, AdminStep PROVE CatalogueInv'
<1>1. UNCHANGED <<sync, categories, raced>>
  BY DEF AdminStep, AdminCreates, AdminSavesPoolForm, AdminSavesCommodityForm, AdminDeletes,
         AdminSetsStatus, AdminAdjustsPrices, ExportStarts, ExportEnds, EditRows, Quiet
<1>2. RowsOK' /\ LinksKept /\ LossKept
  <2>1. CASE ExportStarts
    BY <2>1 DEF ExportStarts, CatalogueInv, RowsOK, LinksKept, LossKept
  <2> QED
    BY <2>1, CreatesKept, FormsKept, BatchesKept, ExportKept DEF AdminStep, AdminCreates
<1>3. OtherTypes'
  <2>1. CASE ExportStarts
    <3>1. PICK i \in DOMAIN rows : market' = [pc |-> "sent", id |-> i, copy |-> rows[i]]
      BY <2>1 DEF ExportStarts
    <3>2. rows[i] \in Row /\ i \in Nat
      BY DEF CatalogueInv, RowsOK
    <3> QED
      BY <2>1, <3>1, <3>2 DEF ExportStarts, Edit, Quiet, CatalogueInv, OtherTypes
  <2>2. CASE ExportEnds
    BY <2>2 DEF ExportEnds, NoExport, Quiet, CatalogueInv, OtherTypes
  <2>3. CASE EditRows
    BY <2>3 DEF EditRows, Edit, Quiet, CatalogueInv, OtherTypes
  <2> QED
    BY <2>1, <2>2, <2>3
    DEF AdminStep, AdminCreates, AdminSavesPoolForm, AdminSavesCommodityForm, AdminDeletes,
        AdminSetsStatus, AdminAdjustsPrices
<1> QED
  BY <1>1, <1>2, <1>3, NoSync

\* A sync that has written goes on to its breaker or to the next item.
LEMMA Written ==
  ASSUME CatalogueInv, NEW p \in Syncs, NEW r, sync' = [sync EXCEPT ![p] = r],
         RowsOK', OtherTypes', raced \subseteq raced', LossExplained',
         \A q \in Syncs : Knows(q, sync[q])',
         r.pc \in {"idle", "items", "check"},
         r.pc = "check" =>
           sync[p].pc \in Holding /\ r.id = sync[p].id /\ r.item = sync[p].item,
         \A x \in Item \ raced' :
           /\ \A i, j \in Linked(x)' : i = j
           /\ \A q \in Syncs \ {p} : Inserting(q, x) => Linked(x)' = {},
         Category \notin raced' =>
           /\ categories' <= 1
           /\ \A q \in Syncs \ {p} : At(q, "newcategory") => categories' = 0
  PROVE  CatalogueInv'
<1>1. sync' = [q \in Syncs |-> IF q = p THEN r ELSE sync[q]]
  BY DEF CatalogueInv
<1>2. RowsShared'
  BY <1>1 DEF CatalogueInv, RowsShared, Holding
<1>3. \A x \in Item \ raced' : OneRow(x)'
  <2>1. \A q \in Syncs, x \in Item : Inserting(q, x)' => q # p /\ Inserting(q, x)
    BY <1>1 DEF Inserting
  <2> QED
    BY <2>1 DEF CatalogueInv, OneRow
<1>4. Category \notin raced' => OneCategory'
  <2>1. \A q \in Syncs : At(q, "newcategory")' => q # p /\ At(q, "newcategory")
    BY <1>1 DEF At
  <2> QED
    BY <2>1 DEF CatalogueInv, OneCategory
<1> QED
  BY <1>1, <1>2, <1>3, <1>4 DEF CatalogueInv

LEMMA NewCategoryInv ==
  ASSUME CatalogueInv, NEW p \in Syncs, NewCategory(p) PROVE CatalogueInv'
<1> DEFINE r == [sync[p] EXCEPT !.pc = "items"]
<1>1. Knows(p, sync[p]) /\ sync[p].pc = "newcategory"
  BY DEF CatalogueInv, NewCategory, At
<1>2. r \in SyncState /\ r.pc = "items" /\ r.snap = sync[p].snap /\ r.todo = sync[p].todo
  BY <1>1 DEF Knows, SyncState
<1>3. sync' = [sync EXCEPT ![p] = r]
  BY DEF NewCategory, Goto
<1> HIDE DEF r
<1>4. UNCHANGED <<rows, nextRow, raced>> /\ categories' = categories + 1
  BY DEF NewCategory, InsertCategory
<1>5. \A q \in Syncs : Knows(q, sync[q])'
  <2> SUFFICES ASSUME NEW q \in Syncs PROVE Knows(q, sync[q])'
    OBVIOUS
  <2>1. Knows(p, r)
    BY <1>1, <1>2 DEF Knows, Holding, InBreaker
  <2>2. Knows(q, sync'[q])
    BY <1>3, <2>1 DEF CatalogueInv
  <2> QED
    BY <1>4, <2>2 DEF Knows
<1>6. RowsOK' /\ OtherTypes'
  BY <1>4 DEF CatalogueInv, RowsOK, OtherTypes, NewCategory, Only
<1>7. LossExplained'
  <2>1. \A i \in DOMAIN rows : AtALoss(rows[i]) /\ ~ rows[i].blind => p # Timer
    BY <1>1, NoLossPending DEF InBreaker
  <2> QED
    BY <1>3, <1>4, <2>1 DEF CatalogueInv, LossExplained, AtALoss, Syncs
<1>8. \A x \in Item : Linked(x)' = Linked(x)
  BY <1>4 DEF Linked
<1>9. Category \notin raced' =>
        /\ categories' <= 1
        /\ \A q \in Syncs \ {p} : At(q, "newcategory") => categories' = 0
  BY <1>1, <1>4 DEF CatalogueInv, OneCategory, At
<1> QED
  BY <1>2, <1>3, <1>4, <1>5, <1>6, <1>7, <1>8, <1>9, Written DEF CatalogueInv, OneRow

\* A row that is inserted is new to every sync, and the only one unless raced for.
LEMMA InsertItemInv ==
  ASSUME CatalogueInv, NEW p \in Syncs, InsertItem(p) PROVE CatalogueInv'
<1> DEFINE x == sync[p].item
           cost == sync[p].snap[x]
           row == [source |-> "upstream", outer |-> x, cost |-> cost, sale |-> Markup(cost),
                   status |-> 1, blind |-> FALSE]
<1>1. Knows(p, sync[p]) /\ sync[p].pc = "insert" /\ x \in Item /\ cost \in Nat
  <2>1. Knows(p, sync[p]) /\ sync[p].pc = "insert"
    BY DEF CatalogueInv, InsertItem, At
  <2>2. x \in Item /\ sync[p].snap \in Offer
    BY <2>1 DEF Knows
  <2> QED
    BY <2>1, <2>2, SyncAssumption DEF Offer
<1>2. row \in Row /\ row.source = "upstream" /\ row.outer = x /\ ~ AtALoss(row)
  <2> HIDE DEF cost, x
  <2> QED
    BY <1>1, MarkupCovers DEF Row, Source, AtALoss
<1>3. /\ rows' = [i \in DOMAIN rows \cup {nextRow} |-> IF i = nextRow THEN row ELSE rows[i]]
      /\ nextRow' = nextRow + 1 /\ UNCHANGED <<categories, raced>>
  BY DEF InsertItem, InsertUpstream, Insert
<1>4. sync' = [sync EXCEPT ![p] = Onwards(p)] /\ Onwards(p).pc \in {"idle", "items"}
      /\ Knows(p, Onwards(p))
  BY <1>1, OnwardsKnows DEF InsertItem
<1> HIDE DEF row, cost
<1>5. nextRow \in Nat /\ nextRow \notin DOMAIN rows /\ \A i \in DOMAIN rows : rows[i] \in Row /\ i \in Nat
  BY DEF CatalogueInv, RowsOK
<1>6. RowsOK' /\ OtherTypes'
  BY <1>2, <1>3, <1>5 DEF CatalogueInv, RowsOK, OtherTypes, InsertItem, Only
<1>7. \A q \in Syncs : Knows(q, sync[q])'
  <2> SUFFICES ASSUME NEW q \in Syncs PROVE Knows(q, sync[q])'
    OBVIOUS
  <2>1. Knows(q, sync'[q])
    BY <1>4 DEF CatalogueInv
  <2>2. sync'[q].pc \in Holding => sync'[q].id \in Nat
    BY <2>1 DEF Knows, SyncState
  <2>3. sync'[q].pc \in Holding => sync'[q].id # nextRow /\ sync'[q].id < nextRow'
    BY <1>3, <1>5, <2>1, <2>2 DEF Knows
  <2> QED
    BY <1>3, <1>5, <2>1, <2>3 DEF Knows
<1>8. LossExplained'
  <2>1. \A i \in DOMAIN rows : AtALoss(rows[i]) /\ ~ rows[i].blind => p # Timer
    BY <1>1, NoLossPending DEF InBreaker
  <2>2. \A i \in DOMAIN rows' : AtALoss(rows'[i]) =>
          i \in DOMAIN rows /\ rows'[i] = rows[i] /\ AtALoss(rows[i])
    BY <1>2, <1>3
  <2> QED
    BY <1>4, <2>1, <2>2 DEF CatalogueInv, LossExplained, Syncs
<1>9. \A y \in Item \ raced' :
        /\ \A i, j \in Linked(y)' : i = j
        /\ \A q \in Syncs \ {p} : Inserting(q, y) => Linked(y)' = {}
  <2> SUFFICES ASSUME NEW y \in Item \ raced'
               PROVE /\ \A i, j \in Linked(y)' : i = j
                     /\ \A q \in Syncs \ {p} : Inserting(q, y) => Linked(y)' = {}
    OBVIOUS
  <2>1. OneRow(y)
    BY <1>3 DEF CatalogueInv
  <2>2. CASE y = x
    <3>1. Inserting(p, y)
      BY <1>1, <2>2 DEF Inserting
    <3>2. Linked(y) = {} /\ \A q \in Syncs : Inserting(q, y) => q = p
      BY <2>1, <3>1 DEF OneRow
    <3>3. Linked(y)' \subseteq {nextRow}
      BY <1>3, <3>2 DEF Linked
    <3> QED
      BY <3>2, <3>3
  <2>3. CASE y # x
    <3>1. Linked(y)' \subseteq Linked(y)
      BY <1>2, <1>3, <2>3 DEF Linked
    <3> QED
      BY <2>1, <3>1 DEF OneRow
  <2> QED
    BY <2>2, <2>3
<1> HIDE DEF x
<1>10. Category \notin raced' =>
        /\ categories' <= 1
        /\ \A q \in Syncs \ {p} : At(q, "newcategory") => categories' = 0
  BY <1>3 DEF CatalogueInv, OneCategory
<1> QED
  BY <1>3, <1>4, <1>6, <1>7, <1>8, <1>9, <1>10, Written

LEMMA RefreshItemInv ==
  ASSUME CatalogueInv, NEW p \in Syncs, RefreshItem(p) PROVE CatalogueInv'
<1> DEFINE i == sync[p].id
           cost == sync[p].snap[sync[p].item]
           blind == p # Timer
           row(j) == [rows[j] EXCEPT !.cost = cost, !.blind = blind]
           r == IF p = Timer THEN [sync[p] EXCEPT !.pc = "check"] ELSE Onwards(p)
<1>1. Knows(p, sync[p]) /\ sync[p].pc = "refresh" /\ cost \in Nat /\ i \in Nat
  <2>1. Knows(p, sync[p]) /\ sync[p].pc = "refresh"
    BY DEF CatalogueInv, RefreshItem, At
  <2>2. sync[p].item \in Item /\ sync[p].snap \in Offer /\ i \in Nat
    BY <2>1 DEF Knows, Holding, SyncState
  <2> QED
    BY <2>1, <2>2, SyncAssumption DEF Offer
<1>2. \A j \in DOMAIN rows :
        /\ row(j) \in Row /\ row(j).source = rows[j].source /\ row(j).outer = rows[j].outer
        /\ row(j).blind = blind
  <2> HIDE DEF cost
  <2> QED
    BY <1>1 DEF CatalogueInv, RowsOK, Row
<1>3. /\ rows' = [j \in DOMAIN rows |-> IF j = i THEN row(j) ELSE rows[j]]
      /\ UNCHANGED <<nextRow, categories, raced>>
  BY DEF RefreshItem, Refresh
<1>4. /\ sync' = [sync EXCEPT ![p] = r] /\ Knows(p, r) /\ r.pc \in {"idle", "items", "check"}
      /\ p # Timer => r.pc # "check"
      /\ p = Timer => r.pc = "check" /\ r.id = i /\ r.item = sync[p].item
  <2>1. CASE p = Timer
    <3>1. sync' = [sync EXCEPT ![p] = r]
      BY <2>1 DEF RefreshItem, Goto
    <3>2. /\ r \in SyncState /\ r.pc = "check" /\ r.id = i /\ r.item = sync[p].item
          /\ r.snap = sync[p].snap /\ r.todo = sync[p].todo
      BY <1>1, <2>1 DEF Knows, SyncState
    <3> HIDE DEF r
    <3> QED
      BY <1>1, <2>1, <3>1, <3>2 DEF Knows, Holding, InBreaker
  <2>2. CASE p # Timer
    BY <1>1, <2>2, OnwardsKnows DEF RefreshItem, Holding
  <2> QED
    BY <2>1, <2>2
<1> HIDE DEF row, cost, r
<1>5. RowsOK' /\ OtherTypes' /\ LinksKept
  <2>1. RowsOK' /\ LinksKept
    BY <1>2, <1>3 DEF CatalogueInv, RowsOK, LinksKept
  <2>2. OtherTypes'
    BY <1>3, OnlyTypes DEF RefreshItem, CatalogueInv, OtherTypes
  <2> QED
    BY <2>1, <2>2
<1>6. \A q \in Syncs : Knows(q, sync[q])'
  <2> SUFFICES ASSUME NEW q \in Syncs PROVE Knows(q, sync[q])'
    OBVIOUS
  <2>1. Knows(q, sync'[q])
    BY <1>4 DEF CatalogueInv
  <2>2. \A o : Knows(q, o) => Knows(q, o)'
    BY <1>5, KnowsKept
  <2> QED
    BY <2>1, <2>2 DEF Knows
<1>7. LossExplained'
  <2>1. \A j \in DOMAIN rows : j # i => rows'[j] = rows[j]
    BY <1>3
  <2>2. p # Timer => \A j \in DOMAIN rows : j = i => rows'[j].blind
    BY <1>2, <1>3
  <2>3. \A j \in DOMAIN rows : p = Timer => ~ (AtALoss(rows[j]) /\ ~ rows[j].blind)
    BY <1>1, NoLossPending DEF InBreaker
  <2>4. CASE p = Timer
    <3>1. sync'[Timer].id = i /\ sync'[Timer].pc = "check"
      BY <1>4, <2>4 DEF CatalogueInv
    <3> QED
      BY <1>3, <2>1, <2>3, <2>4, <3>1 DEF LossExplained, AtALoss
  <2>5. CASE p # Timer
    <3>1. sync'[Timer] = sync[Timer]
      BY <1>4, <2>5 DEF CatalogueInv
    <3> QED
      BY <1>3, <2>1, <2>2, <2>5, <3>1 DEF CatalogueInv, LossExplained, AtALoss
  <2> QED
    BY <2>4, <2>5
<1>8. \A x \in Item : Linked(x)' \subseteq Linked(x)
  BY <1>5, LinkedKept
<1> QED
  BY <1>1, <1>3, <1>4, <1>5, <1>6, <1>7, <1>8, Written DEF CatalogueInv, OneRow, OneCategory, Holding

\* The breaker writes a price that covers the cost; a row it links anew is raced for.
LEMMA RaiseInv == ASSUME CatalogueInv, NEW p \in Syncs, Raise(p) PROVE CatalogueInv'
<1> DEFINE i == sync[p].id
           x == sync[p].item
           row == [sync[p].copy EXCEPT !.sale = Markup(sync[p].copy.cost), !.blind = FALSE]
<1>1. /\ Knows(p, sync[p]) /\ sync[p].pc = "raise" /\ p = Timer /\ x \in Item
      /\ sync[p].copy \in Row /\ (sync[p].copy.source = "upstream" => sync[p].copy.outer = x)
  BY DEF CatalogueInv, Raise, At, Knows, InBreaker, Holding
<1>2. row \in Row /\ (row.source = "upstream" => row.outer = x) /\ ~ AtALoss(row)
  <2>1. sync[p].copy.cost \in Nat
    BY <1>1 DEF Row
  <2>2. Markup(sync[p].copy.cost) \in Nat /\ Markup(sync[p].copy.cost) >= sync[p].copy.cost
    BY <2>1, MarkupCovers
  <2> DEFINE price == Markup(sync[p].copy.cost)
  <2> HIDE DEF price, x
  <2>3. row = [sync[p].copy EXCEPT !.sale = price, !.blind = FALSE]
    BY DEF price
  <2>4. price \in Nat /\ price >= sync[p].copy.cost
    BY <2>2 DEF price
  <2> HIDE DEF row
  <2>5. /\ row \in Row /\ row.source = sync[p].copy.source /\ row.outer = sync[p].copy.outer
        /\ row.cost = sync[p].copy.cost /\ row.sale = price
    BY <1>1, <2>3, <2>4 DEF Row
  <2> QED
    BY <1>1, <2>1, <2>4, <2>5 DEF AtALoss
<1>3. rows' = [j \in DOMAIN rows |-> IF j = i THEN row ELSE rows[j]]
      /\ UNCHANGED <<nextRow, categories>>
      /\ raced' = raced \cup {y \in {x} : i \notin Linked(y)}
  BY DEF Raise, UpdateCommodity, Put
<1>4. sync' = [sync EXCEPT ![p] = Onwards(p)] /\ Onwards(p).pc \in {"idle", "items"}
      /\ Knows(p, Onwards(p))
  BY <1>1, OnwardsKnows DEF Raise, Holding
<1> HIDE DEF row
<1>5. RowsOK' /\ OtherTypes'
  <2>1. RowsOK'
    BY <1>2, <1>3 DEF CatalogueInv, RowsOK
  <2>2. raced' \subseteq Item \cup {Category}
    BY <1>1, <1>3 DEF CatalogueInv, OtherTypes
  <2> QED
    BY <1>3, <2>1, <2>2, OnlyTypes DEF Raise
<1>6. \A q \in Syncs : Knows(q, sync[q])'
  <2> SUFFICES ASSUME NEW q \in Syncs PROVE Knows(q, sync[q])'
    OBVIOUS
  <2>1. Knows(q, sync'[q])
    BY <1>4 DEF CatalogueInv
  <2>2. sync'[q].pc \in Holding => sync'[q] = sync[q] /\ (sync[q].id = i => sync[q].item = x)
    BY <1>1, <1>4 DEF CatalogueInv, RowsShared, Holding
  <2> QED
    BY <1>2, <1>3, <2>1, <2>2 DEF Knows
<1>7. LossExplained'
  <2>1. \A j \in DOMAIN rows : AtALoss(rows[j]) /\ ~ rows[j].blind => j = i
    BY <1>1 DEF CatalogueInv, LossExplained
  <2> QED
    BY <1>2, <1>3, <2>1 DEF LossExplained, AtALoss
<1>8. \A y \in Item \ raced' : Linked(y)' \subseteq Linked(y)
  <2> SUFFICES ASSUME NEW y \in Item \ raced', NEW j \in Linked(y)' PROVE j \in Linked(y)
    OBVIOUS
  <2>1. j \in DOMAIN rows /\ rows'[j].source = "upstream" /\ rows'[j].outer = y
    BY <1>3 DEF Linked
  <2>2. CASE j = i
    <3>1. y = x
      BY <1>2, <1>3, <2>1, <2>2
    <3> QED
      BY <1>3, <2>2, <3>1
  <2>3. CASE j # i
    BY <1>3, <2>1, <2>3 DEF Linked
  <2> QED
    BY <2>2, <2>3
<1>9. \A y \in Item \ raced' : OneRow(y)
  BY <1>3 DEF CatalogueInv
<1>10. Category \notin raced' => OneCategory
  BY <1>3 DEF CatalogueInv
<1>11. \A y \in Item \ raced' :
         /\ \A j, k \in Linked(y)' : j = k
         /\ \A q \in Syncs \ {p} : Inserting(q, y) => Linked(y)' = {}
  BY <1>8, <1>9 DEF OneRow
<1>12. Category \notin raced' =>
         /\ categories' <= 1
         /\ \A q \in Syncs \ {p} : At(q, "newcategory") => categories' = 0
  BY <1>3, <1>10 DEF OneCategory
<1>13. raced \subseteq raced'
  BY <1>3
<1> HIDE DEF x, i
<1> QED
  BY <1>4, <1>5, <1>6, <1>7, <1>11, <1>12, <1>13, Written

LEMMA ExitInv == ASSUME CatalogueInv, Exit PROVE CatalogueInv'
<1>1. UNCHANGED <<rows, nextRow, categories, raced>> /\ sync' = [p \in Syncs |-> Idle]
  BY DEF Exit, catalogueVars
<1>2. \A i \in DOMAIN rows : AtALoss(rows[i]) => rows[i].blind
  BY DEF CatalogueInv, LossExplained, Exit, At
<1>3. RowsOK' /\ OtherTypes'
  BY <1>1 DEF CatalogueInv, RowsOK, OtherTypes, Exit, NoExport
<1>4. \A p \in Syncs : Knows(p, sync[p])'
  <2>1. \A p \in Syncs : Knows(p, Idle) /\ sync'[p] = Idle
    BY <1>1, IdleKnows
  <2> QED
    BY <1>1, <2>1 DEF Knows
<1>5. \A p \in Syncs : sync'[p].pc = "idle"
  BY <1>1 DEF Idle
<1> QED
  BY <1>1, <1>2, <1>3, <1>4, <1>5
  DEF CatalogueInv, RowsShared, OneRow, OneCategory, Inserting, At, Linked, LossExplained, Holding, AtALoss

LEMMA OutsideInv ==
  ASSUME CatalogueInv, UpstreamChanges \/ Forget \/ Shutdown \/ UNCHANGED vars
  PROVE  CatalogueInv'
<1>1. UNCHANGED <<catalogueVars, sync, raced>>
  BY DEF UpstreamChanges, Forget, Shutdown, vars
<1>2. OtherTypes'
  BY DEF CatalogueInv, OtherTypes, UpstreamChanges, Forget, Shutdown, vars, catalogueVars
<1>3. RowsOK' /\ LinksKept /\ LossKept
  BY <1>1 DEF CatalogueInv, RowsOK, LinksKept, LossKept, LossExplained, catalogueVars, AtALoss
<1> QED
  BY <1>1, <1>2, <1>3, NoSync DEF catalogueVars

THEOREM CatalogueInvariant == Spec => []CatalogueInv
<1>1. SyncInit => CatalogueInv
  BY InitInv
<1>2. CatalogueInv /\ [Next]_vars => CatalogueInv'
  <2> SUFFICES ASSUME CatalogueInv, [Next]_vars PROVE CatalogueInv'
    OBVIOUS
  <2>1. ASSUME NEW p \in Syncs, Start(p) \/ SyncStep(p) PROVE CatalogueInv'
    BY <2>1, StartInv, AnsweredInv, FetchFailsInv, FindCategoryInv, NewCategoryInv, FindInv,
       InsertItemInv, RefreshItemInv, CheckInv, RaiseInv DEF SyncStep
  <2>2. CASE AdminStep
    BY <2>2, AdminInv
  <2>3. CASE TimerReturns
    BY <2>3, TimerReturnsInv
  <2>4. CASE Exit
    BY <2>4, ExitInv
  <2> QED
    BY <2>1, <2>2, <2>3, <2>4, OutsideInv DEF Next
<1> QED
  BY <1>1, <1>2, PTL DEF Spec

-----------------------------------------------------------------------------
(* What follows from the invariant.                                        *)

\* The tables and everything the goroutines carry are of their kind, whatever the
\* syncs, the admins, the export and the shutdown do at once.
THEOREM SyncTypeCorrect == Spec => []SyncTypeOK
<1>1. CatalogueInv => SyncTypeOK
  <2> SUFFICES ASSUME CatalogueInv PROVE SyncTypeOK
    OBVIOUS
  <2>1. \A p \in Syncs : sync[p] \in SyncState /\ (sync[p].todo # {} => sync[p].snap # NoOffer)
    BY DEF CatalogueInv, Knows
  <2>2. sync \in [Syncs -> SyncState]
    BY <2>1 DEF CatalogueInv
  <2> QED
    BY <2>1, <2>2 DEF CatalogueInv, SyncTypeOK, OtherTypes, RowsOK
<1> QED
  BY <1>1, CatalogueInvariant, PTL

\* UpsertFromUpstream and UpsertCategory make no second row of what they find, but
\* where two syncs raced for one, for any number of syncs and items.
THEOREM RowsAreUnique == Spec => []OneRowPerItem
<1>1. CatalogueInv => OneRowPerItem
  <2> SUFFICES ASSUME CatalogueInv PROVE OneRowPerItem
    OBVIOUS
  <2>1. ASSUME NEW x \in Item \ raced PROVE Cardinality(Linked(x)) <= 1
    <3>1. \A i, j \in Linked(x) : i = j
      BY DEF CatalogueInv, OneRow
    <3>2. CASE Linked(x) = {}
      BY <3>2, FS_EmptySet
    <3>3. CASE Linked(x) # {}
      <4>1. PICK i : Linked(x) = {i}
        BY <3>1, <3>3
      <4> QED
        BY <4>1, FS_Singleton
    <3> QED
      BY <3>2, <3>3
  <2> QED
    BY <2>1 DEF CatalogueInv, OneCategory, OneRowPerItem
<1> QED
  BY <1>1, CatalogueInvariant, PTL

\* Batches of prices, new rows and the breaker never sell below the cost: what
\* does is a form, the admin's sync, an export, or the timer's until it has looked.
THEOREM LossesExplained == Spec => []LossExplained
<1>1. CatalogueInv => LossExplained
  BY DEF CatalogueInv
<1> QED
  BY <1>1, CatalogueInvariant, PTL

\* A price and a listing change by the admin's hand, by a breaker that raises a
\* price below the cost, or by one whose copy of the row is stale.
THEOREM AdminChoiceKept == Spec => SyncKeepsAdminChoice
<1> DEFINE Kept == \A i \in DOMAIN rows \cap DOMAIN rows' : rows'[i] # rows[i] => KeepsAdminChoice(i)
<1>1. CatalogueInv /\ [Next]_vars => [Kept]_vars
  <2> SUFFICES ASSUME CatalogueInv, Next PROVE Kept
    OBVIOUS
  <2>1. CASE AdminStep
    <3>1. edits' # edits \/ market' # market
      <4>1. CASE ExportEnds
        BY <4>1 DEF ExportEnds, NoExport
      <4>2. CASE Edit
        BY <4>2 DEF Edit, CatalogueInv, OtherTypes
      <4> QED
        BY <2>1, <4>1, <4>2
        DEF AdminStep, AdminCreates, AdminSavesPoolForm, AdminSavesCommodityForm, AdminDeletes,
            AdminSetsStatus, AdminAdjustsPrices, ExportStarts, EditRows
    <3> QED
      BY <3>1 DEF KeepsAdminChoice
  <2>2. ASSUME NEW p \in Syncs, InsertItem(p) PROVE Kept
    <3>1. nextRow \notin DOMAIN rows
      BY DEF CatalogueInv, RowsOK
    <3> QED
      BY <2>2, <3>1 DEF InsertItem, InsertUpstream, Insert
  <2>3. ASSUME NEW p \in Syncs, RefreshItem(p) PROVE Kept
    <3> SUFFICES ASSUME NEW i \in DOMAIN rows, rows'[i] # rows[i] PROVE KeepsAdminChoice(i)
      OBVIOUS
    <3>1. rows[i] \in Row
      BY DEF CatalogueInv, RowsOK
    <3>2. PICK cost, blind : rows'[i] = [rows[i] EXCEPT !.cost = cost, !.blind = blind]
      BY <2>3 DEF RefreshItem, Refresh
    <3>3. rows'[i].sale = rows[i].sale /\ rows'[i].status = rows[i].status /\ rows[i].sale \in Nat
      BY <3>1, <3>2 DEF Row
    <3> QED
      BY <3>3 DEF KeepsAdminChoice
  <2>4. ASSUME NEW p \in Syncs, Raise(p) PROVE Kept
    <3> SUFFICES ASSUME NEW i \in DOMAIN rows, rows'[i] # rows[i] PROVE KeepsAdminChoice(i)
      OBVIOUS
    <3> DEFINE copy == sync[p].copy
               price == Markup(copy.cost)
    <3>1. p = Timer /\ sync[p].pc = "raise" /\ copy \in Row /\ AtALoss(copy)
      BY <2>4 DEF CatalogueInv, Knows, Raise, At, InBreaker
    <3>2. sync[p].id = i /\ rows'[i] = [copy EXCEPT !.sale = price, !.blind = FALSE]
      BY <2>4 DEF Raise, UpdateCommodity, Put
    <3>3. CASE copy # rows[i]
      BY <3>1, <3>2, <3>3 DEF KeepsAdminChoice, At
    <3>4. CASE copy = rows[i]
      <4>1. copy.cost \in Nat /\ copy.sale \in Nat
        BY <3>1 DEF Row
      <4>2. price \in Nat /\ price >= copy.cost
        BY <4>1, MarkupCovers
      <4> HIDE DEF price
      <4>3. rows'[i].sale = price /\ rows'[i].status = copy.status
        BY <3>1, <3>2 DEF Row
      <4>4. copy.sale < price
        BY <3>1, <4>1, <4>2 DEF AtALoss
      <4> HIDE DEF copy
      <4> QED
        BY <3>1, <3>4, <4>1, <4>2, <4>3, <4>4 DEF KeepsAdminChoice
    <3> QED
      BY <3>3, <3>4
  <2>5. ASSUME UNCHANGED rows PROVE Kept
    BY <2>5
  <2>6. ASSUME NEW p \in Syncs, Start(p) \/ SyncStep(p) PROVE Kept
    <3>1. \/ InsertItem(p) \/ RefreshItem(p) \/ Raise(p) \/ UNCHANGED rows
      BY <2>6 DEF SyncStep, Start, Answered, FetchFails, FindCategory, NewCategory, Find, FindBy,
                  Check, catalogueVars
    <3> QED
      BY <2>2, <2>3, <2>4, <2>5, <3>1
  <2> QED
    BY <2>1, <2>5, <2>6 DEF Next, UpstreamChanges, Forget, Shutdown, TimerReturns, Exit, catalogueVars
<1> QED
  BY <1>1, CatalogueInvariant, PTL DEF Spec, SyncKeepsAdminChoice
=============================================================================
