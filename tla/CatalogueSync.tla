---------------------------- MODULE CatalogueSync ----------------------------
(***************************************************************************)
(* Everything that writes the catalogue at once: the periodic sync with    *)
(* its price breaker (internal/upstream/syncer.go), the sync an admin      *)
(* starts (HandlePoolSync), the admin's pages and batches                  *)
(* (internal/admin/pool.go, handlers.go), the export of a row to the       *)
(* downstream market, and the shutdown (src/main.go).  Both syncs fetch    *)
(* one upstream through its response cache.                                *)
(*                                                                         *)
(* A sync is a goroutine that goes from one call of the upstream or of the *)
(* store to the next; everything else may run in between.                  *)
(***************************************************************************)
EXTENDS Catalogue

CONSTANTS
  Timer,        \* the goroutine of the periodic sync
  Pool,         \* requests of HandlePoolSync the server works on at once
  Cost,         \* prices the upstream asks, multiples of 10
  Forms,        \* what an admin types: records sale, cost, status
  Steps,        \* batch price steps: records kind, op, amount
  MaxRequests,  \* bound: how many syncs admins start
  MaxEdits,     \* bound: what an admin does to rows, beside starting syncs
  MaxOffers     \* bound: how often the upstream changes its offer

ASSUME SyncAssumption ==
  /\ Timer \notin Pool
  /\ \A c \in Cost : c \in Nat \ {0} /\ c % 10 = 0
  /\ Forms \subseteq [sale : Nat, cost : Nat, status : {0, 1}]
  /\ Steps \subseteq [kind : {"fixed", "percent"}, op : {"+", "-"}, amount : Nat \ {0}]

VARIABLES
  offer,        \* external: what the upstream sells, the price of each item
  page,         \* the upstream's answer in the response cache
  requests,     \* how many syncs admins have started
  sync,         \* the local state of each sync
  market,       \* the local state of HandleDownstreamSyncProduct
  phase,        \* of the process: up, stopping, exited
  edits, offers,\* how much of the bounds is used up
  raced         \* history: what two syncs were about to insert at once, or the breaker
                \* wrote back as linked after an admin had unlinked it

vars == <<catalogueVars, offer, page, requests, sync, market, phase, edits, offers, raced>>

Syncs == {Timer} \cup Pool
Offer == [Item -> Cost]
NoOffer == [x \in {NoItem} |-> 0]
NoRow == [none |-> TRUE]
NoExport == [pc |-> "idle", id |-> 0, copy |-> NoRow]

Category == "category"
Idle == [pc |-> "idle", snap |-> NoOffer, todo |-> {}, item |-> NoItem, id |-> 0,
         copy |-> NoRow]

At(p, pc) == sync[p].pc = pc
Running == phase # "exited"

SyncInit ==
  /\ CatalogueInit
  /\ offer \in Offer
  /\ page = NoOffer
  /\ requests = 0
  /\ sync = [p \in Syncs |-> Idle]
  /\ market = NoExport
  /\ phase = "up"
  /\ edits = 0
  /\ offers = 0
  /\ raced = {}

-----------------------------------------------------------------------------
(* One sync.                                                               *)

\* A sync with its snapshot, before the first item, after a defect that loses it.
ReadingNothing(snap) == [Idle EXCEPT !.pc = "category", !.todo = Item]
Reading(snap) == [Idle EXCEPT !.pc = "category", !.snap = snap, !.todo = Item]
Goto(p, pc) == sync' = [sync EXCEPT ![p].pc = pc]
EndSync(p)  == sync' = [sync EXCEPT ![p] = Idle]
Only(p) == UNCHANGED <<offer, page, requests, market, phase, edits, offers>>

\* The ticker of the timer's goroutine fires, also when stopChan is closed
\* (select picks either); a new request needs a listener that still accepts.
\* FetchOneSnapshot: an answer the cache still holds is the snapshot.  A call
\* that misses is answered with what the upstream offers at that moment.
Start(p) ==
  /\ At(p, "idle")
  /\ IF p = Timer THEN Running /\ UNCHANGED requests
     ELSE phase = "up" /\ requests < MaxRequests /\ requests' = requests + 1
  /\ sync' = [sync EXCEPT ![p] =
       IF page # NoOffer THEN Reading(page) ELSE [Idle EXCEPT !.pc = "sent", !.snap = offer]]
  /\ UNCHANGED <<catalogueVars, offer, page, market, phase, edits, offers, raced>>

\* The answer arrives and is cached; a later one may be overwritten.
Answered(p) ==
  /\ At(p, "sent") /\ Running
  /\ page' = sync[p].snap
  /\ sync' = [sync EXCEPT ![p] = Reading(sync[p].snap)]
  /\ UNCHANGED <<catalogueVars, offer, requests, market, phase, edits, offers, raced>>

\* The upstream fails, refuses or is late: nothing of its snapshot is used.
FetchFails(p) ==
  /\ At(p, "sent") /\ Running
  /\ EndSync(p)
  /\ Only(p) /\ UNCHANGED <<catalogueVars, raced>>

\* UpsertCategory, its SELECT, and the INSERT when there is no such row; the
\* UPDATE of one leaves its key.
FindCategory(p) ==
  /\ At(p, "category") /\ Running
  /\ IF categories = 0
     THEN /\ Goto(p, "newcategory")
          /\ raced' = raced \cup {Category : q \in {q \in Syncs : At(q, "newcategory")}}
     ELSE Goto(p, "items") /\ UNCHANGED raced
  /\ Only(p) /\ UNCHANGED catalogueVars
NewCategory(p) ==
  /\ At(p, "newcategory") /\ Running
  /\ InsertCategory
  /\ Goto(p, "items")
  /\ Only(p) /\ UNCHANGED <<rows, nextRow, raced>>

\* UpsertFromUpstream, its SELECT, and a defect of it.
FindBy(p, x, found) ==
  /\ At(p, "items") /\ Running /\ x \in sync[p].todo
  /\ IF found = {}
     THEN /\ sync' = [sync EXCEPT ![p].pc = "insert", ![p].item = x]
          /\ raced' = raced \cup {x : q \in {q \in Syncs : At(q, "insert") /\ sync[q].item = x}}
     ELSE /\ \E i \in found :
               sync' = [sync EXCEPT ![p].pc = "refresh", ![p].item = x, ![p].id = i]
          /\ UNCHANGED raced
  /\ Only(p) /\ UNCHANGED catalogueVars
FindListed(p) == \E x \in Item : FindBy(p, x, LinkedListed(x))
Find(p) == \E x \in Item : FindBy(p, x, Linked(x))

\* A defect: the loop does not move on.
SameItem(p) == Goto(p, "items")

\* Go on with the next item; after the last the sync is over.
NextItem(p) ==
  sync' = [sync EXCEPT ![p] =
    IF @.todo = {@.item} THEN Idle
    ELSE [Idle EXCEPT !.pc = "items", !.snap = sync[p].snap,
                      !.todo = sync[p].todo \ {sync[p].item}]]

InsertItem(p) ==
  /\ At(p, "insert") /\ Running
  /\ InsertUpstream(sync[p].item, sync[p].snap[sync[p].item])
  /\ NextItem(p)
  /\ Only(p) /\ UNCHANGED <<categories, raced>>

\* Only the periodic sync looks at the price it has just put at risk.
RefreshItem(p) ==
  /\ At(p, "refresh") /\ Running
  /\ Refresh(sync[p].id, sync[p].snap[sync[p].item], p # Timer)
  /\ IF p = Timer THEN Goto(p, "check") ELSE NextItem(p)
  /\ Only(p) /\ UNCHANGED <<categories, raced>>

\* The breaker, GetCommodityByID: it takes a copy of the whole row.
Check(p) ==
  /\ At(p, "check") /\ Running
  /\ LET i == sync[p].id
     IN IF i \in DOMAIN rows /\ AtALoss(rows[i])
        THEN sync' = [sync EXCEPT ![p].pc = "raise", ![p].copy = rows[i]]
        ELSE NextItem(p)
  /\ Only(p) /\ UNCHANGED <<catalogueVars, raced>>

\* The breaker, UpdateCommodity: it writes the whole copy back.
Raise(p) ==
  /\ At(p, "raise") /\ Running
  /\ UpdateCommodity(sync[p].id,
       [sync[p].copy EXCEPT !.sale = Markup(sync[p].copy.cost), !.blind = FALSE])
  /\ raced' = raced \cup {x \in {sync[p].item} : sync[p].id \notin Linked(x)}
  /\ NextItem(p)
  /\ Only(p) /\ UNCHANGED categories

SyncStep(p) ==
  \/ Answered(p) \/ FetchFails(p) \/ FindCategory(p) \/ NewCategory(p) \/ Find(p)
  \/ InsertItem(p) \/ RefreshItem(p) \/ Check(p) \/ Raise(p)

-----------------------------------------------------------------------------
(* The admin's requests that are one call of the store.                    *)

Quiet == UNCHANGED <<categories, offer, page, requests, sync, phase, offers, raced>>
Edit == phase = "up" /\ edits < MaxEdits /\ edits' = edits + 1
EditRows == Edit /\ UNCHANGED market /\ Quiet

\* HandleCreateCommodity: the form of the commodities page.
AdminCreates ==
  /\ EditRows
  /\ \E f \in Forms : CreateCommodity(f.sale, f.cost)

\* HandlePoolUpdate: the form of the pool page carries no source, outer_id or
\* price, and the whole row is written.
AdminSavesPoolForm ==
  /\ EditRows
  /\ \E i \in DOMAIN rows, f \in Forms :
       UpdateCommodity(i, [source |-> "", outer |-> NoItem, cost |-> f.cost, sale |-> f.sale,
                           status |-> f.status, blind |-> TRUE])

\* HandleUpdateCommodity: the form of the commodities page says source "self"
\* and carries no outer_id and no sale_price.
AdminSavesCommodityForm ==
  /\ EditRows
  /\ \E i \in DOMAIN rows, f \in Forms :
       UpdateCommodity(i, [source |-> "self", outer |-> NoItem, cost |-> f.cost, sale |-> 0,
                           status |-> f.status, blind |-> TRUE])

\* HandlePoolDelete, HandleDeleteCommodity.
AdminDeletes == EditRows /\ \E i \in DOMAIN rows : DeleteCommodity(i)

\* HandlePoolBatchStatus.
AdminSetsStatus ==
  /\ EditRows
  /\ \E ids \in SUBSET DOMAIN rows \ {{}}, status \in {0, 1} : BatchSetStatus(ids, status)

\* HandlePoolBatchPrice.
AdminAdjustsPrices ==
  /\ EditRows
  /\ \E ids \in SUBSET DOMAIN rows \ {{}}, s \in Steps :
       BatchAdjustPrice(ids, s.kind, s.op, s.amount)

\* HandleDownstreamSyncProduct reads the row and sends it to the market, which
\* takes up to 15 seconds.
ExportStarts ==
  /\ Edit /\ market.pc = "idle"
  /\ \E i \in DOMAIN rows : market' = [pc |-> "sent", id |-> i, copy |-> rows[i]]
  /\ UNCHANGED <<rows, nextRow>> /\ Quiet

\* An attempt is answered with a product: the whole copy is written back as the
\* market's.
Exported ==
  UpdateCommodity(market.id,
    [market.copy EXCEPT !.source = "market", !.outer = NoItem, !.blind = TRUE])

\* execute gives up, at an error of the market's or when no attempt is answered,
\* though one may have made the product: the row stays.
ExportFails == UNCHANGED <<rows, nextRow>>

ExportEnds ==
  /\ market.pc = "sent" /\ Running
  /\ market' = NoExport
  /\ Exported \/ ExportFails
  /\ UNCHANGED edits /\ Quiet

AdminStep ==
  \/ AdminCreates \/ AdminSavesPoolForm \/ AdminSavesCommodityForm \/ AdminDeletes
  \/ AdminSetsStatus \/ AdminAdjustsPrices \/ ExportStarts \/ ExportEnds

-----------------------------------------------------------------------------
(* The world outside and the end of the process.                           *)

\* The upstream reprices its commodities.
UpstreamChanges ==
  /\ offers < MaxOffers /\ offers' = offers + 1
  /\ offer' \in Offer \ {offer}
  /\ UNCHANGED <<catalogueVars, page, requests, sync, market, phase, edits, raced>>

\* TTLCache: the entry's minute is over, or it was evicted for another one.
Forget ==
  /\ page # NoOffer /\ page' = NoOffer
  /\ UNCHANGED <<catalogueVars, offer, requests, sync, market, phase, edits, offers, raced>>

\* main after a signal: srv.Shutdown refuses new requests and waits 5 seconds
\* for the running ones, which need not be enough, then syncer.Stop closes
\* stopChan and waits for the timer's goroutine.
Shutdown ==
  /\ phase = "up" /\ phase' = "stopping"
  /\ UNCHANGED <<catalogueVars, offer, page, requests, sync, market, edits, offers, raced>>
TimerReturns ==
  /\ phase = "stopping" /\ At(Timer, "idle")
  /\ Goto(Timer, "returned")
  /\ UNCHANGED <<catalogueVars, offer, page, requests, market, phase, edits, offers, raced>>

\* The store is closed and the process ends, whatever its requests are at.
Exit ==
  /\ phase = "stopping" /\ At(Timer, "returned")
  /\ phase' = "exited"
  /\ page' = NoOffer /\ sync' = [p \in Syncs |-> Idle] /\ market' = NoExport
  /\ UNCHANGED <<catalogueVars, offer, requests, edits, offers, raced>>

Next ==
  \/ \E p \in Syncs : Start(p) \/ SyncStep(p)
  \/ AdminStep
  \/ UpstreamChanges \/ Forget
  \/ Shutdown \/ TimerReturns \/ Exit

Spec == SyncInit /\ [][Next]_vars

\* The ticker keeps firing and goroutines are scheduled; the upstream answers
\* now and then; the cache forgets; and a select between a tick and stopChan
\* does not pick the tick for ever.
Fairness ==
  /\ WF_vars(Start(Timer)) /\ WF_vars(SyncStep(Timer)) /\ SF_vars(Answered(Timer))
  /\ WF_vars(Forget)
  /\ SF_vars(TimerReturns) /\ WF_vars(Exit)

FairSpec == Spec /\ Fairness

-----------------------------------------------------------------------------
SyncState ==
  [pc : {"idle", "sent", "category", "newcategory", "items", "insert", "refresh", "check",
         "raise", "returned"},
   snap : Offer \cup {NoOffer}, todo : SUBSET Item, item : Item \cup {NoItem}, id : Nat,
   copy : Row \cup {NoRow}]

\* Rows are whole, ids below the counter, and a sync's leftover items are of
\* its snapshot.
SyncTypeOK ==
  /\ rows \in [DOMAIN rows -> Row]
  /\ nextRow \in Nat \ {0} /\ DOMAIN rows \subseteq 1 .. (nextRow - 1) /\ categories \in Nat
  /\ offer \in Offer /\ page \in Offer \cup {NoOffer} /\ requests \in Nat
  /\ sync \in [Syncs -> SyncState]
  /\ \A p \in Syncs : sync[p].todo # {} => sync[p].snap # NoOffer
  /\ market \in [pc : {"idle", "sent"}, id : Nat, copy : Row \cup {NoRow}]
  /\ phase \in {"up", "stopping", "exited"}
  /\ edits \in Nat /\ offers \in Nat
  /\ raced \subseteq Item \cup {Category}

\* UpsertFromUpstream keeps (source, outer_id) unique, and category syncs
\* upsert instead of duplicating, except where two syncs looked for the same
\* missing row at once, or the breaker's copy relinks a row that an admin's form
\* has unlinked since: nothing is unique in the tables.
OneRowPerItem ==
  /\ \A x \in Item \ raced : Cardinality(Linked(x)) <= 1
  /\ Category \notin raced => categories <= 1

\* Nothing is sold below its cost by a batch of prices, by a new row or by the
\* breaker: only by a form, by the admin's sync, which has no breaker, by a row
\* exported while it was so, or by the timer until its breaker has looked.
LossExplained ==
  \A i \in DOMAIN rows :
    AtALoss(rows[i]) =>
      \/ rows[i].blind
      \/ sync[Timer].id = i /\ sync[Timer].pc \in {"check", "raise"}

\* The price and the listing of a row are the admin's: a sync leaves both
\* alone, but for the breaker, which only raises a price, unless the row is no
\* longer the one it has read.
KeepsAdminChoice(i) ==
  LET admin == edits' # edits \/ market' # market
      stale == At(Timer, "raise") /\ sync[Timer].id = i /\ sync[Timer].copy # rows[i]
  IN /\ rows'[i].sale < rows[i].sale => admin \/ stale
     /\ rows'[i].sale > rows[i].sale => admin \/ stale \/ AtALoss(rows[i])
     /\ rows'[i].status # rows[i].status => admin \/ stale
SyncKeepsAdminChoice ==
  [][\A i \in DOMAIN rows \cap DOMAIN rows' : rows'[i] # rows[i] => KeepsAdminChoice(i)]_vars

\* Once the upstream and the admin leave it alone, the catalogue comes to hold
\* the upstream's costs, and no synced row is sold below them, however stale
\* the pages and rows were that the syncs carried until then.
Agrees(x) == \E i \in Linked(x) : rows[i].cost = offer[x] /\ ~ AtALoss(rows[i])
CatalogueConverges ==
  <>[](phase # "up" \/ \A x \in Item \ raced : Agrees(x))

\* A shutdown ends: Stop waits for the sync that runs, and each sync ends.
ShutdownEnds == phase = "stopping" ~> phase = "exited"
=============================================================================
