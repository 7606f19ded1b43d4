------------------------------ MODULE Catalogue ------------------------------
(***************************************************************************)
(* The local catalogue of internal/store/commodity.go: the commodities and *)
(* categories tables, as the syncs and the admin's pages write them.  Each *)
(* call below is one statement or one transaction of the database's single *)
(* connection, so it is atomic.                                            *)
(*                                                                         *)
(* Of a row's columns the model keeps who it belongs to (source, outer_id) *)
(* and what is sold at which price: cost_price stands for every column an  *)
(* upstream owns, sale_price and status for those the admin owns.          *)
(***************************************************************************)
EXTENDS Integers, FiniteSets

CONSTANTS
  Item,         \* the outer_ids of one upstream's commodities
  NoItem        \* the outer_id "" of a row no upstream knows

ASSUME ItemAssumption == Item # {} /\ NoItem \notin Item

VARIABLES
  rows,         \* commodities: a function from ids to rows
  nextRow,      \* the next AUTOINCREMENT id
  categories    \* categories: how many rows one upstream category has

catalogueVars == <<rows, nextRow, categories>>

Source == {"self", "upstream", "market", ""}
Row == [source : Source, outer : Item \cup {NoItem}, cost : Nat, sale : Nat,
        status : {0, 1},
        blind : BOOLEAN]  \* history: the prices were last written by someone who
                          \* compares the two neither before nor after

CatalogueInit ==
  /\ rows = [i \in {} |-> 0]
  /\ nextRow = 1
  /\ categories = 0

-----------------------------------------------------------------------------
(* Prices, in units that make a tenth of every cost whole.                  *)

\* The sale price of a new row and of one the breaker raises: cost * 1.1.
Markup(cost) == (11 * cost) \div 10

\* A fixed or a percent step up or down.
Stepped(sale, kind, op, amount) ==
  LET step == IF kind = "fixed" THEN amount ELSE (sale * amount) \div 100
  IN IF op = "+" THEN sale + step ELSE sale - step
AtLeast(price, floor) == IF price < floor THEN floor ELSE price

\* A defect: BatchAdjustPrice without the floor at the cost.
AdjustedFreely(row, kind, op, amount) == AtLeast(Stepped(row.sale, kind, op, amount), 0)

\* The new sale price of BatchAdjustPrice, never below zero and never below the
\* cost.
Adjusted(row, kind, op, amount) == AtLeast(Stepped(row.sale, kind, op, amount), row.cost)

\* A row that is sold below its cost; a sale price of 0 is no price at all,
\* the price column counts then.
AtALoss(row) == row.cost > row.sale /\ row.sale > 0

-----------------------------------------------------------------------------
(* Statements.                                                             *)

\* INSERT: the next id.
Insert(row) ==
  /\ rows' = [i \in DOMAIN rows \cup {nextRow} |-> IF i = nextRow THEN row ELSE rows[i]]
  /\ nextRow' = nextRow + 1

\* UPDATE ... WHERE id = i: no row, no effect.
Put(i, row) == rows' = [j \in DOMAIN rows |-> IF j = i THEN row ELSE rows[j]]

\* A defect of the lookup: it overlooks the rows that are off the shelf.
LinkedListed(x) ==
  {i \in DOMAIN rows : rows[i].source = "upstream" /\ rows[i].outer = x /\ rows[i].status = 1}

\* SELECT ... WHERE source = ? AND outer_id = ?.  It has no ORDER BY and the
\* table no key for the pair: of several rows any may come first.
Linked(x) == {i \in DOMAIN rows : rows[i].source = "upstream" /\ rows[i].outer = x}

\* Defects of Refresh: the sale price follows the cost; a row off the shelf is
\* left as it is.
RefreshPrice(i, cost, blind) ==
  /\ rows' = [j \in DOMAIN rows |->
                IF j = i THEN [rows[j] EXCEPT !.cost = cost, !.sale = Markup(cost), !.blind = blind]
                ELSE rows[j]]
  /\ UNCHANGED nextRow
RefreshShelf(i, cost, blind) ==
  /\ rows' = [j \in DOMAIN rows |->
                IF j = i /\ rows[j].status = 1 THEN [rows[j] EXCEPT !.cost = cost, !.blind = blind]
                ELSE rows[j]]
  /\ UNCHANGED nextRow

\* UpsertFromUpstream, the UPDATE of a row that exists: the upstream's columns
\* only, "the sale price stays".
Refresh(i, cost, blind) ==
  /\ rows' = [j \in DOMAIN rows |->
                IF j = i THEN [rows[j] EXCEPT !.cost = cost, !.blind = blind] ELSE rows[j]]
  /\ UNCHANGED nextRow

\* UpsertFromUpstream, the INSERT: marked up and on the shelf.
InsertUpstream(x, cost) ==
  Insert([source |-> "upstream", outer |-> x, cost |-> cost, sale |-> Markup(cost),
          status |-> 1, blind |-> FALSE])

\* UpdateCommodity: the whole row, from whatever copy or form the caller has.
UpdateCommodity(i, row) == Put(i, row) /\ UNCHANGED nextRow

\* CreateCommodity: sale_price defaults to price, status to 1.
CreateCommodity(price, cost) ==
  Insert([source |-> "self", outer |-> NoItem, cost |-> cost, sale |-> price,
          status |-> 1, blind |-> TRUE])

DeleteCommodity(i) ==
  /\ rows' = [j \in DOMAIN rows \ {i} |-> rows[j]]
  /\ UNCHANGED nextRow

\* BatchSetStatus: one UPDATE over all ids.
BatchSetStatus(ids, status) ==
  /\ rows' = [j \in DOMAIN rows |->
                IF j \in ids THEN [rows[j] EXCEPT !.status = status] ELSE rows[j]]
  /\ UNCHANGED nextRow

\* BatchAdjustPrice: one transaction that reads and writes each row in turn.
BatchAdjustPrice(ids, kind, op, amount) ==
  /\ rows' = [j \in DOMAIN rows |->
                IF j \in ids
                THEN [rows[j] EXCEPT !.sale = Adjusted(rows[j], kind, op, amount), !.blind = FALSE]
                ELSE rows[j]]
  /\ UNCHANGED nextRow

\* UpsertCategory, the INSERT.
InsertCategory == categories' = categories + 1
=============================================================================
