------------------------------ MODULE Browsing -------------------------------
(***************************************************************************)
(* Lists read page by page while their rows change: ListCommodities behind *)
(* GET /api/commodities, the shop's list, and ListAllCommodities behind    *)
(* /pool and /commodities, the back office's.  Each page is a query of its *)
(* own with LIMIT and OFFSET.  The rows show what the lists look at: the   *)
(* filters by category and by source are left out.                         *)
(***************************************************************************)
EXTENDS Integers, FiniteSets

CONSTANTS
  Most, Usual,  \* for each list the largest limit, and what an illegal one becomes
  Limits,       \* limits that are asked for
  Sorts,        \* values of the column sort
  MaxGoods,     \* bound: rows at the start
  MaxChanges    \* bound: changes made while somebody reads

ASSUME BrowsingAssumption ==
  /\ Sorts \subseteq Int /\ Limits \subseteq Int /\ MaxGoods \in Nat /\ MaxChanges \in Nat
  /\ \A list \in {"shop", "pool"} : Usual[list] \in 1 .. Most[list]

VARIABLES
  goods,        \* commodities: a function from ids to rows
  walk,         \* the reader: the list, the limit, whether there is a keyword, the next page
  changes,      \* how many changes there were
  stayed,       \* history: the rows that kept their place in the list
  gone, come,   \* history: how many rows left the list or joined it
  seen          \* history: on how many pages each row that stayed was

browsingVars == <<goods, walk, changes, stayed, gone, come, seen>>

\* shelved: status 1; named: the name contains the keyword.
Good == [sort : Sorts, shelved : BOOLEAN, named : BOOLEAN]

\* The rows of a list's WHERE: the pool's has the keyword, the shop's the status.
Lists(g) ==
  IF walk.list = "shop" THEN goods[g].shelved ELSE walk.keyword => goods[g].named
Listing == {g \in DOMAIN goods : Lists(g)}

\* ORDER BY sort ASC, id DESC in the shop; ORDER BY id DESC in the pool.
Before(g, h) ==
  IF walk.list = "shop" /\ goods[g].sort # goods[h].sort
  THEN goods[g].sort < goods[h].sort
  ELSE g > h
Rank(g) == Cardinality({h \in Listing : Before(h, g)})

Clamp(limit) ==
  IF limit < 1 \/ limit > Most[walk.list] THEN Usual[walk.list] ELSE limit

\* A defect: pages are counted from 0.
OffsetFromZero == walk.page * Clamp(walk.limit)
Offset == (walk.page - 1) * Clamp(walk.limit)

Page == {g \in Listing : Offset <= Rank(g) /\ Rank(g) < Offset + Clamp(walk.limit)}

\* What the page shows: the shop looks for the keyword among the rows of the page.
Shown ==
  IF walk.list = "shop" /\ walk.keyword THEN {g \in Page : goods[g].named} ELSE Page

BrowsingInit ==
  /\ goods \in UNION {[1 .. n -> {r \in Good : r.shelved /\ r.named}] : n \in 0 .. MaxGoods}
  /\ walk \in [list : {"shop", "pool"}, limit : Limits, keyword : BOOLEAN, page : {1}]
  /\ changes = 0 /\ gone = 0 /\ come = 0
  /\ stayed = Listing
  /\ seen = [g \in Listing |-> 0]

\* Nobody reads a list.
NobodyReads ==
  /\ goods = <<>> /\ stayed = {} /\ seen = <<>>
  /\ walk = [list |-> "pool", limit |-> 0, keyword |-> FALSE, page |-> 0]
  /\ changes = 0 /\ gone = 0 /\ come = 0

Reading == walk.page > 0

\* A page is read; a reader goes on until one is empty.
ReadPage ==
  /\ Reading
  /\ seen' = [g \in DOMAIN seen |-> IF g \in Shown THEN seen[g] + 1 ELSE seen[g]]
  /\ walk' = [walk EXCEPT !.page = IF Shown = {} THEN 0 ELSE @ + 1]
  /\ UNCHANGED <<goods, changes, stayed, gone, come>>

\* The rows become new; those that are moved leave one place and join another.
ChangeTo(new) ==
  LET moved == {g \in DOMAIN goods \cap DOMAIN new :
                  walk.list = "shop" /\ goods[g].sort # new[g].sort}
      leaving == Listing \ (Listing' \ moved)
  IN /\ Reading /\ changes < MaxChanges /\ changes' = changes + 1
     /\ goods' = new
     /\ UNCHANGED <<walk, seen>>
     /\ stayed' = stayed \ leaving
     /\ gone' = gone + Cardinality(leaving)
     /\ come' = come + Cardinality(Listing' \ (Listing \ moved))

\* HandleCreateCommodity, or a sync that inserts: ids only grow.
AddGood(id) ==
  \E r \in Good : ChangeTo([g \in DOMAIN goods \cup {id} |-> IF g = id THEN r ELSE goods[g]])
RemoveGood(g) == ChangeTo([h \in DOMAIN goods \ {g} |-> goods[h]])

\* BatchSetStatus, and the forms that write a row with another name or sort.
Reshelve(g) == ChangeTo([goods EXCEPT ![g].shelved = ~ @])
Rename(g) == ChangeTo([goods EXCEPT ![g].named = ~ @])
Resort(g) == \E k \in Sorts \ {goods[g].sort} : ChangeTo([goods EXCEPT ![g].sort = k])

BrowsingNext ==
  \/ ReadPage
  \/ AddGood(MaxGoods + changes + 1)
  \/ \E g \in DOMAIN goods : RemoveGood(g) \/ Reshelve(g) \/ Rename(g) \/ Resort(g)

-----------------------------------------------------------------------------
BrowsingTypeOK ==
  /\ \A g \in DOMAIN goods : goods[g] \in Good
  /\ stayed \subseteq DOMAIN goods \cap DOMAIN seen
  /\ walk.page \in Nat /\ {changes, gone, come} \subseteq Nat

\* The rows that stayed and were on no page, and the second, third... times one was.
Missed == {g \in stayed : seen[g] = 0}
Again == {p \in stayed \X (1 .. MaxChanges + 1) : seen[p[1]] > p[2]}

\* However rows come, go and move while pages are read, a reader of a whole list
\* misses at most one of the rows that stayed in place for each row that left the
\* list, and meets one again at most once for each that joined it.  The shop's
\* search is excepted: a page without a match ends it though others may follow.
WalkExplained ==
  ~ (walk.list = "shop" /\ walk.keyword) =>
    /\ ~ Reading => Cardinality(Missed) <= gone
    /\ Cardinality(Again) <= come
=============================================================================
