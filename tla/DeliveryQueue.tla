---------------------------- MODULE DeliveryQueue ----------------------------
(***************************************************************************)
(* The asynchronous delivery queue, internal/delivery/queue.go, with the   *)
(* engines it dispatches to (internal/delivery/delivery.go) and the retry  *)
(* loop under the upstream one (internal/upstream/httpdoer.go).            *)
(*                                                                         *)
(* Every call of Push makes one task.  The task is in the channel, in a    *)
(* worker, in a goroutine of its own, or waits in a timer to be pushed     *)
(* again, so the model follows tasks: a worker is known by the task it     *)
(* processes.  Steps of a task are calls of the store or of the upstream.  *)
(***************************************************************************)
EXTENDS Integers, Sequences, FiniteSets

CONSTANTS
  Order,        \* ids of orders
  Source,       \* orders.source of each: "self" or "upstream"
  Num,          \* orders.num of each
  Task,         \* bound: calls of Push from outside the queue
  Workers,      \* workers of NewQueue
  Buffer,       \* bufferSize of NewQueue
  RetryMax,     \* retries of one POST
  Numbers,      \* whether upstream answers carry a trade_no: a set of BOOLEANs
  MaxPieces,    \* bound: pieces there are before an answer may get lost
  MaxStock      \* bound: cards ever imported

ASSUME QueueAssumption ==
  /\ Source \in [Order -> {"self", "upstream"}]
  /\ Num \in [Order -> Nat \ {0}]
  /\ Workers \in Nat \ {0} /\ Buffer \in Nat \ {0} /\ RetryMax \in Nat
  /\ Numbers \subseteq BOOLEAN /\ MaxPieces \in Nat /\ MaxStock \in Nat

VARIABLES
  orders,       \* the rows of orders: status and contents
  owner,        \* for each card pulled or purchase made, in turn, its order
  stock,        \* cards of self orders that are not sold
  imported,     \* cards imported so far
  task,         \* the state of each task
  channel,      \* the tasks in the channel
  workers,      \* how many workers have not returned
  stop,         \* how far Stop is: "up", "cancelled", "closed", "returned"
  panicked,     \* a send on the closed channel ended the process
  overlapped    \* history: orders that two tasks processed at once

vars == <<orders, owner, stock, imported, task, channel, workers, stop, panicked,
          overlapped>>

Piece == DOMAIN owner
NoTask == [pc |-> "none"]
NewTask(o) == [order |-> o, pc |-> "new", retry |-> 0, alone |-> FALSE,
               copy |-> [status |-> 0, contents |-> {}], got |-> {}, tries |-> 0,
               moved |-> FALSE]

Started == {t \in Task : task[t].pc # "none"}
At(t, pc) == task[t].pc = pc /\ ~ panicked
Goto(t, pc) == task' = [task EXCEPT ![t].pc = pc]
\* The task is over, or waits: what it held is out of reach.
Leave(t, pc) ==
  task' = [task EXCEPT ![t] = [NewTask(@.order) EXCEPT !.pc = pc, !.retry = task[t].retry,
                                                       !.moved = task[t].moved]]
Processing == {"fetch", "mark", "pull", "post", "save", "fail"}
Busy(t) == task[t].pc \in Processing
HasRead(t) == task[t].pc \in Processing \ {"fetch"}
InWorkers == {t \in Started : Busy(t) /\ ~ task[t].alone}
Closed == stop \in {"closed", "returned"}

QueueInit ==
  /\ orders \in [Order -> {[status |-> s, contents |-> {}] : s \in {0, 1}}]
  /\ owner = <<>>
  /\ stock \in 0 .. MaxStock /\ imported = stock
  /\ task = [t \in Task |-> NoTask]
  /\ channel = <<>>
  /\ workers = Workers
  /\ stop = "up"
  /\ panicked = FALSE
  /\ overlapped = {}

-----------------------------------------------------------------------------
(* Push and the workers.                                                   *)

\* Push: into the channel, or processed at once by a goroutine nobody waits
\* for when the channel is full.  A send on the closed channel panics.
Send(t, row) ==
  \/ /\ ~ Closed /\ Len(channel) < Buffer
     /\ channel' = Append(channel, t)
     /\ task' = [task EXCEPT ![t] = [row EXCEPT !.pc = "queued", !.alone = FALSE]]
     /\ UNCHANGED panicked
  \/ /\ ~ Closed /\ Len(channel) >= Buffer
     /\ task' = [task EXCEPT ![t] = [row EXCEPT !.pc = "fetch", !.alone = TRUE]]
     /\ UNCHANGED <<channel, panicked>>
  \/ /\ Closed
     /\ panicked' = TRUE
     /\ UNCHANGED <<channel, task>>

Push(t) ==
  /\ At(t, "none")
  /\ \E o \in Order : Send(t, NewTask(o))
  /\ UNCHANGED <<orders, owner, stock, imported, workers, stop, overlapped>>

\* The timer calls Push, whose task starts with Retry 0.
Again(t) == Send(t, NewTask(task[t].order))

Fire(t) ==
  /\ At(t, "timer")
  /\ Again(t)
  /\ UNCHANGED <<orders, owner, stock, imported, workers, stop, overlapped>>

\* A defect: a task is taken that stays in the channel.
Peeked == channel
\* What is left of the channel.
Received == Tail(channel)

\* A worker that is not busy receives; a cancelled one may as well (select).
Receive ==
  /\ ~ panicked
  /\ channel # <<>> /\ Cardinality(InWorkers) < workers
  /\ channel' = Received
  /\ Goto(Head(channel), "fetch")
  /\ UNCHANGED <<orders, owner, stock, imported, workers, stop, panicked, overlapped>>

\* A defect: a worker returns without wg.Done.
NotDone == workers
\* wg.Done.
Done == workers - 1

\* ctx.Done or the closed channel.
WorkerReturns ==
  /\ ~ panicked
  /\ stop # "up" /\ Cardinality(InWorkers) < workers
  /\ workers' = Done
  /\ UNCHANGED <<orders, owner, stock, imported, task, channel, stop, panicked, overlapped>>

-----------------------------------------------------------------------------
(* process.                                                                *)

Elsewhere == UNCHANGED <<channel, workers, stop, panicked>>
Holds(t) == orders[task[t].order]
Store(t, row) == orders' = [orders EXCEPT ![task[t].order] = row]
\* UpdateOrder, whose error nobody acts on.
Write(t, row) == Store(t, row) \/ UNCHANGED orders

\* Dispatch chooses the engine by the source; both engines find an order that
\* has its contents finished.
Engine(o, row) ==
  IF row.contents # {} THEN "save" ELSE IF Source[o] = "self" THEN "pull" ELSE "post"

\* A defect: every order is delivered, again if need be.
NeverFinished(row) == FALSE
\* Delivered or refunded.
Finished(row) == row.status >= 2

\* GetOrderByID.  An order that cannot be read is given up, one that is finished
\* is left alone.
Fetch(t) ==
  /\ At(t, "fetch")
  /\ \/ Leave(t, "done") /\ UNCHANGED overlapped
     \/ LET o == task[t].order
        IN /\ ~ Finished(Holds(t))
           /\ task' = [task EXCEPT
                ![t].copy = orders[o],
                ![t].pc = IF orders[o].status = 0 THEN "mark" ELSE Engine(o, orders[o])]
           /\ overlapped' = overlapped \cup
                {p \in {o} : \E u \in Started \ {t} : task[u].order = o /\ HasRead(u)}
  /\ UNCHANGED <<orders, owner, stock, imported>> /\ Elsewhere

\* Status 0 becomes 1, paid or not: in the copy, and in the row if the write
\* succeeds.
Mark(t) ==
  /\ At(t, "mark")
  /\ LET o == task[t].order
         row == [task[t].copy EXCEPT !.status = 1]
     IN Write(t, row) /\ task' = [task EXCEPT ![t].copy = row, ![t].pc = Engine(o, row)]
  /\ UNCHANGED <<owner, stock, imported, overlapped>> /\ Elsewhere

\* SecretEngine: one PullSecret after the other.
Pull(t) ==
  /\ At(t, "pull") /\ stock > 0
  /\ stock' = stock - 1
  /\ owner' = Append(owner, task[t].order)
  /\ LET got == task[t].got \cup {Len(owner) + 1}
     IN task' = [task EXCEPT ![t].got = got,
          ![t].pc = IF Cardinality(got) = Num[task[t].order] THEN "save" ELSE "pull",
          ![t].copy.contents = IF Cardinality(got) = Num[task[t].order] THEN got ELSE {}]
  /\ UNCHANGED <<orders, imported, overlapped>> /\ Elsewhere

\* Out of stock, or the call failed: the cards pulled so far stay sold.
PullFails(t) ==
  /\ At(t, "pull")
  /\ Goto(t, "fail")
  /\ UNCHANGED <<orders, owner, stock, imported, overlapped>> /\ Elsewhere

\* DoWithRetry, an attempt the upstream answers.  The answer may carry a trade_no,
\* which replaces the one of the copy.
Answered(t, contents) ==
  \E numbered \in Numbers :
    task' = [task EXCEPT ![t].copy.contents = contents, ![t].moved = numbered,
                         ![t].tries = 0, ![t].pc = "save"]

\* It sold.
Sold(t) ==
  /\ At(t, "post")
  /\ owner' = Append(owner, task[t].order)
  /\ Answered(t, {Len(owner) + 1})
  /\ UNCHANGED <<orders, stock, imported, overlapped>> /\ Elsewhere

\* It refused, which the engine does not tell from a sale.
Refused(t) ==
  /\ At(t, "post")
  /\ Answered(t, {})
  /\ UNCHANGED <<orders, owner, stock, imported, overlapped>> /\ Elsewhere

\* The next attempt.
NextTry(t) == task[t].tries < RetryMax /\ task' = [task EXCEPT ![t].tries = @ + 1]

\* An attempt that ends in an error or a 5xx, whether the upstream sold or not;
\* the loop goes on, or its attempts or its 30 seconds are over.
Attempt(t) ==
  /\ At(t, "post")
  /\ \/ UNCHANGED owner
     \/ Len(owner) < MaxPieces /\ owner' = Append(owner, task[t].order)
  /\ NextTry(t) \/ task' = [task EXCEPT ![t].tries = 0, ![t].pc = "fail"]
  /\ UNCHANGED <<orders, stock, imported, overlapped>> /\ Elsewhere

\* The error is written with the copy, and a timer is set.
Fail(t) ==
  /\ At(t, "fail")
  /\ Write(t, task[t].copy)
  /\ Leave(t, IF task[t].retry < 2 THEN "timer" ELSE "done")
  /\ UNCHANGED <<owner, stock, imported, overlapped>> /\ Elsewhere

\* The success is written, unless the write fails, which is only logged, or no row
\* has the copy's trade_no, because it is the upstream's.
Save(t) ==
  /\ At(t, "save")
  /\ IF task[t].moved THEN UNCHANGED orders ELSE Write(t, [task[t].copy EXCEPT !.status = 2])
  /\ Leave(t, "done")
  /\ UNCHANGED <<owner, stock, imported, overlapped>> /\ Elsewhere

Process(t) ==
  \/ Fetch(t) \/ Mark(t) \/ Pull(t) \/ PullFails(t)
  \/ Sold(t) \/ Refused(t) \/ Attempt(t) \/ Fail(t) \/ Save(t)

-----------------------------------------------------------------------------
(* Stop, and the import of cards.                                          *)

Cancel ==
  /\ ~ panicked /\ stop = "up" /\ stop' = "cancelled"
  /\ UNCHANGED <<orders, owner, stock, imported, task, channel, workers, panicked, overlapped>>
Close ==
  /\ ~ panicked /\ stop = "cancelled" /\ stop' = "closed"
  /\ UNCHANGED <<orders, owner, stock, imported, task, channel, workers, panicked, overlapped>>

\* A defect: Stop does not wait for its workers.
NotWaited == TRUE
\* wg.Wait.
Waited == workers = 0
StopReturns ==
  /\ ~ panicked /\ stop = "closed" /\ Waited /\ stop' = "returned"
  /\ UNCHANGED <<orders, owner, stock, imported, task, channel, workers, panicked, overlapped>>

Import ==
  /\ ~ panicked /\ imported < MaxStock
  /\ imported' = imported + 1 /\ stock' = stock + 1
  /\ UNCHANGED <<orders, owner, task, channel, workers, stop, panicked, overlapped>>

Next ==
  \/ \E t \in Task : Push(t) \/ Fire(t) \/ Process(t)
  \/ Receive \/ WorkerReturns
  \/ Cancel \/ Close \/ StopReturns
  \/ Import

Spec == QueueInit /\ [][Next]_vars

\* Goroutines are scheduled, timers fire, and Stop goes on once it is called.
Fairness ==
  /\ \A t \in Task : WF_vars(Fire(t)) /\ WF_vars(Process(t))
  /\ WF_vars(Receive) /\ WF_vars(WorkerReturns) /\ WF_vars(Close) /\ WF_vars(StopReturns)

FairSpec == Spec /\ Fairness

-----------------------------------------------------------------------------
Row == [status : 0 .. 2, contents : SUBSET Piece]

\* Everything is of its kind, the channel holds each task that is queued once,
\* and no more tasks are in workers than there are workers.
QueueTypeOK ==
  /\ orders \in [Order -> Row] /\ owner \in Seq(Order)
  /\ stock \in 0 .. imported /\ imported \in 0 .. MaxStock
  /\ \A t \in Started :
       /\ task[t].order \in Order /\ task[t].copy \in Row /\ task[t].got \subseteq Piece
       /\ task[t].pc \in Processing \cup {"queued", "timer", "done"}
       /\ task[t].tries \in 0 .. RetryMax /\ task[t].retry \in 0 .. 2
  /\ \A t \in Started :
       task[t].pc = "queued" <=> \E i \in DOMAIN channel : channel[i] = t
  /\ \A i, j \in DOMAIN channel : i # j => channel[i] # channel[j]
  /\ Len(channel) <= Buffer
  /\ workers \in 0 .. Workers /\ Cardinality(InWorkers) <= workers
  /\ stop \in {"up", "cancelled", "closed", "returned"} /\ panicked \in BOOLEAN
  /\ overlapped \subseteq Order

\* However often an order is pushed and tried again, and whichever writes fail:
\* a row keeps what it shows, and nothing is pulled or bought for an order whose
\* row is delivered, unless two tasks worked on the order at once.
ServedOnce ==
  [][\A o \in Order \ overlapped' :
       /\ orders[o].contents \subseteq orders'[o].contents
       /\ \A k \in Piece' \ Piece : owner'[k] = o => orders[o].status < 2]_vars

\* Once Stop has returned, the deliveries that go on are those of the
\* goroutines Push started itself.
StopLeavesStrays == stop = "returned" => \A t \in Started : Busy(t) => task[t].alone

\* What queue.go:118 says: an order is tried again twice at most, so that no task
\* comes back to its timer for ever.
RetriesEnd == \A t \in Task : <>[](task[t].pc # "timer")

\* Stop returns: no delivery keeps a worker for ever.
StopEnds == stop = "cancelled" ~> stop = "returned" \/ panicked
=============================================================================
