------------------------- MODULE DeliveryQueueProofs --------------------------
(***************************************************************************)
(* Proofs about the safety of DeliveryQueue, for any orders, tasks,        *)
(* workers, buffers and retries.                                           *)
(***************************************************************************)
EXTENDS DeliveryQueue, FiniteSetTheorems, TLAPS

Copy == [status : 0 .. 2, contents : SUBSET Nat]
TaskRow ==
  [order : Order, pc : Processing \cup {"queued", "timer", "done"}, retry : 0 .. 2,
   alone : BOOLEAN, copy : Copy, got : SUBSET Nat, tries : 0 .. RetryMax, moved : BOOLEAN]

\* What a task holds: nothing in its copy while it tries to get something, and a
\* copy that is not delivered as long as it works.
Sane(x) ==
  /\ x \in TaskRow
  /\ x.copy.contents \subseteq Piece /\ x.got \subseteq Piece
  /\ x.copy.status < 2
  /\ x.pc \notin {"mark", "save"} => x.copy.contents = {}
  /\ x.pc = "queued" => ~x.alone

\* Rows, counters and histories are of their kinds.
TablesSane ==
  /\ orders \in [Order -> Row] /\ owner \in Seq(Order)
  /\ stock \in 0 .. imported /\ imported \in 0 .. MaxStock
  /\ stop \in {"up", "cancelled", "closed", "returned"} /\ panicked \in BOOLEAN
  /\ overlapped \subseteq Order

TasksSane ==
  /\ task = [t \in Task |-> task[t]]
  /\ \A t \in Task : task[t] = NoTask \/ Sane(task[t])

\* The channel holds the queued tasks, each once.
ChannelSane ==
  /\ channel \in Seq(Task) /\ Len(channel) <= Buffer
  /\ \A t \in Task : task[t].pc = "queued" <=> \E i \in DOMAIN channel : channel[i] = t
  /\ \A i, j \in DOMAIN channel : i # j => channel[i] # channel[j]

\* A worker has one task, and those that returned have none.
WorkersSane ==
  /\ workers \in 0 .. Workers
  /\ IsFiniteSet(InWorkers) /\ Cardinality(InWorkers) <= workers
  /\ stop = "returned" => workers = 0

\* A task that has read an order no other task has read holds whatever the
\* order's row shows, so that its copy can replace the row, and the row is not
\* delivered.
CopiesSane ==
  \A t \in Task : HasRead(t) /\ task[t].order \notin overlapped =>
    /\ \A u \in Task \ {t} : HasRead(u) => task[u].order # task[t].order
    /\ orders[task[t].order].contents \subseteq task[t].copy.contents
    /\ orders[task[t].order].status < 2

\* The inductive invariant.
QueueInv ==
  /\ TablesSane
  /\ TasksSane
  /\ ChannelSane
  /\ WorkersSane
  /\ CopiesSane

-----------------------------------------------------------------------------
(* One task takes a step.                                                  *)

\* What is sane stays so while pieces are added.
LEMMA StaysSane ==
  ASSUME NEW x, Sane(x), Piece \subseteq Piece'
  PROVE  Sane(x)'
BY DEF Sane

\* What a task at work is.
LEMMA BusyTask ==
  ASSUME QueueInv, NEW t \in Task, Busy(t)
  PROVE  task[t] # NoTask /\ Sane(task[t]) /\ task[t] \in TaskRow /\ t \in Started
<1>1. task[t].pc # "none"
  BY DEF Busy, Processing
<1> QED
  BY <1>1 DEF QueueInv, TasksSane, NoTask, Sane, Started

\* A list of pieces that grows by one at its end.
LEMMA OnePiece ==
  ASSUME owner \in Seq(Order), NEW o \in Order, owner' = Append(owner, o)
  PROVE  /\ owner' \in Seq(Order) /\ Len(owner) \in Nat
         /\ Piece = 1 .. Len(owner) /\ Piece' = Piece \cup {Len(owner) + 1}
         /\ Piece \subseteq Nat /\ Len(owner) + 1 \notin Piece
         /\ \A k \in Piece : owner'[k] = owner[k]
         /\ owner'[Len(owner) + 1] = o
<1>1. /\ owner' \in Seq(Order) /\ Len(owner) \in Nat /\ Len(owner') = Len(owner) + 1
      /\ DOMAIN owner = 1 .. Len(owner) /\ DOMAIN owner' = 1 .. Len(owner')
      /\ \A k \in 1 .. Len(owner) : owner'[k] = owner[k]
      /\ owner'[Len(owner) + 1] = o
  OBVIOUS
<1> QED
  BY <1>1 DEF Piece

\* A step of one task keeps the invariant if the task stays sane, and if whoever has
\* read an order that nobody else has read still holds what its row shows.
LEMMA TaskStep ==
  ASSUME QueueInv, NEW t \in Task, NEW x,
         task' = [u \in Task |-> IF u = t THEN x ELSE task[u]],
         Sane(x)', TablesSane', ChannelSane', WorkersSane',
         task[t] # NoTask => task[t].order = x.order,
         Piece \subseteq Piece', overlapped \subseteq overlapped',
         \A o \in Order \ {x.order} : orders'[o] = orders[o],
         UNCHANGED orders \/ HasRead(t),
         x.pc \in Processing \ {"fetch"} /\ x.order \notin overlapped' =>
           /\ \A u \in Task \ {t} : HasRead(u) => task[u].order # x.order
           /\ orders'[x.order].contents \subseteq x.copy.contents
           /\ orders'[x.order].status < 2
  PROVE  QueueInv'
<1>1. /\ TablesSane /\ TasksSane /\ CopiesSane
      /\ task'[t] = x /\ \A u \in Task \ {t} : task'[u] = task[u]
  BY DEF QueueInv
<1>2. TasksSane'
  <2>1. \A u \in Task \ {t} : task[u] = NoTask \/ Sane(task[u])
    BY <1>1 DEF TasksSane
  <2>2. ASSUME NEW u \in Task \ {t}
        PROVE  task'[u] = NoTask \/ Sane(task[u])'
    <3>1. PICK y : y = task[u]
      OBVIOUS
    <3>2. y = NoTask \/ Sane(y)'
      BY <2>1, <3>1, StaysSane
    <3>3. task'[u] = y
      BY <1>1, <3>1
    <3> QED
      BY <3>2, <3>3 DEF Sane
  <2>3. task'[t] = NoTask \/ Sane(task[t])'
    BY <1>1 DEF Sane
  <2> QED
    BY <2>2, <2>3 DEF TasksSane, NoTask
<1>3. x \in TaskRow /\ x # NoTask /\ x.pc # "none"
  BY DEF Sane, TaskRow, Copy, Processing, NoTask
<1>4. CopiesSane'
  <2> SUFFICES ASSUME NEW v \in Task, HasRead(v)', task'[v].order \notin overlapped'
               PROVE  /\ \A u \in Task \ {v} : HasRead(u)' => task'[u].order # task'[v].order
                      /\ orders'[task'[v].order].contents \subseteq task'[v].copy.contents
                      /\ orders'[task'[v].order].status < 2
    BY DEF CopiesSane
  <2>1. \A u \in Task \ {t} : HasRead(u)' <=> HasRead(u)
    BY <1>1 DEF HasRead
  <2>2. HasRead(t)' <=> x.pc \in Processing \ {"fetch"}
    BY <1>1 DEF HasRead
  <2>3. CASE v = t
    BY <1>1, <2>1, <2>2, <2>3
  <2>4. CASE v # t
    <3>1. /\ HasRead(v) /\ task'[v] = task[v] /\ task[v].order \notin overlapped
          /\ \A u \in Task \ {v} : HasRead(u) => task[u].order # task[v].order
          /\ orders[task[v].order].contents \subseteq task[v].copy.contents
          /\ orders[task[v].order].status < 2
      BY <1>1, <2>1, <2>4 DEF CopiesSane
    <3>2. HasRead(t)' => x.order # task[v].order
      BY <2>2, <2>4, <3>1
    <3>3. task[v].order \in Order
      BY <1>1, <3>1 DEF TasksSane, HasRead, NoTask, Sane, TaskRow, Copy, Processing
    <3>4. orders'[task[v].order] = orders[task[v].order]
      <4>1. CASE UNCHANGED orders
        BY <4>1
      <4>2. CASE HasRead(t)
        <5>1. task[t] # NoTask
          BY <4>2 DEF HasRead, NoTask, Processing
        <5> QED
          BY <2>4, <3>1, <3>3, <4>2, <5>1
      <4> QED
        BY <4>1, <4>2
    <3> QED
      BY <1>1, <2>1, <2>4, <3>1, <3>2, <3>4
  <2> QED
    BY <2>3, <2>4
<1> QED
  BY <1>2, <1>4 DEF QueueInv

\* The workers of before are enough if no worker gets a task.
LEMMA WorkersKept ==
  ASSUME QueueInv, NEW t \in Task, NEW x,
         task' = [u \in Task |-> IF u = t THEN x ELSE task[u]],
         UNCHANGED <<workers, stop>>,
         x.pc \in Processing /\ ~x.alone => Busy(t) /\ ~task[t].alone
  PROVE  WorkersSane'
<1>1. /\ task'[t] = x /\ \A u \in Task \ {t} : task'[u] = task[u]
      /\ WorkersSane
  BY DEF QueueInv
<1>2. InWorkers' \in SUBSET InWorkers
  <2>1. \A u \in Task : (Busy(u)' /\ ~task'[u].alone => Busy(u) /\ ~task[u].alone)
    BY <1>1 DEF Busy
  <2>2. \A u \in Task : Busy(u) => u \in Started
    BY DEF Busy, Started, Processing
  <2> QED
    BY <2>1, <2>2 DEF InWorkers, Started
<1>3. /\ IsFiniteSet(InWorkers) /\ Cardinality(InWorkers) \in Nat
      /\ IsFiniteSet(InWorkers') /\ Cardinality(InWorkers') \in Nat
      /\ Cardinality(InWorkers') <= Cardinality(InWorkers)
  BY <1>1, <1>2, FS_Subset, FS_CardinalityType DEF WorkersSane
<1>4. workers \in Int /\ workers' = workers /\ stop' = stop
  BY <1>1 DEF WorkersSane
<1> QED
  BY <1>1, <1>3, <1>4 DEF WorkersSane

\* The channel is what it was if the task was not in it and is not to be.
LEMMA ChannelKept ==
  ASSUME QueueInv, NEW t \in Task, NEW x,
         task' = [u \in Task |-> IF u = t THEN x ELSE task[u]],
         UNCHANGED channel, task[t].pc # "queued", x.pc # "queued"
  PROVE  ChannelSane'
BY DEF QueueInv, ChannelSane

\* A step of process: the channel and the workers are left alone.
LEMMA ProcessStep ==
  ASSUME QueueInv, NEW t \in Task, NEW x, Busy(t),
         task' = [u \in Task |-> IF u = t THEN x ELSE task[u]], Elsewhere,
         x.order = task[t].order, x.pc # "queued",
         x.pc \in Processing => x.alone = task[t].alone,
         Sane(x)', TablesSane', Piece \subseteq Piece', overlapped \subseteq overlapped',
         \A o \in Order \ {x.order} : orders'[o] = orders[o],
         UNCHANGED orders \/ HasRead(t),
         x.pc \in Processing \ {"fetch"} /\ x.order \notin overlapped' =>
           /\ \A u \in Task \ {t} : HasRead(u) => task[u].order # x.order
           /\ orders'[x.order].contents \subseteq x.copy.contents
           /\ orders'[x.order].status < 2
  PROVE  QueueInv'
<1>1. task[t].pc # "queued" /\ UNCHANGED <<channel, workers, stop>>
  BY DEF Busy, Processing, Elsewhere
<1>2. ChannelSane'
  BY <1>1, ChannelKept
<1>3. WorkersSane'
  BY <1>1, WorkersKept
<1> QED
  BY <1>2, <1>3, TaskStep

-----------------------------------------------------------------------------
(* The queue.                                                              *)

LEMMA QueueInitInv == QueueInit => QueueInv
<1> SUFFICES ASSUME QueueInit PROVE QueueInv
  OBVIOUS
<1> USE DEF QueueInit
<1>1. \A t \in Task : task[t] = NoTask /\ ~Busy(t) /\ ~HasRead(t) /\ t \notin Started
  BY DEF NoTask, Busy, HasRead, Started, Processing
<1>2. TablesSane
  <2>1. orders \in [Order -> Row]
    BY DEF Row
  <2>2. owner \in Seq(Order) /\ stock \in 0 .. imported /\ imported \in 0 .. MaxStock
    BY QueueAssumption
  <2> QED
    BY <2>1, <2>2 DEF TablesSane
<1>3. TasksSane
  BY DEF TasksSane
<1>4. ChannelSane
  BY <1>1, QueueAssumption DEF ChannelSane, NoTask
<1>5. WorkersSane
  <2>1. \A t \in Task : t \notin InWorkers
    BY <1>1 DEF InWorkers
  <2>3. InWorkers = {}
    BY <2>1 DEF InWorkers, Started
  <2> QED
    BY <2>3, FS_EmptySet, QueueAssumption DEF WorkersSane
<1>6. CopiesSane
  BY <1>1 DEF CopiesSane
<1> QED
  BY <1>2, <1>3, <1>4, <1>5, <1>6 DEF QueueInv

\* A send: into the channel, to a goroutine, or onto the closed channel.
LEMMA SendInv ==
  ASSUME QueueInv, NEW t \in Task, NEW o \in Order, task[t].pc \in {"none", "timer"},
         task[t] # NoTask => task[t].order = o,
         Send(t, NewTask(o)),
         UNCHANGED <<orders, owner, stock, imported, workers, stop, overlapped>>
  PROVE  QueueInv'
<1>1. ~Busy(t) /\ ~HasRead(t) /\ task[t].pc # "queued"
  BY DEF Busy, HasRead, Processing
<1>2. TablesSane /\ ChannelSane /\ WorkersSane /\ TasksSane
  BY DEF QueueInv
<1>3. panicked' \in BOOLEAN => TablesSane'
  BY <1>2 DEF TablesSane, Row, Piece
<1>4. ASSUME NEW x, task' = [task EXCEPT ![t] = x],
             x \in {[NewTask(o) EXCEPT !.pc = "queued", !.alone = FALSE],
                    [NewTask(o) EXCEPT !.pc = "fetch", !.alone = TRUE]}
      PROVE  /\ task' = [u \in Task |-> IF u = t THEN x ELSE task[u]]
             /\ x.pc \in {"queued", "fetch"} /\ (x.pc = "fetch" => x.alone) /\ x.order = o
             /\ x.copy.contents = {} /\ x.got = {}
             /\ Sane(x)'
  <2>1. task' = [u \in Task |-> IF u = t THEN x ELSE task[u]]
    BY <1>2, <1>4 DEF TasksSane
  <2>2. PICK q \in {"queued", "fetch"}, a \in BOOLEAN :
          /\ x = [order |-> o, pc |-> q, retry |-> 0, alone |-> a,
                  copy |-> [status |-> 0, contents |-> {}], got |-> {}, tries |-> 0,
                  moved |-> FALSE]
          /\ q = "fetch" <=> a
    <3>1. CASE x = [NewTask(o) EXCEPT !.pc = "queued", !.alone = FALSE]
      BY <3>1 DEF NewTask
    <3>2. CASE x = [NewTask(o) EXCEPT !.pc = "fetch", !.alone = TRUE]
      BY <3>2 DEF NewTask
    <3> QED
      BY <1>4, <3>1, <3>2
  <2>3. /\ x.order = o /\ x.pc = q /\ x.alone = a
        /\ x.copy = [status |-> 0, contents |-> {}] /\ x.got = {}
        /\ x.copy.contents = {}
    BY <2>2
  <2>4. x \in TaskRow
    <3>1. [status |-> 0, contents |-> {}] \in [status : 0 .. 2, contents : SUBSET Nat]
      OBVIOUS
    <3>2. 0 \in 0 .. RetryMax
      BY QueueAssumption
    <3> QED
      BY <2>2, <2>3, <3>1, <3>2 DEF TaskRow, Copy, Processing
  <2> QED
    BY <2>1, <2>2, <2>3, <2>4 DEF Sane
<1>5. ASSUME NEW x, task' = [u \in Task |-> IF u = t THEN x ELSE task[u]],
             x.pc \in {"queued", "fetch"}, x.pc = "fetch" => x.alone, x.order = o,
             x.copy.contents = {}, x.got = {},
             Sane(x)', ChannelSane', panicked' \in BOOLEAN
      PROVE  QueueInv'
  <2>1. WorkersSane'
    BY <1>5, WorkersKept DEF Processing
  <2>2. UNCHANGED orders /\ UNCHANGED owner /\ UNCHANGED overlapped
    OBVIOUS
  <2>4. Piece' = Piece
    BY <2>2 DEF Piece
  <2>5. TablesSane'
    BY <1>3, <1>5
  <2>6. x.pc \notin Processing \ {"fetch"}
    BY <1>5 DEF Processing
  <2> QED
    BY <1>1, <1>5, <2>1, <2>2, <2>4, <2>5, <2>6, TaskStep
<1>6. CASE /\ ~Closed /\ Len(channel) < Buffer
           /\ channel' = Append(channel, t)
           /\ task' = [task EXCEPT ![t] = [NewTask(o) EXCEPT !.pc = "queued", !.alone = FALSE]]
           /\ UNCHANGED panicked
  <2>1. PICK x : x = [NewTask(o) EXCEPT !.pc = "queued", !.alone = FALSE]
    OBVIOUS
  <2>2. x.pc = "queued"
    BY <2>1 DEF NewTask
  <2>3. task' = [u \in Task |-> IF u = t THEN x ELSE task[u]]
    BY <1>4, <1>6, <2>1
  <2>4. ChannelSane'
    <3>1. /\ channel \in Seq(Task) /\ Len(channel) \in Nat /\ channel' \in Seq(Task)
          /\ Len(channel') = Len(channel) + 1
          /\ DOMAIN channel = 1 .. Len(channel) /\ DOMAIN channel' = 1 .. Len(channel) + 1
          /\ \A i \in 1 .. Len(channel) : channel'[i] = channel[i]
          /\ channel'[Len(channel) + 1] = t
      BY <1>2, <1>6 DEF ChannelSane
    <3>2. Len(channel') <= Buffer
      BY <1>6, <3>1, QueueAssumption
    <3>3. \A i \in 1 .. Len(channel) : channel[i] # t
      BY <1>1, <1>2, <3>1 DEF ChannelSane
    <3>4. \A u \in Task : task'[u].pc = "queued" <=> \E i \in DOMAIN channel' : channel'[i] = u
      <4>1. TAKE u \in Task
      <4>2. CASE u = t
        BY <2>2, <2>3, <3>1, <4>2
      <4>3. CASE u # t
        <5>1. task'[u] = task[u]
          BY <2>3, <4>3
        <5>2. (\E i \in DOMAIN channel' : channel'[i] = u)
                <=> \E i \in DOMAIN channel : channel[i] = u
          BY <3>1, <4>3
        <5> QED
          BY <1>2, <5>1, <5>2 DEF ChannelSane
      <4> QED
        BY <4>2, <4>3
    <3>5. \A i, j \in DOMAIN channel' : i # j => channel'[i] # channel'[j]
      BY <1>2, <3>1, <3>3 DEF ChannelSane
    <3> QED
      BY <3>1, <3>2, <3>4, <3>5 DEF ChannelSane
  <2> QED
    BY <1>2, <1>4, <1>5, <1>6, <2>1, <2>4 DEF TablesSane
<1>7. CASE /\ ~Closed /\ Len(channel) >= Buffer
           /\ task' = [task EXCEPT ![t] = [NewTask(o) EXCEPT !.pc = "fetch", !.alone = TRUE]]
           /\ UNCHANGED <<channel, panicked>>
  <2>1. PICK x : x = [NewTask(o) EXCEPT !.pc = "fetch", !.alone = TRUE]
    OBVIOUS
  <2>2. x.pc = "fetch"
    BY <2>1 DEF NewTask
  <2>3. task' = [u \in Task |-> IF u = t THEN x ELSE task[u]]
    BY <1>4, <1>7, <2>1
  <2>4. ChannelSane'
    BY <1>1, <1>7, <2>2, <2>3, ChannelKept
  <2> QED
    BY <1>2, <1>4, <1>5, <1>7, <2>1, <2>4 DEF TablesSane
<1>8. CASE Closed /\ panicked' = TRUE /\ UNCHANGED <<channel, task>>
  <2>1. TablesSane'
    BY <1>3, <1>8
  <2>2. TasksSane'
    BY <1>2, <1>8 DEF TasksSane, Sane, Piece
  <2>3. ChannelSane'
    BY <1>2, <1>8 DEF ChannelSane
  <2>4. WorkersSane'
    BY <1>2, <1>8 DEF WorkersSane, InWorkers, Started, Busy
  <2>5. CopiesSane'
    BY <1>8 DEF QueueInv, CopiesSane, HasRead
  <2> QED
    BY <2>1, <2>2, <2>3, <2>4, <2>5 DEF QueueInv
<1> QED
  BY <1>6, <1>7, <1>8 DEF Send

\* A free worker takes the first of the channel.
LEMMA ReceiveInv == ASSUME QueueInv, Receive PROVE QueueInv'
<1>1. /\ TablesSane /\ TasksSane /\ ChannelSane /\ WorkersSane
      /\ UNCHANGED <<orders, owner, stock, imported, workers, stop, panicked, overlapped>>
      /\ channel # <<>> /\ channel' = Tail(channel) /\ Cardinality(InWorkers) < workers
  BY DEF QueueInv, Receive, Received
<1>2. PICK t : t = Head(channel)
  OBVIOUS
<1>3. /\ channel \in Seq(Task) /\ Len(channel) \in Nat \ {0} /\ channel' \in Seq(Task)
      /\ Len(channel') = Len(channel) - 1
      /\ DOMAIN channel = 1 .. Len(channel) /\ DOMAIN channel' = 1 .. Len(channel) - 1
      /\ \A i \in 1 .. Len(channel) - 1 : channel'[i] = channel[i + 1]
      /\ t = channel[1] /\ t \in Task
  BY <1>1, <1>2 DEF ChannelSane
<1>4. task[t].pc = "queued"
  BY <1>1, <1>3 DEF ChannelSane
<1>5. Sane(task[t]) /\ task[t] \in TaskRow /\ ~task[t].alone /\ task[t] # NoTask
  BY <1>1, <1>3, <1>4 DEF TasksSane, NoTask, Sane
<1>6. PICK x : x = [task[t] EXCEPT !.pc = "fetch"]
  OBVIOUS
<1>7. /\ x \in TaskRow /\ x.pc = "fetch" /\ x.order = task[t].order /\ ~x.alone
      /\ x.copy = task[t].copy /\ x.got = task[t].got
  BY <1>5, <1>6 DEF TaskRow, Copy, Processing
<1>8. task' = [u \in Task |-> IF u = t THEN x ELSE task[u]]
  BY <1>1, <1>2, <1>3, <1>6 DEF Receive, Goto, TasksSane
<1>9. Sane(x)'
  BY <1>1, <1>4, <1>5, <1>7 DEF Sane, Piece
<1>10. TablesSane'
  BY <1>1 DEF TablesSane, Row, Piece
<1>11. ChannelSane'
  <2>1. Len(channel') <= Buffer
    BY <1>1, <1>3, QueueAssumption DEF ChannelSane
  <2>2. \A u \in Task : task'[u].pc = "queued" <=> \E i \in DOMAIN channel' : channel'[i] = u
    <3>1. TAKE u \in Task
    <3>2. CASE u = t
      <4>1. \A i \in 1 .. Len(channel) - 1 : channel[i + 1] # channel[1]
        BY <1>1, <1>3 DEF ChannelSane
      <4> QED
        BY <1>3, <1>7, <1>8, <3>2, <4>1
    <3>3. CASE u # t
      <4>1. task'[u] = task[u]
        BY <1>8, <3>3
      <4>2. (\E i \in 1 .. Len(channel) : channel[i] = u)
              <=> \E i \in 1 .. Len(channel) - 1 : channel[i + 1] = u
        <5>1. \A i \in 1 .. Len(channel) : i = 1 \/ (i - 1 \in 1 .. Len(channel) - 1 /\ i = (i - 1) + 1)
          BY <1>3
        <5>2. \A i \in 1 .. Len(channel) - 1 : i + 1 \in 1 .. Len(channel)
          BY <1>3
        <5> QED
          <6>1. ASSUME NEW i \in 1 .. Len(channel), channel[i] = u
                PROVE  \E j \in 1 .. Len(channel) - 1 : channel[j + 1] = u
            BY <1>3, <3>3, <5>1, <6>1
          <6> QED
            BY <5>2, <6>1
      <4>3. (\E i \in DOMAIN channel' : channel'[i] = u)
              <=> \E i \in 1 .. Len(channel) - 1 : channel[i + 1] = u
        BY <1>3
      <4>4. task[u].pc = "queued" <=> \E i \in 1 .. Len(channel) : channel[i] = u
        BY <1>1, <1>3 DEF ChannelSane
      <4> QED
        BY <4>1, <4>2, <4>3, <4>4
    <3> QED
      BY <3>2, <3>3
  <2>3. \A i, k \in DOMAIN channel' : i # k => channel'[i] # channel'[k]
    BY <1>1, <1>3 DEF ChannelSane
  <2> QED
    BY <1>3, <2>1, <2>2, <2>3 DEF ChannelSane
<1>12. WorkersSane'
  <2>1. InWorkers' = InWorkers \cup {t}
    <3>1. \A u \in Task \ {t} : task'[u] = task[u]
      BY <1>8
    <3>2. task'[t] = x
      BY <1>3, <1>8
    <3> QED
      BY <1>3, <1>7, <3>1, <3>2 DEF InWorkers, Started, Busy, Processing
  <2>2. /\ IsFiniteSet(InWorkers \cup {t})
        /\ Cardinality(InWorkers \cup {t}) <= Cardinality(InWorkers) + 1
        /\ Cardinality(InWorkers) \in Nat /\ Cardinality(InWorkers \cup {t}) \in Nat
    <3>1. IsFiniteSet(InWorkers) /\ Cardinality(InWorkers) \in Nat
      BY <1>1, FS_CardinalityType DEF WorkersSane
    <3>2. /\ IsFiniteSet(InWorkers \cup {t})
          /\ Cardinality(InWorkers \cup {t})
               = IF t \in InWorkers THEN Cardinality(InWorkers) ELSE Cardinality(InWorkers) + 1
      BY <3>1, FS_AddElement
    <3> QED
      BY <3>1, <3>2
  <2>3. workers \in Int
    BY <1>1 DEF WorkersSane
  <2> QED
    BY <1>1, <2>1, <2>2, <2>3 DEF WorkersSane
<1>13. ~Busy(t) /\ UNCHANGED orders /\ UNCHANGED owner /\ UNCHANGED overlapped
  BY <1>1, <1>4 DEF Busy, Processing
<1>14. Piece' = Piece
  BY <1>13 DEF Piece
<1> QED
  BY <1>3, <1>7, <1>8, <1>9, <1>10, <1>11, <1>12, <1>13, <1>14, TaskStep

\* Steps that leave the tasks alone.
LEMMA OtherInv ==
  ASSUME QueueInv, WorkerReturns \/ Cancel \/ Close \/ StopReturns \/ Import \/ UNCHANGED vars
  PROVE  QueueInv'
<1>1. TablesSane /\ TasksSane /\ ChannelSane /\ WorkersSane /\ CopiesSane
  BY DEF QueueInv
<1>2. UNCHANGED <<orders, owner, task, channel, overlapped>>
  BY DEF WorkerReturns, Cancel, Close, StopReturns, Import, vars
<1>3. TasksSane'
  BY <1>1, <1>2 DEF TasksSane, Sane, Piece
<1>4. ChannelSane'
  BY <1>1, <1>2 DEF ChannelSane
<1>5. CopiesSane'
  BY <1>1, <1>2 DEF CopiesSane, HasRead
<1>7. TablesSane'
  <2>1. /\ orders' \in [Order -> Row'] /\ owner' \in Seq(Order)
        /\ overlapped' \subseteq Order
    BY <1>1, <1>2 DEF TablesSane, Row, Piece
  <2>2. stock' \in 0 .. imported' /\ imported' \in 0 .. MaxStock
    BY <1>1, QueueAssumption DEF TablesSane, WorkerReturns, Cancel, Close, StopReturns, Import, vars
  <2>3. stop' \in {"up", "cancelled", "closed", "returned"} /\ panicked' \in BOOLEAN
    BY <1>1 DEF TablesSane, WorkerReturns, Cancel, Close, StopReturns, Import, vars
  <2> QED
    BY <2>1, <2>2, <2>3 DEF TablesSane
<1>8. WorkersSane'
  <2>1. InWorkers' = InWorkers /\ IsFiniteSet(InWorkers) /\ Cardinality(InWorkers) \in Nat
    BY <1>1, <1>2, FS_CardinalityType DEF WorkersSane, InWorkers, Started, Busy
  <2>2. workers \in 0 .. Workers /\ Cardinality(InWorkers) <= workers
    BY <1>1 DEF WorkersSane
  <2>3. /\ workers' \in 0 .. Workers /\ Cardinality(InWorkers) <= workers'
        /\ workers = 0 => workers' = 0
    BY <2>1, <2>2, QueueAssumption
    DEF WorkerReturns, Done, Cancel, Close, StopReturns, Import, vars
  <2>4. stop' = "returned" => workers = 0
    BY <1>1 DEF WorkersSane, WorkerReturns, Cancel, Close, StopReturns, Waited, Import, vars
  <2> QED
    BY <2>1, <2>3, <2>4 DEF WorkersSane
<1> QED
  BY <1>3, <1>4, <1>5, <1>7, <1>8 DEF QueueInv

-----------------------------------------------------------------------------
(* process, step by step.                                                  *)

\* Tables of which one row is replaced at most, and to which pieces are added.
LEMMA TablesStay ==
  ASSUME QueueInv, NEW o \in Order, NEW row, Elsewhere,
         Piece \subseteq Piece', owner' \in Seq(Order),
         overlapped' \subseteq Order, imported' = imported, stock' \in 0 .. imported,
         row \in Copy, row.contents \subseteq Piece',
         orders' = orders \/ orders' = [orders EXCEPT ![o] = row]
  PROVE  /\ TablesSane'
         /\ \A p \in Order \ {o} : orders'[p] = orders[p]
         /\ orders' # orders => orders'[o] = row
<1>1. TablesSane /\ orders \in [Order -> Row]
  BY DEF QueueInv, TablesSane
<1>2. row \in Row'
  BY DEF Row, Copy
<1>3. \A p \in Order : orders[p] \in Row'
  <2>1. \A r \in Row : r \in Row'
    BY DEF Row
  <2> QED
    BY <1>1, <2>1
<1>4. orders' \in [Order -> Row']
  BY <1>1, <1>2, <1>3
<1> QED
  BY <1>1, <1>4 DEF TablesSane, Elsewhere

\* A task that has read an order that nobody else has holds what the row shows.
LEMMA Reader ==
  ASSUME QueueInv, NEW t \in Task, HasRead(t), task[t].order \notin overlapped
  PROVE  /\ \A u \in Task \ {t} : HasRead(u) => task[u].order # task[t].order
         /\ orders[task[t].order].contents \subseteq task[t].copy.contents
         /\ orders[task[t].order].status < 2
BY DEF QueueInv, CopiesSane

LEMMA RowLeft ==
  ASSUME NEW o \in Order, NEW q \in {"timer", "done"}, NEW n \in 0 .. 2, NEW m \in BOOLEAN,
         NEW c, c = [status |-> 0, contents |-> {}],
         NEW x, x = [order |-> o, pc |-> q, retry |-> n, alone |-> FALSE, copy |-> c,
                     got |-> {}, tries |-> 0, moved |-> m]
  PROVE  /\ x \in TaskRow /\ x.order = o /\ x.pc = q /\ x.got = {}
         /\ x.copy.contents = {} /\ x.copy.status < 2
<1>1. c \in Copy /\ c.contents = {} /\ c.status = 0 /\ 0 \in 0 .. RetryMax
  BY QueueAssumption DEF Copy
<1> QED
  BY <1>1 DEF TaskRow, Copy

\* A task that leaves holds nothing.
LEMMA LeaveTurn ==
  ASSUME QueueInv, NEW t \in Task, Busy(t), NEW pc \in {"timer", "done"}, Leave(t, pc)
  PROVE  \E x : /\ task' = [u \in Task |-> IF u = t THEN x ELSE task[u]]
                /\ x.order = task[t].order /\ x.pc = pc /\ Sane(x)'
<1>1. PICK o, n, m : o = task[t].order /\ n = task[t].retry /\ m = task[t].moved
  OBVIOUS
<1>2. o \in Order /\ n \in 0 .. 2 /\ m \in BOOLEAN
  BY <1>1, BusyTask DEF TaskRow, Copy
<1>3. PICK x : x = [NewTask(o) EXCEPT !.pc = pc, !.retry = n, !.moved = m]
  OBVIOUS
<1>4. task' = [u \in Task |-> IF u = t THEN x ELSE task[u]]
  BY <1>1, <1>3 DEF Leave, QueueInv, TasksSane
<1>5. x = [order |-> o, pc |-> pc, retry |-> n, alone |-> FALSE,
           copy |-> [status |-> 0, contents |-> {}], got |-> {}, tries |-> 0, moved |-> m]
  BY ONLY <1>3 DEF NewTask
<1>6. PICK c : c = [status |-> 0, contents |-> {}]
  OBVIOUS
<1>7. /\ x \in TaskRow /\ x.order = o /\ x.pc = pc /\ x.got = {}
      /\ x.copy.contents = {} /\ x.copy.status < 2
  BY <1>2, <1>5, <1>6, RowLeft
<1> QED
  BY <1>1, <1>4, <1>7 DEF Sane

\* An order is given up or left alone, or it is read.
LEMMA FetchInv == ASSUME QueueInv, NEW t \in Task, Fetch(t) PROVE QueueInv'
<1>1. PICK old : old = task[t]
  OBVIOUS
<1>2. PICK o : o = task[t].order
  OBVIOUS
<1>3. Busy(t) /\ old.pc = "fetch"
  BY <1>1 DEF Fetch, At, Busy, Processing
<1>4. /\ Sane(task[t]) /\ Sane(old) /\ old \in TaskRow /\ o \in Order /\ o = old.order
      /\ old.copy.contents = {}
  BY <1>1, <1>2, <1>3, BusyTask DEF Sane, TaskRow, Copy
<1>5. /\ UNCHANGED <<orders, owner, stock, imported>> /\ Elsewhere
      /\ TablesSane /\ orders[o] \in Row
  BY <1>4 DEF Fetch, QueueInv, TablesSane
<1>6. ASSUME overlapped' \subseteq Order
      PROVE  TablesSane' /\ Piece' = Piece
  BY <1>5, <1>6 DEF TablesSane, Elsewhere, Row, Piece
<1>7. CASE Leave(t, "done") /\ UNCHANGED overlapped
  <2>1. PICK x : /\ task' = [u \in Task |-> IF u = t THEN x ELSE task[u]]
                 /\ x.order = task[t].order /\ x.pc = "done" /\ Sane(x)'
    BY <1>3, <1>7, LeaveTurn
  <2>2. TablesSane' /\ Piece' = Piece
    BY <1>5, <1>6, <1>7 DEF TablesSane
  <2>3. x.pc \notin Processing
    BY <2>1 DEF Processing
  <2> QED
    BY <1>1, <1>2, <1>3, <1>4, <1>5, <1>7, <2>1, <2>2, <2>3, ProcessStep
<1>8. CASE /\ ~ Finished(Holds(t))
           /\ task' = [task EXCEPT ![t].copy = orders[o],
                        ![t].pc = IF orders[o].status = 0 THEN "mark" ELSE Engine(o, orders[o])]
           /\ overlapped' = overlapped \cup
                {p \in {o} : \E u \in Started \ {t} : task[u].order = o /\ HasRead(u)}
  <2>1. PICK pc : pc = IF orders[o].status = 0 THEN "mark" ELSE Engine(o, orders[o])
    OBVIOUS
  <2>2. /\ pc \in {"mark", "save", "pull", "post"}
        /\ pc \notin {"mark", "save"} => orders[o].contents = {}
    BY <2>1 DEF Engine
  <2>3. PICK c : c = orders[o]
    OBVIOUS
  <2>4. PICK x : x = [old EXCEPT !.copy = c, !.pc = pc]
    OBVIOUS
  <2>5. task' = [u \in Task |-> IF u = t THEN x ELSE task[u]]
    <3>1. task' = [task EXCEPT ![t] = [old EXCEPT !.copy = orders[o], !.pc = pc]]
      BY <1>1, <1>8, <2>1 DEF QueueInv, TasksSane
    <3> QED
      BY <2>3, <2>4, <3>1 DEF QueueInv, TasksSane
  <2>6. /\ orders[o] \in Copy /\ orders[o].status < 2
        /\ orders[o].contents \subseteq Piece
    BY <1>2, <1>5, <1>8 DEF Row, TablesSane, Piece, Copy, Finished, Holds
  <2>7. /\ x.order = o /\ x.pc = pc /\ x.alone = old.alone /\ x.copy = orders[o]
        /\ x.got = old.got /\ x \in TaskRow
    <3>1. c \in Copy /\ pc \in Processing /\ old \in TaskRow
      BY <1>4, <2>2, <2>3, <2>6 DEF Processing
    <3>2. /\ x \in TaskRow /\ x.order = old.order /\ x.pc = pc /\ x.alone = old.alone
          /\ x.copy = c /\ x.got = old.got
      BY ONLY <2>4, <3>1 DEF TaskRow, Copy
    <3> QED
      BY <1>4, <2>3, <3>2
  <2>8. overlapped \subseteq overlapped' /\ overlapped' \subseteq Order
    BY <1>4, <1>5, <1>8 DEF TablesSane
  <2>9. TablesSane' /\ Piece' = Piece
    BY <1>6, <2>8
  <2>10. Sane(x)'
    BY <1>4, <2>2, <2>6, <2>7, <2>9 DEF Sane
  <2>11. o \notin overlapped' => \A u \in Task \ {t} : HasRead(u) => task[u].order # o
    BY <1>8 DEF Started, HasRead, Processing
  <2>12. x.pc # "queued"
    BY <2>2, <2>7
  <2> QED
    BY <1>1, <1>2, <1>3, <1>4, <1>5, <2>5, <2>6, <2>7, <2>8, <2>9, <2>10, <2>11, <2>12,
       ProcessStep
<1> QED
  BY <1>2, <1>7, <1>8 DEF Fetch

\* A step of a task that has read its order: its copy keeps what it held and, if
\* the task goes on, what the row shows.
LEMMA ReaderStep ==
  ASSUME QueueInv, NEW t \in Task, NEW old, old = task[t], old.pc \in Processing \ {"fetch"},
         NEW x, task' = [u \in Task |-> IF u = t THEN x ELSE task[u]], Elsewhere,
         UNCHANGED <<imported, overlapped>>, stock' \in 0 .. imported,
         x.order = old.order, x.pc \notin {"queued", "fetch"}, Sane(x)',
         x.pc \in Processing => x.alone = old.alone,
         Piece \subseteq Piece', owner' \in Seq(Order),
         NEW row \in Copy, row.contents \subseteq Piece',
         orders' = orders \/ orders' = [orders EXCEPT ![old.order] = row],
         x.pc \in Processing =>
           /\ old.copy.contents \subseteq x.copy.contents
           /\ orders' = orders \/ (row.contents \subseteq x.copy.contents /\ row.status < 2)
  PROVE  QueueInv'
<1>1. Busy(t) /\ HasRead(t)
  BY DEF Busy, HasRead, Processing
<1>2. old \in TaskRow /\ old.order \in Order /\ overlapped \subseteq Order
  BY <1>1, BusyTask DEF TaskRow, Copy, QueueInv, TablesSane
<1>3. /\ TablesSane' /\ \A p \in Order \ {old.order} : orders'[p] = orders[p]
      /\ orders' # orders => orders'[old.order] = row
  BY <1>2, TablesStay DEF Copy
<1>4. old.order \notin overlapped =>
        /\ \A u \in Task \ {t} : HasRead(u) => task[u].order # old.order
        /\ orders[old.order].contents \subseteq old.copy.contents
        /\ orders[old.order].status < 2
  BY <1>1, Reader
<1>5. x.pc \in Processing /\ old.order \notin overlapped =>
        /\ orders'[old.order].contents \subseteq x.copy.contents
        /\ orders'[old.order].status < 2
  <2>1. CASE orders' = orders
    BY <1>4, <2>1
  <2>2. CASE orders' # orders
    BY <1>3, <2>2
  <2> QED
    BY <2>1, <2>2
<1> QED
  BY <1>1, <1>3, <1>4, <1>5, ProcessStep

\* Such a step that leaves the rows alone.
LEMMA ReaderOnly ==
  ASSUME QueueInv, NEW t \in Task, NEW old, old = task[t], old.pc \in Processing \ {"fetch"},
         NEW x, task' = [u \in Task |-> IF u = t THEN x ELSE task[u]], Elsewhere,
         UNCHANGED <<orders, imported, overlapped>>, stock' \in 0 .. imported,
         x.order = old.order, x.pc \in Processing \ {"fetch"}, Sane(x)',
         x.alone = old.alone, old.copy \in Copy, old.copy.contents = {},
         Piece \subseteq Piece', owner' \in Seq(Order)
  PROVE  QueueInv'
<1>1. x.pc \notin {"queued", "fetch"}
  BY DEF Processing
<1>2. /\ old.copy.contents \subseteq Piece' /\ orders' = orders
      /\ old.copy.contents \subseteq x.copy.contents
  OBVIOUS
<1> QED
  BY <1>1, <1>2, ReaderStep

\* What a task that has read its order is.
LEMMA AtWork ==
  ASSUME QueueInv, NEW t \in Task, NEW old, old = task[t], old.pc \in Processing \ {"fetch"}
  PROVE  /\ old \in TaskRow /\ Sane(old) /\ old.order \in Order /\ old.copy \in Copy
         /\ old.copy.contents \subseteq Piece /\ old.got \subseteq Piece
         /\ Piece \subseteq Nat /\ old.got \in SUBSET Nat /\ old.tries \in 0 .. RetryMax
         /\ old.moved \in BOOLEAN /\ old.retry \in 0 .. 2
         /\ orders \in [Order -> Row] /\ owner \in Seq(Order) /\ stock \in 0 .. imported
         /\ imported \in Nat
<1>1. Busy(t)
  BY DEF Busy
<1>2. Sane(old) /\ old \in TaskRow
  BY <1>1, BusyTask
<1>3. owner \in Seq(Order) /\ stock \in 0 .. imported /\ imported \in Nat
      /\ orders \in [Order -> Row]
  BY QueueAssumption DEF QueueInv, TablesSane
<1>4. Piece \subseteq Nat
  BY <1>3 DEF Piece
<1> QED
  BY <1>2, <1>3, <1>4 DEF Sane, TaskRow, Copy

\* The order is marked as paid.
LEMMA MarkInv == ASSUME QueueInv, NEW t \in Task, Mark(t) PROVE QueueInv'
<1>1. PICK old : old = task[t]
  OBVIOUS
<1>2. PICK c : c = [old.copy EXCEPT !.status = 1]
  OBVIOUS
<1>3. PICK q : q = Engine(old.order, c)
  OBVIOUS
<1>4. old.pc = "mark" /\ old.pc \in Processing \ {"fetch"}
  BY <1>1 DEF Mark, At, Processing
<1>5. /\ old \in TaskRow /\ Sane(old) /\ old.order \in Order /\ old.copy \in Copy
      /\ old.copy.contents \subseteq Piece /\ old.got \subseteq Piece
      /\ orders \in [Order -> Row] /\ owner \in Seq(Order) /\ stock \in 0 .. imported
  BY <1>1, <1>4, AtWork
<1>6. c \in Copy /\ c.contents = old.copy.contents /\ c.status = 1
  BY <1>2, <1>5 DEF Copy
<1>7. q \in {"save", "pull", "post"} /\ q \in Processing /\ (q # "save" => c.contents = {})
  BY <1>3 DEF Engine, Processing
<1>8. PICK x : x = [old EXCEPT !.copy = c, !.pc = q]
  OBVIOUS
<1>9. old \in TaskRow /\ c \in Copy /\ q \in Processing
  BY <1>5, <1>6, <1>7
<1>10. /\ x \in TaskRow /\ x.order = old.order /\ x.alone = old.alone /\ x.copy = c
       /\ x.got = old.got /\ x.pc = q
  BY ONLY <1>8, <1>9 DEF TaskRow, Copy
<1>11. /\ task' = [task EXCEPT ![t] = [old EXCEPT !.copy = c, !.pc = q]]
       /\ orders' = orders \/ orders' = [orders EXCEPT ![old.order] = c]
       /\ UNCHANGED <<owner, stock, imported, overlapped>> /\ Elsewhere
  BY <1>1, <1>2, <1>3 DEF Mark, Write, Store, QueueInv, TasksSane
<1>12. task' = [u \in Task |-> IF u = t THEN x ELSE task[u]]
  BY <1>8, <1>11 DEF QueueInv, TasksSane
<1>13. Piece' = Piece
  BY <1>11 DEF Piece
<1>14. Sane(x)'
  BY <1>5, <1>6, <1>7, <1>10, <1>13 DEF Sane
<1>15. x.pc \notin {"queued", "fetch"}
  BY <1>7, <1>10
<1>16. /\ owner' \in Seq(Order) /\ Piece \subseteq Piece' /\ c.contents \subseteq Piece'
       /\ old.copy.contents \subseteq x.copy.contents /\ stock' \in 0 .. imported
       /\ c.contents \subseteq x.copy.contents /\ c.status < 2
       /\ UNCHANGED <<imported, overlapped>>
  BY <1>5, <1>6, <1>10, <1>11, <1>13
<1>17. /\ x.order = old.order /\ x.alone = old.alone /\ c \in Copy /\ Elsewhere
       /\ orders' = orders \/ orders' = [orders EXCEPT ![old.order] = c]
  BY <1>6, <1>10, <1>11
<1> QED
  BY <1>1, <1>4, <1>12, <1>14, <1>15, <1>16, <1>17, ReaderStep

\* One card more, and it may be the last.
LEMMA PullInv == ASSUME QueueInv, NEW t \in Task, Pull(t) PROVE QueueInv'
<1>1. PICK old, n : old = task[t] /\ n = Len(owner) + 1
  OBVIOUS
<1>2. PICK g : g = old.got \cup {n}
  OBVIOUS
<1>3. PICK d : d = IF Cardinality(g) = Num[old.order] THEN g ELSE {}
  OBVIOUS
<1>4. PICK q : q = IF Cardinality(g) = Num[old.order] THEN "save" ELSE "pull"
  OBVIOUS
<1>5. old.pc = "pull" /\ old.pc \in Processing \ {"fetch"}
  BY <1>1 DEF Pull, At, Processing
<1>6. /\ old \in TaskRow /\ Sane(old) /\ old.order \in Order /\ old.copy \in Copy
      /\ old.copy.contents = {} /\ old.got \subseteq Piece /\ Piece \subseteq Nat
      /\ owner \in Seq(Order) /\ stock \in 0 .. imported /\ imported \in Nat
  BY <1>1, <1>5, AtWork DEF Sane
<1>7. /\ task' = [task EXCEPT ![t] = [old EXCEPT !.got = g, !.pc = q, !.copy.contents = d]]
      /\ stock' = stock - 1 /\ stock > 0 /\ owner' = Append(owner, old.order)
      /\ UNCHANGED <<orders, imported, overlapped>> /\ Elsewhere
  <2>1. task' = [task EXCEPT ![t].got = g, ![t].pc = q, ![t].copy.contents = d]
    BY <1>1, <1>2, <1>3, <1>4, Zenon DEF Pull
  <2>2. task' = [task EXCEPT ![t] = [old EXCEPT !.got = g, !.pc = q, !.copy.contents = d]]
    <3>1. PICK f : f = task
      OBVIOUS
    <3>2. f = [u \in Task |-> f[u]] /\ t \in Task /\ old = f[t]
      BY <1>1, <3>1 DEF QueueInv, TasksSane
    <3>3. [f EXCEPT ![t].got = g, ![t].pc = q, ![t].copy.contents = d]
            = [f EXCEPT ![t] = [old EXCEPT !.got = g, !.pc = q, !.copy.contents = d]]
      <4>1. PICK y, z, h : /\ y = [old EXCEPT !.got = g] /\ z = [y EXCEPT !.pc = q]
                           /\ h = [f EXCEPT ![t] = y]
        OBVIOUS
      <4>2. /\ h = [f EXCEPT ![t].got = g] /\ h[t] = y /\ h = [u \in Task |-> h[u]]
            /\ \A u \in Task \ {t} : h[u] = f[u]
        BY ONLY <3>2, <4>1
      <4>3. PICK e : e = [f EXCEPT ![t] = z]
        OBVIOUS
      <4>4. /\ e = [h EXCEPT ![t].pc = q] /\ e[t] = z /\ e = [u \in Task |-> e[u]]
            /\ \A u \in Task \ {t} : e[u] = f[u]
        BY ONLY <3>2, <4>1, <4>2, <4>3
      <4>5. [e EXCEPT ![t].copy.contents = d] = [f EXCEPT ![t] = [z EXCEPT !.copy.contents = d]]
        BY ONLY <3>2, <4>3, <4>4
      <4> QED
        BY ONLY <4>1, <4>2, <4>4, <4>5
    <3> QED
      BY <2>1, <3>1, <3>3
  <2> QED
    BY <1>1, <2>2 DEF Pull
<1>8. owner' \in Seq(Order) /\ Piece' = Piece \cup {n} /\ n \in Nat
  BY <1>1, <1>6, <1>7, OnePiece
<1>9. /\ g \in SUBSET Nat /\ d \in SUBSET Nat /\ q \in {"save", "pull"} /\ q \in Processing
      /\ g \subseteq Piece' /\ d \subseteq Piece'
      /\ q = "pull" => d = {}
  BY <1>2, <1>3, <1>4, <1>6, <1>8 DEF Processing
<1>10. PICK x : x = [old EXCEPT !.got = g, !.pc = q, !.copy.contents = d]
  OBVIOUS
<1>11. old \in TaskRow /\ g \in SUBSET Nat /\ d \in SUBSET Nat /\ q \in Processing
  BY <1>6, <1>9
<1>12. /\ x \in TaskRow /\ x.order = old.order /\ x.alone = old.alone
       /\ x.copy.contents = d /\ x.copy.status = old.copy.status /\ x.got = g /\ x.pc = q
  BY ONLY <1>10, <1>11 DEF TaskRow, Copy
<1>13. task' = [u \in Task |-> IF u = t THEN x ELSE task[u]]
  BY <1>7, <1>10 DEF QueueInv, TasksSane
<1>14. Sane(x)'
  BY <1>6, <1>9, <1>12 DEF Sane
<1>15. /\ stock' \in 0 .. imported /\ Piece \subseteq Piece'
       /\ x.pc \in Processing \ {"fetch"}
       /\ UNCHANGED <<orders, imported, overlapped>> /\ Elsewhere
  BY <1>6, <1>7, <1>8, <1>9, <1>12
<1> QED
  BY <1>1, <1>5, <1>6, <1>8, <1>12, <1>13, <1>14, <1>15, ReaderOnly

\* Out of stock, or the call failed.
LEMMA PullFailsInv == ASSUME QueueInv, NEW t \in Task, PullFails(t) PROVE QueueInv'
<1>1. PICK old : old = task[t]
  OBVIOUS
<1>2. old.pc = "pull" /\ old.pc \in Processing \ {"fetch"}
  BY <1>1 DEF PullFails, At, Processing
<1>3. /\ old \in TaskRow /\ Sane(old) /\ old.copy \in Copy
      /\ old.copy.contents = {}
      /\ owner \in Seq(Order) /\ stock \in 0 .. imported
  BY <1>1, <1>2, AtWork DEF Sane
<1>4. /\ task' = [task EXCEPT ![t] = [old EXCEPT !.pc = "fail"]]
      /\ UNCHANGED <<orders, owner, stock, imported, overlapped>> /\ Elsewhere
  BY <1>1 DEF PullFails, Goto, QueueInv, TasksSane
<1>5. PICK x : x = [old EXCEPT !.pc = "fail"]
  OBVIOUS
<1>6. /\ x \in TaskRow /\ x.order = old.order /\ x.alone = old.alone
      /\ x.copy = old.copy /\ x.got = old.got /\ x.pc = "fail"
  <2>1. old \in TaskRow /\ "fail" \in Processing
    BY <1>3 DEF Processing
  <2> QED
    BY ONLY <1>5, <2>1 DEF TaskRow, Copy
<1>7. task' = [u \in Task |-> IF u = t THEN x ELSE task[u]]
  BY <1>4, <1>5 DEF QueueInv, TasksSane
<1>8. Sane(x)' /\ Piece' = Piece
  BY <1>3, <1>4, <1>6 DEF Sane, Piece
<1>9. /\ owner' \in Seq(Order) /\ stock' \in 0 .. imported
      /\ x.pc \in Processing \ {"fetch"}
      /\ UNCHANGED <<orders, imported, overlapped>> /\ Elsewhere
  BY <1>3, <1>4, <1>6 DEF Processing
<1> QED
  BY <1>1, <1>2, <1>3, <1>6, <1>7, <1>8, <1>9, ReaderOnly

\* An answer of the upstream, with what it sold.
LEMMA AnsweredInv ==
  ASSUME QueueInv, NEW t \in Task, At(t, "post"), NEW d \in SUBSET Nat, Answered(t, d),
         Piece \subseteq Piece', d \subseteq Piece', owner' \in Seq(Order),
         UNCHANGED <<orders, stock, imported, overlapped>>, Elsewhere
  PROVE  QueueInv'
<1>1. PICK old : old = task[t]
  OBVIOUS
<1>2. old.pc = "post" /\ old.pc \in Processing \ {"fetch"}
  BY <1>1 DEF At, Processing
<1>3. /\ old \in TaskRow /\ Sane(old) /\ old.copy \in Copy
      /\ old.copy.contents = {} /\ stock \in 0 .. imported
  BY <1>1, <1>2, AtWork DEF Sane
<1>4. PICK m \in BOOLEAN :
        task' = [task EXCEPT ![t].copy.contents = d, ![t].moved = m, ![t].tries = 0,
                             ![t].pc = "save"]
  BY QueueAssumption DEF Answered
<1>5. PICK x : x = [old EXCEPT !.copy.contents = d, !.moved = m, !.tries = 0, !.pc = "save"]
  OBVIOUS
<1>6. /\ x \in TaskRow /\ x.order = old.order /\ x.alone = old.alone
      /\ x.copy.contents = d /\ x.copy.status = old.copy.status /\ x.got = old.got
      /\ x.pc = "save"
  <2>1. old \in TaskRow /\ "save" \in Processing /\ d \in SUBSET Nat /\ m \in BOOLEAN
        /\ 0 \in 0 .. RetryMax
    BY <1>3, QueueAssumption DEF Processing
  <2> QED
    BY ONLY <1>5, <2>1 DEF TaskRow, Copy
<1>7. task' = [u \in Task |-> IF u = t THEN x ELSE task[u]]
  BY <1>1, <1>4, <1>5 DEF QueueInv, TasksSane
<1>8. Sane(x)'
  BY <1>3, <1>6 DEF Sane
<1>9. x.pc \in Processing \ {"fetch"} /\ stock' \in 0 .. imported
  BY <1>3, <1>6 DEF Processing
<1> QED
  BY <1>1, <1>2, <1>3, <1>6, <1>7, <1>8, <1>9, ReaderOnly

\* The upstream sells.
LEMMA SoldInv == ASSUME QueueInv, NEW t \in Task, Sold(t) PROVE QueueInv'
<1>1. PICK o, n : o = task[t].order /\ n = Len(owner) + 1
  OBVIOUS
<1>2. Busy(t) /\ At(t, "post") /\ owner' = Append(owner, o) /\ Answered(t, {n})
  BY <1>1 DEF Sold, At, Busy, Processing
<1>3. o \in Order /\ owner \in Seq(Order)
  BY <1>1, <1>2, BusyTask DEF TaskRow, Copy, QueueInv, TablesSane
<1>4. /\ owner' \in Seq(Order) /\ Piece' = Piece \cup {n} /\ n \in Nat
  BY <1>1, <1>2, <1>3, OnePiece
<1> QED
  BY <1>2, <1>4, AnsweredInv DEF Sold

\* The upstream refuses, and nothing is delivered.
LEMMA RefusedInv == ASSUME QueueInv, NEW t \in Task, Refused(t) PROVE QueueInv'
<1>1. Piece' = Piece /\ owner' \in Seq(Order)
  BY DEF Refused, Piece, QueueInv, TablesSane
<1> QED
  BY <1>1, AnsweredInv DEF Refused

\* An attempt without an answer, after which another may follow.
LEMMA AttemptInv == ASSUME QueueInv, NEW t \in Task, Attempt(t) PROVE QueueInv'
<1>1. PICK old, n : old = task[t] /\ n = Len(owner) + 1
  OBVIOUS
<1>2. old.pc = "post" /\ old.pc \in Processing \ {"fetch"}
  BY <1>1 DEF Attempt, At, Processing
<1>3. /\ old \in TaskRow /\ Sane(old) /\ old.order \in Order /\ old.copy \in Copy
      /\ old.copy.contents = {} /\ old.tries \in 0 .. RetryMax
      /\ owner \in Seq(Order) /\ stock \in 0 .. imported
  BY <1>1, <1>2, AtWork DEF Sane
<1>4. UNCHANGED <<orders, stock, imported, overlapped>> /\ Elsewhere
  BY DEF Attempt
<1>5. PICK r : /\ task' = [task EXCEPT ![t] = r]
               /\ \E m \in 0 .. RetryMax : \/ r = [old EXCEPT !.tries = m]
                                           \/ r = [old EXCEPT !.tries = m, !.pc = "fail"]
  <2>1. CASE NextTry(t)
    <3>1. PICK m, r : m = old.tries + 1 /\ r = [old EXCEPT !.tries = m]
      OBVIOUS
    <3>2. m \in 0 .. RetryMax /\ task' = [task EXCEPT ![t] = r]
      BY <1>1, <1>3, <2>1, <3>1, QueueAssumption DEF NextTry, QueueInv, TasksSane
    <3> QED
      BY <3>1, <3>2
  <2>2. CASE task' = [task EXCEPT ![t].tries = 0, ![t].pc = "fail"]
    <3>1. PICK m, r : m = 0 /\ r = [old EXCEPT !.tries = m, !.pc = "fail"]
      OBVIOUS
    <3>2. m \in 0 .. RetryMax /\ task' = [task EXCEPT ![t] = r]
      <4>1. m \in 0 .. RetryMax
        BY <3>1, QueueAssumption
      <4>2. task' = [task EXCEPT ![t] = [old EXCEPT !.tries = 0, !.pc = "fail"]]
        BY <1>1, <2>2 DEF QueueInv, TasksSane
      <4> QED
        BY <3>1, <4>1, <4>2
    <3> QED
      BY <3>1, <3>2
  <2> QED
    BY <2>1, <2>2 DEF Attempt
<1>6. PICK x : x = r
  OBVIOUS
<1>7. /\ x \in TaskRow /\ x.order = old.order /\ x.alone = old.alone
      /\ x.copy = old.copy /\ x.got = old.got /\ x.pc \in {"post", "fail"}
  <2>1. PICK m \in 0 .. RetryMax : \/ x = [old EXCEPT !.tries = m]
                                  \/ x = [old EXCEPT !.tries = m, !.pc = "fail"]
    BY <1>5, <1>6
  <2>2. old \in TaskRow /\ "fail" \in Processing
    BY <1>3 DEF Processing
  <2> QED
    BY ONLY <1>2, <2>1, <2>2 DEF TaskRow, Copy
<1>8. task' = [u \in Task |-> IF u = t THEN x ELSE task[u]]
  BY <1>5, <1>6 DEF QueueInv, TasksSane
<1>9. owner' \in Seq(Order) /\ Piece \subseteq Piece'
  <2>1. CASE UNCHANGED owner
    BY <1>3, <2>1 DEF Piece
  <2>2. CASE owner' = Append(owner, old.order)
    BY <1>1, <1>3, <2>2, OnePiece
  <2> QED
    BY <1>1, <2>1, <2>2 DEF Attempt
<1>10. Sane(x)'
  BY <1>3, <1>7, <1>9 DEF Sane
<1>11. x.pc \in Processing \ {"fetch"} /\ stock' \in 0 .. imported
  BY <1>3, <1>4, <1>7 DEF Processing
<1> QED
  BY <1>1, <1>2, <1>3, <1>4, <1>7, <1>8, <1>9, <1>10, <1>11, ReaderOnly

\* The task leaves, and its copy may be written.
LEMMA LeavesInv ==
  ASSUME QueueInv, NEW t \in Task, task[t].pc \in Processing \ {"fetch"},
         NEW pc \in {"timer", "done"}, Leave(t, pc),
         NEW s \in 0 .. 2, NEW c, c = [task[t].copy EXCEPT !.status = s],
         Write(t, c), UNCHANGED <<owner, stock, imported, overlapped>>, Elsewhere
  PROVE  QueueInv'
<1>1. PICK old : old = task[t]
  OBVIOUS
<1>2. old.pc \in Processing \ {"fetch"} /\ Busy(t)
  BY <1>1 DEF Busy
<1>3. /\ old.copy \in Copy /\ old.copy.contents \subseteq Piece
      /\ owner \in Seq(Order) /\ stock \in 0 .. imported
  BY <1>1, <1>2, AtWork
<1>4. c \in Copy /\ c.contents = old.copy.contents
  BY <1>1, <1>3 DEF Copy
<1>5. PICK x : /\ task' = [u \in Task |-> IF u = t THEN x ELSE task[u]]
               /\ x.order = old.order /\ x.pc = pc /\ Sane(x)'
  BY <1>1, <1>2, LeaveTurn
<1>6. Piece' = Piece /\ x.pc \notin Processing /\ x.pc \notin {"queued", "fetch"}
  BY <1>5 DEF Piece, Processing
<1>7. orders' = orders \/ orders' = [orders EXCEPT ![old.order] = c]
  BY <1>1 DEF Write, Store
<1>8. owner' \in Seq(Order) /\ stock' \in 0 .. imported /\ c.contents \subseteq Piece'
  BY <1>3, <1>4, <1>6
<1> QED
  BY <1>1, <1>2, <1>4, <1>5, <1>6, <1>7, <1>8, ReaderStep

\* The copy is written with its error.
LEMMA FailInv == ASSUME QueueInv, NEW t \in Task, Fail(t) PROVE QueueInv'
<1>1. task[t].pc \in Processing \ {"fetch"}
  BY DEF Fail, At, Processing
<1>2. PICK pc \in {"timer", "done"} : Leave(t, pc)
  BY DEF Fail
<1>3. PICK c, s : s = task[t].copy.status /\ c = [task[t].copy EXCEPT !.status = s]
  OBVIOUS
<1>4. task[t].copy \in Copy
  BY <1>1, AtWork
<1>5. s \in 0 .. 2 /\ c = task[t].copy
  BY <1>3, <1>4 DEF Copy
<1>6. Write(t, c) /\ UNCHANGED <<owner, stock, imported, overlapped>> /\ Elsewhere
  BY <1>5 DEF Fail
<1> QED
  BY <1>1, <1>2, <1>3, <1>5, <1>6, LeavesInv

\* The copy is written as delivered, or not at all.
LEMMA SaveInv == ASSUME QueueInv, NEW t \in Task, Save(t) PROVE QueueInv'
<1>1. task[t].pc \in Processing \ {"fetch"} /\ Leave(t, "done")
  BY DEF Save, At, Processing
<1>2. PICK c : c = [task[t].copy EXCEPT !.status = 2]
  OBVIOUS
<1>3. Write(t, c) /\ UNCHANGED <<owner, stock, imported, overlapped>> /\ Elsewhere
  BY <1>2 DEF Save, Write
<1> QED
  BY <1>1, <1>2, <1>3, LeavesInv

\* Each step keeps the invariant.
LEMMA QueueNextInv == ASSUME QueueInv, [Next]_vars PROVE QueueInv'
<1>1. ASSUME NEW t \in Task, Push(t) PROVE QueueInv'
  <2>1. task[t] = NoTask
    BY <1>1 DEF Push, At, QueueInv, TasksSane, Sane, TaskRow, Copy, Processing
  <2>2. PICK o \in Order : Send(t, NewTask(o))
    BY <1>1 DEF Push
  <2>3. /\ task[t].pc = "none"
        /\ UNCHANGED <<orders, owner, stock, imported, workers, stop, overlapped>>
    BY <1>1 DEF Push, At
  <2> QED
    BY <1>1, <2>1, <2>2, <2>3, SendInv
<1>2. ASSUME NEW t \in Task, Fire(t) PROVE QueueInv'
  <2>1. task[t].pc = "timer"
    BY <1>2 DEF Fire, At
  <2>2. task[t].order \in Order
    BY <2>1 DEF QueueInv, TasksSane, NoTask, Sane, TaskRow, Copy
  <2>3. /\ Send(t, NewTask(task[t].order))
        /\ UNCHANGED <<orders, owner, stock, imported, workers, stop, overlapped>>
    BY <1>2 DEF Fire, Again
  <2> QED
    BY <1>2, <2>1, <2>2, <2>3, SendInv
<1>3. ASSUME NEW t \in Task, Process(t) PROVE QueueInv'
  BY <1>3, FetchInv, MarkInv, PullInv, PullFailsInv, SoldInv, RefusedInv, AttemptInv, FailInv,
     SaveInv DEF Process
<1>4. CASE Receive
  BY <1>4, ReceiveInv
<1>5. CASE WorkerReturns \/ Cancel \/ Close \/ StopReturns \/ Import \/ UNCHANGED vars
  BY <1>5, OtherInv
<1> QED
  BY <1>1, <1>2, <1>3, <1>4, <1>5 DEF Next

-----------------------------------------------------------------------------
(* The theorems.                                                           *)

\* Every state the queue reaches satisfies the invariant: a task that has read an
\* order alone holds what the order's row shows, and the row is not delivered.
THEOREM QueueInvariant == Spec => []QueueInv
<1>1. QueueInit => QueueInv
  BY QueueInitInv
<1>2. QueueInv /\ [Next]_vars => QueueInv'
  BY QueueNextInv
<1> QED
  BY <1>1, <1>2, PTL DEF Spec

\* Rows, tasks, channel and workers are of their kinds: the channel holds each
\* queued task once and never more than its buffer, and no more deliveries are
\* in workers than there are workers.
THEOREM QueueTypeCorrect == Spec => []QueueTypeOK
<1>1. QueueInv => QueueTypeOK
  <2> SUFFICES ASSUME QueueInv PROVE QueueTypeOK
    OBVIOUS
  <2>1. ASSUME NEW t \in Started
        PROVE  /\ t \in Task /\ Sane(task[t]) /\ task[t] \in TaskRow
    BY <2>1 DEF QueueInv, TasksSane, Started, NoTask, Sane
  <2>2. \A t \in Started :
          /\ task[t].order \in Order /\ task[t].copy \in Row /\ task[t].got \subseteq Piece
          /\ task[t].pc \in Processing \cup {"queued", "timer", "done"}
          /\ task[t].tries \in 0 .. RetryMax /\ task[t].retry \in 0 .. 2
    <3> TAKE t \in Started
    <3>1. Sane(task[t]) /\ task[t] \in TaskRow
      BY <2>1
    <3>2. task[t].copy \in Row
      BY <3>1 DEF Sane, TaskRow, Copy, Row
    <3> QED
      BY <3>1, <3>2 DEF Sane, TaskRow, Copy
  <2>3. \A t \in Started :
          task[t].pc = "queued" <=> \E i \in DOMAIN channel : channel[i] = t
    BY <2>1 DEF QueueInv, ChannelSane
  <2> QED
    BY <2>2, <2>3 DEF QueueInv, TablesSane, ChannelSane, WorkersSane, QueueTypeOK
<1> QED
  BY <1>1, QueueInvariant, PTL

\* What a step does to the rows and to the pieces.
LEMMA StepKeeps ==
  ASSUME QueueInv, [Next]_vars, NEW o \in Order, o \notin overlapped'
  PROVE  /\ orders[o].contents \subseteq orders'[o].contents
         /\ \A k \in Piece' \ Piece : owner'[k] = o => orders[o].status < 2
<1>1. CASE UNCHANGED <<orders, owner>>
  BY <1>1 DEF Piece
<1>2. ASSUME NEW t \in Task, Mark(t) \/ Fail(t) \/ Save(t)
      PROVE  UNCHANGED owner /\ orders[o].contents \subseteq orders'[o].contents
  <2>1. PICK c, old : old = task[t] /\ c = orders'[old.order]
    OBVIOUS
  <2>2. /\ UNCHANGED <<owner, overlapped>> /\ HasRead(t) /\ Busy(t)
        /\ UNCHANGED orders \/ \E s \in {old.copy.status, 1, 2} :
             orders' = [orders EXCEPT ![old.order] = [old.copy EXCEPT !.status = s]]
    <3>1. CASE Mark(t)
      BY <2>1, <3>1 DEF Mark, At, HasRead, Busy, Processing, Write, Store
    <3>2. CASE Fail(t)
      <4>1. task[t].copy \in Copy
        BY <3>2, AtWork DEF Fail, At, Processing
      <4>2. old.copy = [old.copy EXCEPT !.status = old.copy.status]
        BY <2>1, <4>1 DEF Copy
      <4> QED
        BY <2>1, <3>2, <4>2 DEF Fail, At, HasRead, Busy, Processing, Write, Store
    <3>3. CASE Save(t)
      BY <2>1, <3>3 DEF Save, At, HasRead, Busy, Processing, Write, Store
    <3> QED
      BY <1>2, <3>1, <3>2, <3>3
  <2>3. /\ old.order \in Order /\ old.copy \in Copy /\ orders \in [Order -> Row]
    BY <2>1, <2>2, AtWork DEF HasRead
  <2>4. old.order \notin overlapped => orders[old.order].contents \subseteq old.copy.contents
    BY <2>1, <2>2, Reader
  <2>5. CASE UNCHANGED orders
    BY <2>2, <2>5
  <2>6. CASE \E s \in {old.copy.status, 1, 2} :
               orders' = [orders EXCEPT ![old.order] = [old.copy EXCEPT !.status = s]]
    <3>1. PICK r : r.contents = old.copy.contents /\ orders' = [orders EXCEPT ![old.order] = r]
      BY <2>3, <2>6 DEF Copy
    <3> QED
      BY <2>2, <2>3, <2>4, <3>1
  <2> QED
    BY <2>2, <2>5, <2>6
<1>3. ASSUME NEW t \in Task, Pull(t) \/ Sold(t) \/ Attempt(t)
      PROVE  /\ UNCHANGED orders
             /\ \A k \in Piece' \ Piece : owner'[k] = o => orders[o].status < 2
  <2>1. /\ UNCHANGED <<orders, overlapped>> /\ HasRead(t)
        /\ UNCHANGED owner \/ owner' = Append(owner, task[t].order)
    BY <1>3 DEF Pull, Sold, Attempt, At, HasRead, Processing
  <2>2. task[t].order \in Order /\ owner \in Seq(Order)
    BY <2>1, AtWork DEF HasRead
  <2>3. task[t].order \notin overlapped => orders[task[t].order].status < 2
    BY <2>1, Reader
  <2>4. \A k \in Piece' \ Piece : owner'[k] = task[t].order
    <3>1. CASE UNCHANGED owner
      BY <3>1 DEF Piece
    <3>2. CASE owner' = Append(owner, task[t].order)
      BY <2>2, <3>2, OnePiece
    <3> QED
      BY <2>1, <3>1, <3>2
  <2> QED
    BY <2>1, <2>3, <2>4
<1>4. ASSUME NEW t \in Task, Push(t) \/ Fire(t) \/ Fetch(t) \/ PullFails(t) \/ Refused(t)
      PROVE  UNCHANGED <<orders, owner>>
  BY <1>4 DEF Push, Fire, Fetch, PullFails, Refused
<1>5. CASE Receive \/ WorkerReturns \/ Cancel \/ Close \/ StopReturns \/ Import \/ UNCHANGED vars
  BY <1>1, <1>5 DEF Receive, WorkerReturns, Cancel, Close, StopReturns, Import, vars
<1>6. ASSUME NEW t \in Task, Push(t) \/ Fire(t) \/ Process(t)
      PROVE  /\ orders[o].contents \subseteq orders'[o].contents
             /\ \A k \in Piece' \ Piece : owner'[k] = o => orders[o].status < 2
  <2>1. CASE Mark(t) \/ Fail(t) \/ Save(t)
    BY <1>2, <2>1 DEF Piece
  <2>2. CASE Pull(t) \/ Sold(t) \/ Attempt(t)
    BY <1>3, <2>2
  <2>3. CASE Push(t) \/ Fire(t) \/ Fetch(t) \/ PullFails(t) \/ Refused(t)
    BY <1>1, <1>4, <2>3
  <2> QED
    BY <1>6, <2>1, <2>2, <2>3 DEF Process
<1> QED
  BY <1>5, <1>6 DEF Next

\* A row keeps what it shows and a delivered order gets nothing more, whatever
\* fails and however often it is tried, unless two tasks worked on it at once.
THEOREM OrdersServedOnce == Spec => ServedOnce
<1>1. QueueInv /\ [Next]_vars =>
        [\A o \in Order \ overlapped' :
           /\ orders[o].contents \subseteq orders'[o].contents
           /\ \A k \in Piece' \ Piece : owner'[k] = o => orders[o].status < 2]_vars
  BY StepKeeps
<1> QED
  BY <1>1, QueueInvariant, PTL DEF Spec, ServedOnce

\* Stop returns with no worker at work: only goroutines of Push go on.
THEOREM StraysOnly == Spec => []StopLeavesStrays
<1>1. QueueInv => StopLeavesStrays
  <2> SUFFICES ASSUME QueueInv, stop = "returned", NEW t \in Started, Busy(t)
               PROVE  task[t].alone
    BY DEF StopLeavesStrays
  <2>1. IsFiniteSet(InWorkers) /\ Cardinality(InWorkers) <= 0
    BY DEF QueueInv, WorkersSane
  <2>2. InWorkers = {}
    BY <2>1, FS_CardinalityType, FS_EmptySet
  <2> QED
    BY <2>2 DEF InWorkers
<1> QED
  BY <1>1, QueueInvariant, PTL

=============================================================================
