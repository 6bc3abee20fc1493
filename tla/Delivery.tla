------------------------------- MODULE Delivery -------------------------------
(***************************************************************************)
(* Turning a paid order into delivered goods (apps/api/src/modules/        *)
(* delivery): one queue job per order, the workers that run it, the agents *)
(* who hand over by hand what no stored secret covers, and staff.          *)
(*                                                                         *)
(* fulfillOrder and fulfillManually are sequences of separate database     *)
(* calls, so each worker and each agent is a process with a program        *)
(* counter; only what the code puts in one transaction is one step.        *)
(***************************************************************************)
EXTENDS OrderStates, FiniteSetsExt

CONSTANTS
  Orders, Lines, Items,
  OrderOf,           \* the order of each line
  ProductOf,         \* the product of each line
  Rank,              \* the order in which the query returns the lines
  Quantity,          \* the items a line of an INDIVIDUAL product asks for
  AutoLines,         \* the lines whose method resolves to AUTOMATIC
  ItemProduct,       \* the product of each item
  ItemOrder,         \* the order each item was sold to, NoOrder for one not listed
  Workers, Agents,
  StaffTargets,      \* bound: the statuses staff set by hand
  Withdrawn,         \* bound: the items staff may disable
  MaxAttempts,       \* attempts of a job (5)
  MaxStalls,         \* times BullMQ takes a job back from a silent worker (1)
  HandServed,        \* bound: the lines agents take up
  Mortal,            \* bound: the workers and agents whose process may die
  NoOrder, NoLine, NoWorker

ASSUME LinesAssumption ==
  /\ OrderOf \in [Lines -> Orders] /\ AutoLines \subseteq Lines
  /\ Rank \in [Lines -> Nat]
  /\ Quantity \in [Lines -> Nat] /\ \A l \in AutoLines : Quantity[l] > 0
  /\ IsFiniteSet(Lines) /\ IsFiniteSet(Items)
ASSUME ItemsAssumption == ItemOrder \in [Items -> Orders \cup {NoOrder}]
ASSUME ProductsAssumption == DOMAIN ProductOf = Lines /\ DOMAIN ItemProduct = Items
ASSUME QueueAssumption == MaxAttempts \in Nat \ {0} /\ MaxStalls \in Nat
ASSUME StaffAssumption == StaffTargets \subseteq Statuses /\ Withdrawn \subseteq Items
ASSUME ActorsAssumption ==
  /\ Workers \cap Agents = {}
  /\ Mortal \subseteq Workers \cup Agents /\ HandServed \subseteq Lines
  /\ NoWorker \notin Workers /\ NoOrder \notin Orders /\ NoLine \notin Lines

VARIABLES
  status,      \* Order.status
  row,         \* Delivery.status of each line; NONE while there is no row
  method,      \* Delivery.method
  handed,      \* Delivery.inventoryItemIds
  item,        \* InventoryItem.status
  job,         \* the order's job in the queue
  holder,      \* the worker that holds the job's lock
  failures, stalls,
  act          \* where each worker and each agent is

rows == <<row, method, handed>>
queue == <<job, holder, failures, stalls>>
vars == <<status, rows, item, queue, act>>

Actors == Workers \cup Agents
LinesOf(o) == {l \in Lines : OrderOf[l] = o}
FULFILLABLE == {"PROCESSING", "READY_FOR_DELIVERY"}

Idle == [pc |-> "idle", order |-> NoOrder, line |-> NoLine, todo |-> {}, fresh |-> {},
         claimed |-> {}, saw |-> "none", clear |-> FALSE]

Activities ==
  [pc : {"idle", "begin", "lines", "claim", "deliver", "fulfil", "advance", "count",
         "ready", "delivered", "notify"},
   order : Orders \cup {NoOrder}, line : Lines \cup {NoLine}, todo : SUBSET Lines,
   fresh : SUBSET Lines, claimed : SUBSET Items,
   saw : FULFILLABLE \cup {"none"}, clear : BOOLEAN]

\* "skipped" is a job BullMQ keeps as completed, whose run returned at once because
\* the order was not waiting for goods.
JobStates == {"none", "waiting", "active", "completed", "skipped", "failed"}
Ended == {"completed", "skipped", "failed"}

TypeOK ==
  /\ status \in [Orders -> Statuses]
  /\ row \in [Lines -> {"NONE", "PENDING", "DELIVERED", "FAILED"}]
  /\ method \in [Lines -> {"AUTOMATIC", "MANUAL"}]
  /\ handed \in [Lines -> SUBSET Items]
  /\ item \in [Items -> {"SOLD", "DELIVERED", "DISABLED"}]
  /\ job \in [Orders -> JobStates]
  /\ holder \in [Orders -> Workers \cup {NoWorker}]
  /\ failures \in [Orders -> 0 .. MaxAttempts]
  /\ stalls \in [Orders -> 0 .. MaxStalls]
  /\ act \in [Actors -> Activities]

\* Orders reach here reserved and under review; their items are sold when they
\* are paid (Orders), so an item is SOLD from the start.
Init ==
  /\ status = [o \in Orders |-> "PAYMENT_REVIEW"]
  /\ row = [l \in Lines |-> "NONE"]
  /\ method = [l \in Lines |-> IF l \in AutoLines THEN "AUTOMATIC" ELSE "MANUAL"]
  /\ handed = [l \in Lines |-> {}]
  /\ item = [i \in Items |-> "SOLD"]
  /\ job = [o \in Orders |-> "none"]
  /\ holder = [o \in Orders |-> NoWorker]
  /\ failures = [o \in Orders |-> 0]
  /\ stalls = [o \in Orders |-> 0]
  /\ act = [x \in Actors |-> Idle]

-----------------------------------------------------------------------------
(* The queue (BullMQ) *)

\* add() with the id of a job that exists, in whatever state, does nothing.
dispatch(o) ==
  /\ job[o] = "none"
  /\ job' = [job EXCEPT ![o] = "waiting"]
  /\ UNCHANGED <<holder, failures, stalls>>

\* A finished job is kept for a day or more, and its id with it: longer than any
\* run that still goes on.
Forget(o) ==
  /\ job[o] \in Ended
  /\ \A w \in Workers : act[w].order # o
  /\ job' = [job EXCEPT ![o] = "none"]
  /\ failures' = [failures EXCEPT ![o] = 0]
  /\ stalls' = [stalls EXCEPT ![o] = 0]
  /\ UNCHANGED <<status, rows, item, holder, act>>

\* Mutant: one stall too many is forgiven.
StallOnceMore(o) ==
  /\ job[o] = "active"
  /\ holder' = [holder EXCEPT ![o] = NoWorker]
  /\ IF stalls[o] <= MaxStalls
     THEN /\ job' = [job EXCEPT ![o] = "waiting"]
          /\ stalls' = [stalls EXCEPT ![o] = @ + 1]
     ELSE /\ job' = [job EXCEPT ![o] = "failed"]
          /\ UNCHANGED stalls
  /\ UNCHANGED <<status, rows, item, failures, act>>

\* The lock of the job lapsed: its worker died, or is too busy to renew it and
\* goes on without knowing. The job is given to another worker, or given up.
Stall(o) ==
  /\ job[o] = "active"
  /\ holder' = [holder EXCEPT ![o] = NoWorker]
  /\ IF stalls[o] < MaxStalls
     THEN /\ job' = [job EXCEPT ![o] = "waiting"]
          /\ stalls' = [stalls EXCEPT ![o] = @ + 1]
     ELSE /\ job' = [job EXCEPT ![o] = "failed"]
          /\ UNCHANGED stalls
  /\ UNCHANGED <<status, rows, item, failures, act>>

\* What becomes of the job when the run of x ends well, or throws.
Completed(x, o) ==
  IF x \in Workers /\ holder[o] = x
  THEN /\ job' = [job EXCEPT ![o] = "completed"]
       /\ holder' = [holder EXCEPT ![o] = NoWorker]
       /\ UNCHANGED <<failures, stalls>>
  ELSE UNCHANGED queue

\* Mutant: the job is retried without end.
RetryForEver(x, o) ==
  IF x \in Workers /\ holder[o] = x
  THEN /\ job' = [job EXCEPT ![o] = "waiting"]
       /\ holder' = [holder EXCEPT ![o] = NoWorker]
       /\ UNCHANGED <<failures, stalls>>
  ELSE UNCHANGED queue

Failed(x, o) ==
  IF x \in Workers /\ holder[o] = x
  THEN /\ failures' = [failures EXCEPT ![o] = @ + 1]
       /\ job' = [job EXCEPT ![o] = IF failures[o] + 1 < MaxAttempts THEN "waiting" ELSE "failed"]
       /\ holder' = [holder EXCEPT ![o] = NoWorker]
       /\ UNCHANGED stalls
  ELSE UNCHANGED queue

\* An exception leaves fulfillOrder or fulfillManually.
Throw(x) ==
  /\ act' = [act EXCEPT ![x] = Idle]
  /\ Failed(x, act[x].order)

-----------------------------------------------------------------------------
(* The order *)

\* The payment commits first; only then is the job added, and a queue outage or
\* a restart in between loses it.
Pay(o) ==
  /\ Allowed(status[o], "PAID")
  /\ status' = [status EXCEPT ![o] = "PAID"]
  /\ UNCHANGED <<rows, item, queue, act>>

\* After a payment, or by staff, who may ask for it at any time.
Dispatch(o) ==
  /\ dispatch(o)
  /\ UNCHANGED <<status, rows, item, act>>

StaffTransition(o, to) ==
  /\ status[o] # "PAYMENT_REVIEW"
  /\ Allowed(status[o], to)
  /\ status' = [status EXCEPT ![o] = to]
  /\ UNCHANGED <<rows, item, queue, act>>

Locked(i) == \E x \in Workers : i \in act[x].claimed

\* InventoryService.disable waits for a claim of the item to commit.
disable(i) ==
  /\ ~Locked(i)
  /\ item' = [item EXCEPT ![i] = "DISABLED"]
  /\ UNCHANGED <<status, rows, queue, act>>

-----------------------------------------------------------------------------
(* fulfillOrder *)

PickUp(w, o) ==
  /\ act[w].pc = "idle"
  /\ job[o] = "waiting"
  /\ IF status[o] \in {"PAID"} \cup FULFILLABLE
     THEN /\ act' = [act EXCEPT ![w] =
                [Idle EXCEPT !.pc = IF status[o] = "PAID" THEN "begin" ELSE "lines",
                             !.order = o, !.todo = LinesOf(o)]]
          /\ job' = [job EXCEPT ![o] = "active"]
          /\ holder' = [holder EXCEPT ![o] = w]
     ELSE /\ job' = [job EXCEPT ![o] = "skipped"]
          /\ UNCHANGED <<act, holder>>
  /\ UNCHANGED <<status, rows, item, failures, stalls>>

Begin(w) ==
  LET o == act[w].order
  IN /\ act[w].pc = "begin"
     /\ \/ /\ Allowed(status[o], "PROCESSING")
           /\ status' = [status EXCEPT ![o] = "PROCESSING"]
           /\ act' = [act EXCEPT ![w].pc = "lines"]
           /\ UNCHANGED queue
        \/ /\ ~Allowed(status[o], "PROCESSING")
           /\ Throw(w)
           /\ UNCHANGED status
     /\ UNCHANGED <<rows, item>>

\* ensureDeliveryRow, and what the loop does with the row it got.
EnsureRow(w, l) ==
  /\ act[w].pc = "lines"
  /\ l \in act[w].todo /\ \A m \in act[w].todo : Rank[l] <= Rank[m]
  /\ row' = [row EXCEPT ![l] = IF @ = "NONE" THEN "PENDING" ELSE @]
  /\ LET done == row[l] = "DELIVERED" \/ l \notin AutoLines
     IN act' = [act EXCEPT ![w].todo = @ \ {l},
                           ![w].pc = IF done THEN @ ELSE "claim",
                           ![w].line = IF done THEN @ ELSE l]
  /\ UNCHANGED <<status, method, handed, item, queue>>

Claimable(l) ==
  {i \in Items : /\ ItemOrder[i] = OrderOf[l] /\ ItemProduct[i] = ProductOf[l]
                 /\ item[i] = "SOLD" /\ ~Locked(i)}

\* SKIP LOCKED: what another worker's transaction holds is passed over.
claimInventoryForItem(w) ==
  LET l == act[w].line
      wanted == IF Cardinality(Claimable(l)) < Quantity[l] THEN Cardinality(Claimable(l)) ELSE Quantity[l]
  IN /\ act[w].pc = "claim"
     /\ \E claimed \in SUBSET Claimable(l) :
          /\ Cardinality(claimed) = wanted
          /\ act' = [act EXCEPT ![w].pc = "deliver", ![w].claimed = claimed]
     /\ UNCHANGED <<status, rows, item, queue>>

\* Mutant: every line worked on is announced.
AnnounceAnyway(w, ok) ==
  act' = [act EXCEPT ![w].pc = "lines", ![w].line = NoLine, ![w].claimed = {},
                     ![w].fresh = @ \cup {act[w].line}]

\* Back to the loop; ok when deliverAutomatically returned true.
NextLine(w, ok) ==
  act' = [act EXCEPT ![w].pc = "lines", ![w].line = NoLine, ![w].claimed = {},
                     ![w].fresh = IF ok THEN @ \cup {act[w].line} ELSE @]

\* Mutant: the update does not ask whether the row is still PENDING.
DeliverAnyRow(w) ==
  LET l == act[w].line
  IN /\ act[w].pc = "deliver"
     /\ Cardinality(act[w].claimed) >= Quantity[l]
     /\ row' = [row EXCEPT ![l] = "DELIVERED"]
     /\ handed' = [handed EXCEPT ![l] = act[w].claimed]
     /\ item' = [i \in Items |-> IF i \in act[w].claimed THEN "DELIVERED" ELSE item[i]]
     /\ NextLine(w, TRUE)
     /\ UNCHANGED <<status, method, queue>>

\* The rest of the transaction when there are enough items. A row no longer
\* PENDING rolls it back, and counts as delivered.
DeliverLine(w) ==
  LET l == act[w].line
  IN /\ act[w].pc = "deliver"
     /\ Cardinality(act[w].claimed) >= Quantity[l]
     /\ \/ /\ row[l] = "PENDING"
           /\ row' = [row EXCEPT ![l] = "DELIVERED"]
           /\ handed' = [handed EXCEPT ![l] = act[w].claimed]
           /\ item' = [i \in Items |-> IF i \in act[w].claimed THEN "DELIVERED" ELSE item[i]]
        \/ /\ row[l] # "PENDING"
           /\ UNCHANGED <<row, handed, item>>
     /\ NextLine(w, TRUE)
     /\ UNCHANGED <<status, method, queue>>

\* Mutant: the line short of items is left for a retry that does not come.
LeaveAutomatic(w) ==
  /\ act[w].pc = "deliver"
  /\ Cardinality(act[w].claimed) < Quantity[act[w].line]
  /\ NextLine(w, FALSE)
  /\ UNCHANGED <<status, rows, item, queue>>

\* Too few items: the line is left to an agent.
FallBackToManual(w) ==
  LET l == act[w].line
  IN /\ act[w].pc = "deliver"
     /\ Cardinality(act[w].claimed) < Quantity[l]
     /\ method' = [method EXCEPT ![l] = IF row[l] = "PENDING" THEN "MANUAL" ELSE @]
     /\ NextLine(w, FALSE)
     /\ UNCHANGED <<status, row, handed, item, queue>>

\* Mutant: the failure is recorded whatever became of the row.
RecordFailure(w) ==
  /\ act[w].pc = "deliver"
  /\ row' = [row EXCEPT ![act[w].line] = "FAILED"]
  /\ Throw(w)
  /\ UNCHANGED <<status, method, handed, item>>

\* Decryption or the database fails: rolled back, recorded on a PENDING row,
\* thrown on. The guarded update cannot tell when it runs after the rollback.
DeliverFails(w) ==
  LET l == act[w].line
  IN /\ act[w].pc = "deliver"
     /\ row' = [row EXCEPT ![l] = IF @ = "PENDING" THEN "FAILED" ELSE @]
     /\ Throw(w)
     /\ UNCHANGED <<status, method, handed, item>>

\* The process dies, and its open transaction with it.
Crash(x) ==
  /\ act[x].pc # "idle"
  /\ act' = [act EXCEPT ![x] = Idle]
  /\ UNCHANGED <<status, rows, item, queue>>

-----------------------------------------------------------------------------
(* fulfillManually *)

OpenDelivery(a, l) ==
  /\ act[a].pc = "idle"
  /\ row[l] \in {"PENDING", "FAILED"}
  /\ status[OrderOf[l]] \in FULFILLABLE
  /\ act' = [act EXCEPT ![a] = [Idle EXCEPT !.pc = "fulfil", !.order = OrderOf[l], !.line = l]]
  /\ UNCHANGED <<status, rows, item, queue>>

fulfillManually(a) ==
  LET l == act[a].line
  IN /\ act[a].pc = "fulfil"
     /\ \/ /\ row[l] # "DELIVERED"
           /\ row' = [row EXCEPT ![l] = "DELIVERED"]
           /\ act' = [act EXCEPT ![a].pc = "advance", ![a].fresh = {l}]
        \/ /\ row[l] = "DELIVERED"
           /\ act' = [act EXCEPT ![a] = Idle]
           /\ UNCHANGED row
     /\ UNCHANGED <<status, method, handed, item, queue>>

-----------------------------------------------------------------------------
(* advanceOrderAfterFulfillment and what follows, for workers and agents *)

AdvanceRead(x) ==
  LET o == act[x].order
  IN /\ \/ act[x].pc = "advance"
        \/ act[x].pc = "lines" /\ act[x].todo = {}
     /\ act' = [act EXCEPT
          ![x].pc = IF status[o] \in FULFILLABLE THEN "count" ELSE "notify",
          ![x].saw = IF status[o] \in FULFILLABLE THEN status[o] ELSE @]
     /\ UNCHANGED <<status, rows, item, queue>>

\* How the order is moved on, once it is known whether anything is outstanding.
Then(saw, clear) ==
  IF saw = "PROCESSING" THEN "ready" ELSE IF clear THEN "delivered" ELSE "notify"

AdvanceCount(x) ==
  LET clear == \A l \in LinesOf(act[x].order) : row[l] \in {"NONE", "DELIVERED"}
  IN /\ act[x].pc = "count"
     /\ act' = [act EXCEPT ![x].pc = Then(act[x].saw, clear), ![x].saw = "none",
                              ![x].clear = clear /\ act[x].saw = "PROCESSING"]
     /\ UNCHANGED <<status, rows, item, queue>>

AdvanceMove(x, pc, to, next) ==
  LET o == act[x].order
  IN /\ act[x].pc = pc
     /\ \/ /\ Allowed(status[o], to)
           /\ status' = [status EXCEPT ![o] = to]
           /\ act' = [act EXCEPT ![x].pc = next, ![x].clear = FALSE]
           /\ UNCHANGED queue
        \/ /\ ~Allowed(status[o], to)
           /\ Throw(x)
           /\ UNCHANGED status
     /\ UNCHANGED <<rows, item>>

AdvanceReady(x) ==
  AdvanceMove(x, "ready", "READY_FOR_DELIVERY", IF act[x].clear THEN "delivered" ELSE "notify")

AdvanceDelivered(x) == AdvanceMove(x, "delivered", "DELIVERED", "notify")

\* The customer is told of the fresh lines, and the run is over: a notification
\* that fails is swallowed.
Notify(x) ==
  /\ act[x].pc = "notify"
  /\ act' = [act EXCEPT ![x] = Idle]
  /\ Completed(x, act[x].order)
  /\ UNCHANGED <<status, rows, item>>

-----------------------------------------------------------------------------
Advance(x) ==
  AdvanceRead(x) \/ AdvanceCount(x) \/ AdvanceReady(x) \/ AdvanceDelivered(x) \/ Notify(x)

Work(w) ==
  \/ Begin(w) \/ claimInventoryForItem(w)
  \/ DeliverLine(w) \/ FallBackToManual(w) \/ DeliverFails(w)
  \/ \E l \in Lines : EnsureRow(w, l)
  \/ Advance(w)

Help(a) == fulfillManually(a) \/ Advance(a)

Next ==
  \/ \E o \in Orders : Pay(o) \/ Dispatch(o) \/ Forget(o) \/ Stall(o)
  \/ \E o \in Orders, to \in StaffTargets : StaffTransition(o, to)
  \/ \E i \in Withdrawn : disable(i)
  \/ \E w \in Workers, o \in Orders : PickUp(w, o)
  \/ \E w \in Workers : Work(w)
  \/ \E x \in Mortal : Crash(x)
  \/ \E a \in Agents : Help(a) \/ \E l \in HandServed : OpenDelivery(a, l)

\* A job that waits while workers are free is taken; a worker's handler goes on; the
\* lock of a worker that died lapses. Nothing is asked of agents.
Fairness ==
  /\ \A o \in Orders :
       /\ WF_vars(\E w \in Workers : PickUp(w, o))
       /\ WF_vars(holder[o] \in Workers /\ act[holder[o]].order # o /\ Stall(o))
  /\ \A w \in Workers : WF_vars(Work(w))

Spec == Init /\ [][Next]_vars /\ Fairness

-----------------------------------------------------------------------------
(* Properties *)

\* No stored secret reaches two lines, a line of another order or product, or
\* nobody: an item is DELIVERED exactly when one delivered row lists it, however
\* many workers run the job and whoever else touches its rows.
GoodsHandedOverOnce ==
  /\ \A l \in Lines :
       handed[l] # {} =>
         /\ row[l] = "DELIVERED" /\ Cardinality(handed[l]) = Quantity[l]
         /\ \A i \in handed[l] : ItemOrder[i] = OrderOf[l] /\ ItemProduct[i] = ProductOf[l]
  /\ \A l, m \in Lines : l # m => handed[l] \cap handed[m] = {}
  /\ \A i \in Items :
       /\ item[i] = "DELIVERED" => \E l \in Lines : i \in handed[l]
       /\ item[i] = "SOLD" => \A l \in Lines : i \notin handed[l]

\* The line has a row, and a row still waiting is one listPendingManual shows. A
\* row that is FAILED is not waiting any more, on whatever list it is: an automatic
\* one is on none, and all staff get of it is the one alert of its failure.
NotLeftWaiting(l) == row[l] # "NONE" /\ (row[l] = "PENDING" => method[l] = "MANUAL")

\* A job that has ended well leaves no line without a row, and none waiting for a run
\* that will not come: what waits is on the list agents work from. Crashes, stalls and
\* retries included, whatever staff or agents made of the order meanwhile.
NoLineLeftWaiting ==
  \A o \in Orders : job[o] = "completed" => \A l \in LinesOf(o) : NotLeftWaiting(l)

\* Whoever is about to tell the customer of a delivery tells them of a row that
\* is past waiting: goods parked for a person are never announced.
NoticeFollowsDelivery ==
  \A x \in Actors : \A l \in act[x].fresh : row[l] \in {"DELIVERED", "FAILED"}

\* What a customer was given stays theirs: a late worker, a failure recorded by
\* one that lost the race or a second agent never undoes it or adds to it.
HandedOverStays ==
  [][\A l \in Lines :
       row[l] = "DELIVERED" =>
         row'[l] = "DELIVERED" /\ handed'[l] = handed[l] /\ method'[l] = method[l]]_vars

\* A job always ends, completed or given up, whatever fails on the way.
JobsEnd ==
  \A o \in Orders : job[o] \in {"waiting", "active"} ~> job[o] \in Ended

-----------------------------------------------------------------------------
(* What the source says of the program and the program does not do *)

\* delivery.service.ts: an order is READY_FOR_DELIVERY while anything is
\* outstanding, and a mixed order is DELIVERED only once every line is.
DeliveredMeansEveryLine ==
  \A o \in Orders :
    status[o] = "DELIVERED" => \A l \in LinesOf(o) : row[l] = "DELIVERED"
=============================================================================
