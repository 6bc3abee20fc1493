----------------------------- MODULE DeliveryProofs -----------------------------
(***************************************************************************)
(* What Delivery keeps true for any orders, lines, items, workers, agents, *)
(* attempts and stalls, and whoever dies.                                  *)
(***************************************************************************)
EXTENDS Delivery, FiniteSetTheorems, TLAPS

(* The types, with what they rest on *)

\* A job that may still run, or be added, has an attempt left, and only a running one has a holder.
QueueSound ==
  \A o \in Orders :
    /\ job[o] \in {"none", "waiting", "active"} => failures[o] < MaxAttempts
    /\ holder[o] # NoWorker => job[o] = "active"

\* What a worker or an agent at some point of its run has at hand.
Equipped(x, a) ==
  /\ a.pc # "idle" => a.order \in Orders
  /\ a.pc \in {"claim", "deliver"} => x \in Workers
  /\ a.pc \in {"claim", "deliver", "fulfil"} => a.line \in Lines
  /\ a.claimed # {} => a.pc = "deliver"

ActsSound == \A x \in Actors : Equipped(x, act[x])

TypeInv == TypeOK /\ QueueSound /\ ActsSound

QueueTyped ==
  /\ job \in [Orders -> JobStates]
  /\ holder \in [Orders -> Workers \cup {NoWorker}]
  /\ failures \in [Orders -> 0 .. MaxAttempts]
  /\ stalls \in [Orders -> 0 .. MaxStalls]
  /\ QueueSound

ActsTyped == act \in [Actors -> Activities] /\ ActsSound

GoodsTyped ==
  /\ status \in [Orders -> Statuses]
  /\ row \in [Lines -> {"NONE", "PENDING", "DELIVERED", "FAILED"}]
  /\ method \in [Lines -> {"AUTOMATIC", "MANUAL"}]
  /\ handed \in [Lines -> SUBSET Items]
  /\ item \in [Items -> {"SOLD", "DELIVERED", "DISABLED"}]

LEMMA Parts == TypeInv <=> QueueTyped /\ ActsTyped /\ GoodsTyped
BY DEF TypeInv, TypeOK, QueueTyped, ActsTyped, GoodsTyped

LEMMA PartsNext == QueueTyped' /\ ActsTyped' /\ GoodsTyped' => TypeInv'
BY DEF TypeInv, TypeOK, QueueTyped, ActsTyped, GoodsTyped

LEMMA InitType == Init => TypeInv
<1> SUFFICES ASSUME Init PROVE TypeInv
  OBVIOUS
<1>1. Idle \in Activities
  BY DEF Idle, Activities
<1> QED BY <1>1, QueueAssumption DEF Init, TypeInv, TypeOK, QueueSound, ActsSound, Equipped,
       Idle, Statuses, JobStates

\* The queue's own operations keep its types.
LEMMA QueueStep ==
  ASSUME QueueTyped, NEW o \in Orders,
         dispatch(o) \/ Forget(o) \/ Stall(o)
  PROVE  QueueTyped'
<1>1. CASE dispatch(o)
  BY <1>1 DEF QueueTyped, QueueSound, dispatch, JobStates
<1>2. CASE Forget(o)
  BY <1>2, QueueAssumption DEF QueueTyped, QueueSound, Forget, JobStates, Ended
<1>3. CASE Stall(o)
  BY <1>3, QueueAssumption DEF QueueTyped, QueueSound, Stall, JobStates
<1> QED BY <1>1, <1>2, <1>3

\* So does the end of a run, good or bad.
LEMMA RunEnds ==
  ASSUME QueueTyped, NEW x \in Actors, NEW o \in Orders,
         Completed(x, o) \/ Failed(x, o) \/ UNCHANGED queue
  PROVE  QueueTyped'
<1>1. CASE Completed(x, o)
  BY <1>1 DEF QueueTyped, QueueSound, Completed, queue, JobStates
<1>2. CASE Failed(x, o)
  <2>1. CASE x \in Workers /\ holder[o] = x
    <3>1. failures[o] < MaxAttempts /\ failures[o] \in Nat
      BY <2>1, ActorsAssumption, QueueAssumption DEF QueueTyped, QueueSound
    <3> QED BY <1>2, <2>1, <3>1, QueueAssumption DEF QueueTyped, QueueSound, Failed, JobStates
  <2>2. CASE ~(x \in Workers /\ holder[o] = x)
    BY <1>2, <2>2 DEF QueueTyped, QueueSound, Failed, queue
  <2> QED BY <2>1, <2>2
<1>3. CASE UNCHANGED queue
  BY <1>3 DEF QueueTyped, QueueSound, queue
<1> QED BY <1>1, <1>2, <1>3

\* One worker or agent goes on, to where it is equipped to be.
LEMMA ActStep ==
  ASSUME ActsTyped, NEW x \in Actors, NEW a \in Activities, Equipped(x, a),
         act' = [act EXCEPT ![x] = a]
  PROVE  ActsTyped'
<1>1. act' \in [Actors -> Activities]
  BY DEF ActsTyped
<1>2. ASSUME NEW y \in Actors PROVE Equipped(y, act'[y])
  <2>1. act'[y] = IF y = x THEN a ELSE act[y]
    BY DEF ActsTyped
  <2> QED BY <2>1 DEF ActsTyped, ActsSound
<1> QED BY <1>1, <1>2 DEF ActsTyped, ActsSound, Equipped

LEMMA IdleStep ==
  ASSUME ActsTyped, NEW x \in Actors, act' = [act EXCEPT ![x] = Idle]
  PROVE  ActsTyped'
<1>1. Idle \in Activities /\ Equipped(x, Idle)
  BY DEF Idle, Activities, Equipped
<1> QED BY <1>1, ActStep

LEMMA PickUpType ==
  ASSUME TypeInv, NEW w \in Workers, NEW o \in Orders, PickUp(w, o)
  PROVE  TypeInv'
<1>1. GoodsTyped'
  BY DEF TypeInv, TypeOK, GoodsTyped, PickUp, rows
<1>2. QueueTyped'
  BY DEF TypeInv, TypeOK, QueueTyped, QueueSound, PickUp, JobStates
<1>3. ActsTyped'
  <2>1. CASE status[o] \in {"PAID"} \cup FULFILLABLE
    <3> DEFINE a == [Idle EXCEPT !.pc = IF status[o] = "PAID" THEN "begin" ELSE "lines",
                                 !.order = o, !.todo = LinesOf(o)]
    <3>1. a \in Activities /\ Equipped(w, a)
      BY DEF Idle, Activities, Equipped, LinesOf
    <3>2. act' = [act EXCEPT ![w] = a]
      BY <2>1 DEF PickUp
    <3> HIDE DEF a
    <3> QED BY <3>1, <3>2, Parts, ActStep DEF Actors
  <2>2. CASE ~(status[o] \in {"PAID"} \cup FULFILLABLE)
    BY <2>2, Parts DEF PickUp, ActsTyped, ActsSound, Equipped
  <2> QED BY <2>1, <2>2
<1> QED BY <1>1, <1>2, <1>3, PartsNext

\* An exception leaves the types as they are.
LEMMA ThrowType ==
  ASSUME TypeInv, NEW x \in Actors, act[x].pc # "idle", Throw(x)
  PROVE  QueueTyped' /\ ActsTyped'
<1>1. act[x].order \in Orders
  BY DEF TypeInv, ActsSound, Equipped
<1> QED BY <1>1, Parts, IdleStep, RunEnds DEF Throw

\* A step that leaves the queue alone and takes one run from a point to the next.
LEMMA RunGoesOn ==
  ASSUME TypeInv, NEW x \in Actors, NEW a \in Activities, Equipped(x, a),
         act' = [act EXCEPT ![x] = a], UNCHANGED queue, GoodsTyped'
  PROVE  TypeInv'
<1>1. QueueTyped'
  BY Parts DEF QueueTyped, QueueSound, queue
<1>2. ActsTyped'
  BY Parts, ActStep
<1> QED BY <1>1, <1>2, PartsNext

LEMMA BeginType ==
  ASSUME TypeInv, NEW w \in Workers, Begin(w)
  PROVE  TypeInv'
<1>0. w \in Actors /\ act[w] \in Activities /\ Equipped(w, act[w])
  BY DEF TypeInv, TypeOK, ActsSound, Actors
<1>1. GoodsTyped'
  BY DEF Begin, TypeInv, TypeOK, GoodsTyped, rows, Statuses
<1>2. CASE Throw(w)
  BY <1>0, <1>1, <1>2, ThrowType, PartsNext DEF Begin
<1>3. CASE UNCHANGED queue /\ act' = [act EXCEPT ![w].pc = "lines"]
  <2>1. [act[w] EXCEPT !.pc = "lines"] \in Activities
        /\ Equipped(w, [act[w] EXCEPT !.pc = "lines"])
    BY <1>0 DEF Begin, Activities, Equipped
  <2>2. act' = [act EXCEPT ![w] = [act[w] EXCEPT !.pc = "lines"]]
    BY <1>3
  <2> QED BY <1>0, <1>1, <1>3, <2>1, <2>2, RunGoesOn
<1> QED BY <1>2, <1>3 DEF Begin

LEMMA EnsureRowType ==
  ASSUME TypeInv, NEW w \in Workers, NEW l \in Lines, EnsureRow(w, l)
  PROVE  TypeInv'
<1>0. w \in Actors /\ act[w] \in Activities /\ Equipped(w, act[w])
  BY DEF TypeInv, TypeOK, ActsSound, Actors
<1> DEFINE done == row[l] = "DELIVERED" \/ l \notin AutoLines
           a == [act[w] EXCEPT !.todo = @ \ {l}, !.pc = IF done THEN @ ELSE "claim",
                               !.line = IF done THEN @ ELSE l]
<1>1. a \in Activities /\ Equipped(w, a)
  BY <1>0 DEF EnsureRow, Activities, Equipped
<1>2. act' = [act EXCEPT ![w] = a]
  BY DEF EnsureRow
<1>3. GoodsTyped' /\ UNCHANGED queue
  <2>1. row' \in [Lines -> {"NONE", "PENDING", "DELIVERED", "FAILED"}]
    BY DEF EnsureRow, TypeInv, TypeOK
  <2> QED BY <2>1 DEF EnsureRow, TypeInv, TypeOK, GoodsTyped
<1> HIDE DEF a
<1> QED BY <1>0, <1>1, <1>2, <1>3, RunGoesOn

LEMMA ClaimType ==
  ASSUME TypeInv, NEW w \in Workers, claimInventoryForItem(w)
  PROVE  TypeInv'
<1>0. w \in Actors /\ act[w] \in Activities /\ Equipped(w, act[w])
  BY DEF TypeInv, TypeOK, ActsSound, Actors
<1>1. PICK claimed \in SUBSET Claimable(act[w].line) :
        act' = [act EXCEPT ![w].pc = "deliver", ![w].claimed = claimed]
  BY DEF claimInventoryForItem
<1>2. claimed \subseteq Items
  BY DEF Claimable
<1> DEFINE a == [act[w] EXCEPT !.pc = "deliver", !.claimed = claimed]
<1>3. a \in Activities /\ Equipped(w, a)
  BY <1>0, <1>2 DEF claimInventoryForItem, Activities, Equipped
<1>4. act' = [act EXCEPT ![w] = a]
  BY <1>0, <1>1 DEF TypeInv, TypeOK
<1>5. GoodsTyped' /\ UNCHANGED queue
  BY DEF claimInventoryForItem, TypeInv, TypeOK, GoodsTyped, rows
<1> HIDE DEF a
<1> QED BY <1>0, <1>3, <1>4, <1>5, RunGoesOn

LEMMA NextLineType ==
  ASSUME TypeInv, NEW w \in Workers, act[w].pc = "deliver", NEW ok \in BOOLEAN,
         NextLine(w, ok), UNCHANGED queue, GoodsTyped'
  PROVE  TypeInv'
<1>0. w \in Actors /\ act[w] \in Activities /\ Equipped(w, act[w])
  BY DEF TypeInv, TypeOK, ActsSound, Actors
<1> DEFINE a == [act[w] EXCEPT !.pc = "lines", !.line = NoLine, !.claimed = {},
                   !.fresh = IF ok THEN @ \cup {act[w].line} ELSE @]
<1>1. a \in Activities /\ Equipped(w, a)
  BY <1>0 DEF Activities, Equipped
<1>2. act' = [act EXCEPT ![w] = a]
  BY DEF NextLine
<1> HIDE DEF a
<1> QED BY <1>0, <1>1, <1>2, RunGoesOn

LEMMA DeliverType ==
  ASSUME TypeInv, NEW w \in Workers,
         DeliverLine(w) \/ FallBackToManual(w) \/ DeliverFails(w)
  PROVE  TypeInv'
<1>0. w \in Actors /\ act[w] \in Activities /\ Equipped(w, act[w]) /\ act[w].pc = "deliver"
  BY DEF TypeInv, TypeOK, ActsSound, Actors, DeliverLine, FallBackToManual, DeliverFails
<1>1. act[w].line \in Lines /\ act[w].claimed \subseteq Items
  BY <1>0 DEF Equipped, Activities
<1>2. CASE DeliverLine(w)
  <2>1. row' \in [Lines -> {"NONE", "PENDING", "DELIVERED", "FAILED"}]
        /\ handed' \in [Lines -> SUBSET Items]
        /\ item' \in [Items -> {"SOLD", "DELIVERED", "DISABLED"}]
    BY <1>1, <1>2 DEF DeliverLine, TypeInv, TypeOK
  <2>2. GoodsTyped'
    BY <1>2, <2>1 DEF DeliverLine, TypeInv, TypeOK, GoodsTyped
  <2>3. NextLine(w, TRUE) /\ UNCHANGED queue
    BY <1>2 DEF DeliverLine
  <2> QED BY <1>0, <2>2, <2>3, NextLineType
<1>3. CASE FallBackToManual(w)
  <2>1. GoodsTyped'
    BY <1>3 DEF FallBackToManual, TypeInv, TypeOK, GoodsTyped
  <2>2. NextLine(w, FALSE) /\ UNCHANGED queue
    BY <1>3 DEF FallBackToManual
  <2> QED BY <1>0, <2>1, <2>2, NextLineType
<1>4. CASE DeliverFails(w)
  <2>1. row' \in [Lines -> {"NONE", "PENDING", "DELIVERED", "FAILED"}]
    BY <1>4 DEF DeliverFails, TypeInv, TypeOK
  <2>2. GoodsTyped'
    BY <1>4, <2>1 DEF DeliverFails, TypeInv, TypeOK, GoodsTyped
  <2>3. Throw(w)
    BY <1>4 DEF DeliverFails
  <2> QED BY <1>0, <2>2, <2>3, ThrowType, PartsNext
<1> QED BY <1>2, <1>3, <1>4

LEMMA AgentType ==
  ASSUME TypeInv, NEW a \in Agents,
         fulfillManually(a) \/ \E l \in HandServed : OpenDelivery(a, l)
  PROVE  TypeInv'
<1>0. a \in Actors /\ act[a] \in Activities /\ Equipped(a, act[a])
  BY DEF TypeInv, TypeOK, ActsSound, Actors
<1>1. CASE fulfillManually(a)
  <2>1. row' \in [Lines -> {"NONE", "PENDING", "DELIVERED", "FAILED"}]
    BY <1>1 DEF fulfillManually, TypeInv, TypeOK
  <2>2. GoodsTyped' /\ UNCHANGED queue
    BY <1>1, <2>1 DEF fulfillManually, TypeInv, TypeOK, GoodsTyped
  <2>3. CASE act' = [act EXCEPT ![a] = Idle]
    <3>1. Idle \in Activities /\ Equipped(a, Idle)
      BY DEF Idle, Activities, Equipped
    <3> QED BY <1>0, <2>2, <2>3, <3>1, RunGoesOn
  <2>4. CASE act' = [act EXCEPT ![a].pc = "advance", ![a].fresh = {act[a].line}]
    <3> DEFINE r == [act[a] EXCEPT !.pc = "advance", !.fresh = {act[a].line}]
    <3>1. r \in Activities /\ Equipped(a, r)
      BY <1>0, <1>1 DEF fulfillManually, Activities, Equipped
    <3>2. act' = [act EXCEPT ![a] = r]
      BY <2>4
    <3> HIDE DEF r
    <3> QED BY <1>0, <2>2, <3>1, <3>2, RunGoesOn
  <2> QED BY <1>1, <2>3, <2>4 DEF fulfillManually
<1>2. ASSUME NEW l \in HandServed, OpenDelivery(a, l) PROVE TypeInv'
  <2> DEFINE r == [Idle EXCEPT !.pc = "fulfil", !.order = OrderOf[l], !.line = l]
  <2>1. r \in Activities /\ Equipped(a, r)
    BY LinesAssumption, ActorsAssumption DEF Idle, Activities, Equipped
  <2>2. act' = [act EXCEPT ![a] = r]
    BY <1>2 DEF OpenDelivery
  <2>3. GoodsTyped' /\ UNCHANGED queue
    BY <1>2 DEF OpenDelivery, rows, TypeInv, TypeOK, GoodsTyped
  <2> HIDE DEF r
  <2> QED BY <1>0, <2>1, <2>2, <2>3, RunGoesOn
<1> QED BY <1>1, <1>2

LEMMA MoveType ==
  ASSUME TypeInv, NEW x \in Actors, NEW pc \in {"ready", "delivered"},
         NEW to \in {"READY_FOR_DELIVERY", "DELIVERED"},
         NEW next \in {"delivered", "notify"}, AdvanceMove(x, pc, to, next)
  PROVE  TypeInv'
<1>0. act[x] \in Activities /\ Equipped(x, act[x]) /\ act[x].pc = pc
  BY DEF TypeInv, TypeOK, ActsSound, AdvanceMove
<1>1. GoodsTyped'
  BY DEF AdvanceMove, rows, TypeInv, TypeOK, GoodsTyped, Statuses
<1>2. CASE Throw(x)
  BY <1>0, <1>1, <1>2, ThrowType, PartsNext
<1>3. CASE UNCHANGED queue /\ act' = [act EXCEPT ![x].pc = next, ![x].clear = FALSE]
  <2> DEFINE r == [act[x] EXCEPT !.pc = next, !.clear = FALSE]
  <2>1. r \in Activities /\ Equipped(x, r)
    BY <1>0 DEF Activities, Equipped
  <2>2. act' = [act EXCEPT ![x] = r]
    BY <1>3
  <2> HIDE DEF r
  <2> QED BY <1>1, <1>3, <2>1, <2>2, RunGoesOn
<1> QED BY <1>2, <1>3 DEF AdvanceMove

LEMMA AdvanceType ==
  ASSUME TypeInv, NEW x \in Actors, Advance(x)
  PROVE  TypeInv'
<1>0. act[x] \in Activities /\ Equipped(x, act[x])
  BY DEF TypeInv, TypeOK, ActsSound
<1>1. CASE AdvanceRead(x)
  <2> DEFINE o == act[x].order
             r == [act[x] EXCEPT !.pc = IF status[o] \in FULFILLABLE THEN "count" ELSE "notify",
                                 !.saw = IF status[o] \in FULFILLABLE THEN status[o] ELSE @]
  <2>1. r \in Activities /\ Equipped(x, r)
    BY <1>0, <1>1 DEF AdvanceRead, Activities, Equipped
  <2>2. act' = [act EXCEPT ![x] = r]
    BY <1>1 DEF AdvanceRead
  <2>3. GoodsTyped' /\ UNCHANGED queue
    BY <1>1 DEF AdvanceRead, rows, TypeInv, TypeOK, GoodsTyped
  <2> HIDE DEF r
  <2> QED BY <2>1, <2>2, <2>3, RunGoesOn
<1>2. CASE AdvanceCount(x)
  <2> DEFINE clear == \A l \in LinesOf(act[x].order) : row[l] \in {"NONE", "DELIVERED"}
             r == [act[x] EXCEPT !.pc = Then(act[x].saw, clear), !.saw = "none",
                                 !.clear = clear /\ act[x].saw = "PROCESSING"]
  <2>1. r \in Activities /\ Equipped(x, r)
    <3>1. act[x].pc = "count" /\ Then(act[x].saw, clear) \in {"ready", "delivered", "notify"}
      BY <1>2 DEF AdvanceCount, Then
    <3>2. (clear /\ act[x].saw = "PROCESSING") \in BOOLEAN
      OBVIOUS
    <3> HIDE DEF clear
    <3> QED BY <1>0, <3>1, <3>2 DEF Activities, Equipped
  <2>2. act' = [act EXCEPT ![x] = r]
    BY <1>2 DEF AdvanceCount
  <2>3. GoodsTyped' /\ UNCHANGED queue
    BY <1>2 DEF AdvanceCount, rows, TypeInv, TypeOK, GoodsTyped
  <2> HIDE DEF r
  <2> QED BY <2>1, <2>2, <2>3, RunGoesOn
<1>3. CASE AdvanceReady(x)
  BY <1>3, MoveType DEF AdvanceReady
<1>4. CASE AdvanceDelivered(x)
  BY <1>4, MoveType DEF AdvanceDelivered
<1>5. CASE Notify(x)
  <2>1. act[x].order \in Orders
    BY <1>0, <1>5 DEF Notify, Equipped
  <2>2. GoodsTyped'
    BY <1>5 DEF Notify, rows, TypeInv, TypeOK, GoodsTyped
  <2> QED BY <1>5, <2>1, <2>2, Parts, RunEnds, IdleStep, PartsNext DEF Notify
<1> QED BY <1>1, <1>2, <1>3, <1>4, <1>5 DEF Advance

LEMMA NextType == TypeInv /\ [Next]_vars => TypeInv'
<1> SUFFICES ASSUME TypeInv, [Next]_vars PROVE TypeInv'
  OBVIOUS
<1>1. ASSUME NEW o \in Orders, Pay(o) PROVE TypeInv'
  BY <1>1 DEF Pay, Statuses, rows, queue, TypeInv, TypeOK, QueueSound, ActsSound, Equipped
<1>2. ASSUME NEW o \in Orders, Dispatch(o) \/ Forget(o) \/ Stall(o) PROVE TypeInv'
  <2>1. UNCHANGED <<status, rows, item, act>>
    BY <1>2 DEF Dispatch, Forget, Stall
  <2>2. GoodsTyped' /\ ActsTyped'
    BY <2>1 DEF rows, TypeInv, TypeOK, GoodsTyped, ActsTyped, ActsSound, Equipped
  <2>3. QueueTyped'
    BY <1>2, Parts, QueueStep DEF Dispatch
  <2> QED BY <2>2, <2>3, PartsNext
<1>3. ASSUME NEW o \in Orders, NEW to \in StaffTargets, StaffTransition(o, to) PROVE TypeInv'
  <2>1. status' \in [Orders -> Statuses]
    BY <1>3, StaffAssumption DEF StaffTransition, TypeInv, TypeOK
  <2> QED BY <1>3, <2>1 DEF StaffTransition, rows, queue, TypeInv, TypeOK, QueueSound,
         ActsSound, Equipped
<1>4. ASSUME NEW i \in Withdrawn, disable(i) PROVE TypeInv'
  <2>1. item' \in [Items -> {"SOLD", "DELIVERED", "DISABLED"}]
    BY <1>4 DEF disable, TypeInv, TypeOK
  <2> QED BY <1>4, <2>1 DEF disable, rows, queue, TypeInv, TypeOK, QueueSound, ActsSound, Equipped
<1>5. ASSUME NEW w \in Workers, NEW o \in Orders, PickUp(w, o) PROVE TypeInv'
  BY <1>5, PickUpType
<1>6. ASSUME NEW w \in Workers, Work(w) PROVE TypeInv'
  BY <1>6, BeginType, ClaimType, DeliverType, EnsureRowType, AdvanceType DEF Work, Actors
<1>7. ASSUME NEW x \in Mortal, Crash(x) PROVE TypeInv'
  <2>1. x \in Actors
    BY ActorsAssumption DEF Actors
  <2>2. Idle \in Activities /\ Equipped(x, Idle)
    BY DEF Idle, Activities, Equipped
  <2>3. GoodsTyped'
    BY <1>7 DEF Crash, rows, TypeInv, TypeOK, GoodsTyped
  <2> QED BY <1>7, <2>1, <2>2, <2>3, RunGoesOn DEF Crash
<1>8. ASSUME NEW a \in Agents, Help(a) \/ \E l \in HandServed : OpenDelivery(a, l) PROVE TypeInv'
  BY <1>8, AgentType, AdvanceType DEF Help, Actors
<1>9. CASE UNCHANGED vars
  BY <1>9 DEF vars, rows, queue, TypeInv, TypeOK, QueueSound, ActsSound, Equipped
<1> QED BY <1>1, <1>2, <1>3, <1>4, <1>5, <1>6, <1>7, <1>8, <1>9 DEF Next

\* The types hold in every reachable state: a job never takes more attempts, and is
\* never taken back more often, than the queue allows.
THEOREM TypeCorrect == Spec => []TypeOK
<1>1. TypeInv => TypeOK
  BY DEF TypeInv
<1> QED BY InitType, NextType, <1>1, PTL DEF Spec

-----------------------------------------------------------------------------
(* What any step may do to the rows and the goods *)

\* A worker on a line has its row.
RowsThere == \A w \in Workers : act[w].pc \in {"claim", "deliver"} => row[act[w].line] # "NONE"

\* A row never goes, past waiting it stays so, and once delivered it stays as it is.
RowMoves ==
  \A l \in Lines :
    /\ row[l] # "NONE" => row'[l] # "NONE"
    /\ row[l] \in {"DELIVERED", "FAILED"} => row'[l] \in {"DELIVERED", "FAILED"}
    /\ row[l] = "DELIVERED" =>
         row'[l] = "DELIVERED" /\ handed'[l] = handed[l] /\ method'[l] = method[l]

\* Who starts to work on a line has seen to its row; who means to announce one knows
\* that it is past waiting.
ActMoves ==
  \A x \in Actors :
    /\ act'[x].pc \in {"claim", "deliver"} =>
         \/ act[x].pc \in {"claim", "deliver"} /\ act'[x].line = act[x].line
         \/ row'[act'[x].line] # "NONE"
    /\ \A l \in act'[x].fresh : l \in act[x].fresh \/ row'[l] \in {"DELIVERED", "FAILED"}

\* No item is touched, and nobody begins to hold one.
ItemsStay ==
  /\ handed' = handed /\ item' = item
  /\ \A x \in Actors : act'[x] = act[x] \/ act'[x].pc # "deliver"

\* A step of x that takes it to a, and touches no item.
LEMMA QuietStep ==
  ASSUME TypeInv, NEW x \in Actors, NEW a \in Activities, act' = [act EXCEPT ![x] = a],
         handed' = handed, item' = item, a.pc # "deliver", RowMoves,
         a.pc = "claim" => row'[a.line] # "NONE",
         \A l \in a.fresh : l \in act[x].fresh \/ row'[l] \in {"DELIVERED", "FAILED"}
  PROVE  ActMoves /\ ItemsStay
<1>1. ASSUME NEW y \in Actors PROVE act'[y] = IF y = x THEN a ELSE act[y]
  BY DEF TypeInv, TypeOK
<1> QED BY <1>1 DEF ActMoves, ItemsStay

\* Nothing happens to the rows.
LEMMA RowsSame == ASSUME UNCHANGED rows PROVE RowMoves
BY DEF rows, RowMoves

LEMMA IdleQuiet ==
  ASSUME TypeInv, NEW x \in Actors, act' = [act EXCEPT ![x] = Idle],
         handed' = handed, item' = item, RowMoves
  PROVE  ActMoves /\ ItemsStay
<1>1. Idle \in Activities /\ Idle.pc = "idle" /\ Idle.fresh = {}
  BY DEF Idle, Activities
<1> QED BY <1>1, QuietStep

LEMMA AdvanceShape ==
  ASSUME TypeInv, NEW x \in Actors, Advance(x)
  PROVE  RowMoves /\ ActMoves /\ ItemsStay
<1>0. act[x] \in Activities /\ UNCHANGED <<rows, item>>
  BY DEF TypeInv, TypeOK, Advance, AdvanceRead, AdvanceCount, AdvanceReady,
     AdvanceDelivered, AdvanceMove, Notify
<1>1. RowMoves /\ handed' = handed /\ item' = item
  BY <1>0, RowsSame DEF rows
<1>2. CASE act' = [act EXCEPT ![x] = Idle]
  BY <1>1, <1>2, IdleQuiet
<1>3. ASSUME NEW pc \in {"count", "notify", "ready", "delivered"},
             NEW a, a.pc = pc, a.fresh = act[x].fresh, a \in Activities,
             act' = [act EXCEPT ![x] = a]
      PROVE  ActMoves /\ ItemsStay
  BY <1>1, <1>3, QuietStep
<1>4. CASE AdvanceRead(x)
  <2> DEFINE o == act[x].order
             r == [act[x] EXCEPT !.pc = IF status[o] \in FULFILLABLE THEN "count" ELSE "notify",
                                 !.saw = IF status[o] \in FULFILLABLE THEN status[o] ELSE @]
  <2>1. r \in Activities /\ r.pc \in {"count", "notify"} /\ r.fresh = act[x].fresh
    BY <1>0 DEF Activities
  <2>2. act' = [act EXCEPT ![x] = r]
    BY <1>4 DEF AdvanceRead
  <2> HIDE DEF r
  <2> QED BY <1>1, <1>3, <2>1, <2>2
<1>5. CASE AdvanceCount(x)
  <2> DEFINE clear == \A l \in LinesOf(act[x].order) : row[l] \in {"NONE", "DELIVERED"}
             r == [act[x] EXCEPT !.pc = Then(act[x].saw, clear), !.saw = "none",
                                 !.clear = clear /\ act[x].saw = "PROCESSING"]
  <2>1. r \in Activities /\ r.pc \in {"ready", "delivered", "notify"} /\ r.fresh = act[x].fresh
    <3>1. Then(act[x].saw, clear) \in {"ready", "delivered", "notify"}
      BY DEF Then
    <3>2. (clear /\ act[x].saw = "PROCESSING") \in BOOLEAN
      OBVIOUS
    <3> HIDE DEF clear
    <3> QED BY <1>0, <3>1, <3>2 DEF Activities
  <2>2. act' = [act EXCEPT ![x] = r]
    BY <1>5 DEF AdvanceCount
  <2> HIDE DEF r
  <2> QED BY <1>1, <1>3, <2>1, <2>2
<1>6. ASSUME NEW pc, NEW to, NEW next \in {"delivered", "notify"}, AdvanceMove(x, pc, to, next)
      PROVE  ActMoves /\ ItemsStay
  <2>1. CASE act' = [act EXCEPT ![x] = Idle]
    BY <1>2, <2>1
  <2>2. CASE act' = [act EXCEPT ![x].pc = next, ![x].clear = FALSE]
    <3> DEFINE r == [act[x] EXCEPT !.pc = next, !.clear = FALSE]
    <3>1. r \in Activities /\ r.pc = next /\ r.fresh = act[x].fresh
      BY <1>0 DEF Activities
    <3>2. act' = [act EXCEPT ![x] = r]
      BY <2>2
    <3> HIDE DEF r
    <3> QED BY <1>3, <3>1, <3>2
  <2> QED BY <1>6, <2>1, <2>2 DEF AdvanceMove, Throw
<1> QED BY <1>1, <1>2, <1>4, <1>5, <1>6
     DEF Advance, AdvanceReady, AdvanceDelivered, Notify

LEMMA EnsureRowShape ==
  ASSUME TypeInv, NEW w \in Workers, NEW l \in Lines, EnsureRow(w, l)
  PROVE  RowMoves /\ ActMoves /\ ItemsStay
<1>0. w \in Actors /\ act[w] \in Activities
  BY DEF TypeInv, TypeOK, Actors
<1>1. RowMoves /\ handed' = handed /\ item' = item /\ row'[l] # "NONE"
  BY DEF EnsureRow, RowMoves, TypeInv, TypeOK
<1> DEFINE done == row[l] = "DELIVERED" \/ l \notin AutoLines
           a == [act[w] EXCEPT !.todo = @ \ {l}, !.pc = IF done THEN @ ELSE "claim",
                               !.line = IF done THEN @ ELSE l]
<1>2. /\ a \in Activities /\ a.pc \in {"lines", "claim"} /\ (a.pc = "claim" => a.line = l)
      /\ a.fresh = act[w].fresh
  BY <1>0 DEF EnsureRow, Activities
<1>3. act' = [act EXCEPT ![w] = a]
  BY DEF EnsureRow
<1> HIDE DEF a
<1> QED BY <1>0, <1>1, <1>2, <1>3, QuietStep

\* A worker is done with its line; one to be announced is past waiting.
LEMMA NextLineShape ==
  ASSUME TypeInv, NEW w \in Workers, act[w].pc = "deliver", NEW ok \in BOOLEAN,
         NextLine(w, ok), RowMoves, ok => row'[act[w].line] \in {"DELIVERED", "FAILED"}
  PROVE  ActMoves /\ (handed' = handed /\ item' = item => ItemsStay)
<1>0. w \in Actors /\ act[w] \in Activities /\ Equipped(w, act[w])
  BY DEF TypeInv, TypeOK, ActsSound, Actors
<1> DEFINE a == [act[w] EXCEPT !.pc = "lines", !.line = NoLine, !.claimed = {},
                   !.fresh = IF ok THEN @ \cup {act[w].line} ELSE @]
<1>1. /\ a.pc = "lines"
      /\ \A l \in a.fresh : l \in act[w].fresh \/ row'[l] \in {"DELIVERED", "FAILED"}
  BY <1>0 DEF Activities
<1>2. act' = [act EXCEPT ![w] = a]
  BY DEF NextLine
<1> HIDE DEF a
<1>3. ASSUME NEW y \in Actors PROVE act'[y] = IF y = w THEN a ELSE act[y]
  BY <1>2 DEF TypeInv, TypeOK
<1> QED BY <1>1, <1>3 DEF ActMoves, ItemsStay

LEMMA DeliverShape ==
  ASSUME TypeInv, RowsThere, NEW w \in Workers,
         DeliverLine(w) \/ FallBackToManual(w) \/ DeliverFails(w)
  PROVE  /\ RowMoves /\ ActMoves
         /\ ItemsStay \/ (DeliverLine(w) /\ row[act[w].line] = "PENDING")
<1>0. /\ w \in Actors /\ act[w] \in Activities /\ Equipped(w, act[w])
      /\ act[w].pc = "deliver"
  BY DEF TypeInv, TypeOK, ActsSound, Actors, DeliverLine, FallBackToManual, DeliverFails
<1>1. act[w].line \in Lines /\ row[act[w].line] # "NONE"
  BY <1>0 DEF Equipped, RowsThere
<1>2. CASE DeliverLine(w)
  <2>1. RowMoves
    BY <1>1, <1>2 DEF DeliverLine, RowMoves, TypeInv, TypeOK
  <2>2. row'[act[w].line] \in {"DELIVERED", "FAILED"}
    BY <1>1, <1>2 DEF DeliverLine, TypeInv, TypeOK
  <2>3. NextLine(w, TRUE) /\ (row[act[w].line] # "PENDING" => handed' = handed /\ item' = item)
    BY <1>2 DEF DeliverLine
  <2> QED BY <1>0, <1>2, <2>1, <2>2, <2>3, NextLineShape
<1>3. CASE FallBackToManual(w)
  <2>1. RowMoves
    BY <1>1, <1>3 DEF FallBackToManual, RowMoves, TypeInv, TypeOK
  <2>2. NextLine(w, FALSE) /\ handed' = handed /\ item' = item
    BY <1>3 DEF FallBackToManual
  <2> QED BY <1>0, <2>1, <2>2, NextLineShape
<1>4. CASE DeliverFails(w)
  <2>1. RowMoves
    BY <1>1, <1>4 DEF DeliverFails, RowMoves, TypeInv, TypeOK
  <2>2. act' = [act EXCEPT ![w] = Idle] /\ handed' = handed /\ item' = item
    BY <1>4 DEF DeliverFails, Throw
  <2> QED BY <1>0, <2>1, <2>2, IdleQuiet
<1> QED BY <1>2, <1>3, <1>4

\* Beginning to work on a line and beginning to work on an order.
LEMMA StartShape ==
  ASSUME TypeInv, NEW w \in Workers, Begin(w) \/ \E o \in Orders : PickUp(w, o)
  PROVE  RowMoves /\ ActMoves /\ ItemsStay
<1>0. w \in Actors /\ act[w] \in Activities
  BY DEF TypeInv, TypeOK, Actors
<1>1. RowMoves /\ handed' = handed /\ item' = item
  BY RowsSame DEF Begin, PickUp, rows
<1>2. CASE act' = [act EXCEPT ![w] = Idle]
  BY <1>0, <1>1, <1>2, IdleQuiet
<1>3. CASE act' = [act EXCEPT ![w].pc = "lines"]
  <2> DEFINE a == [act[w] EXCEPT !.pc = "lines"]
  <2>1. a \in Activities /\ a.pc = "lines" /\ a.fresh = act[w].fresh
    BY <1>0 DEF Activities
  <2>2. act' = [act EXCEPT ![w] = a]
    BY <1>3
  <2> HIDE DEF a
  <2> QED BY <1>0, <1>1, <2>1, <2>2, QuietStep
<1>4. ASSUME NEW o \in Orders, PickUp(w, o), act' # act PROVE ActMoves /\ ItemsStay
  <2> DEFINE a == [Idle EXCEPT !.pc = IF status[o] = "PAID" THEN "begin" ELSE "lines",
                               !.order = o, !.todo = LinesOf(o)]
  <2>1. a \in Activities /\ a.pc \in {"begin", "lines"} /\ a.fresh = {}
    BY DEF Idle, Activities, LinesOf
  <2>2. act' = [act EXCEPT ![w] = a]
    BY <1>4 DEF PickUp
  <2> HIDE DEF a
  <2> QED BY <1>0, <1>1, <2>1, <2>2, QuietStep
<1>5. CASE act' = act
  BY <1>1, <1>5, <1>0 DEF ActMoves, ItemsStay, TypeInv, TypeOK
<1> QED BY <1>1, <1>2, <1>3, <1>4, <1>5 DEF Begin, Throw

LEMMA AgentShape ==
  ASSUME TypeInv, NEW a \in Agents,
         fulfillManually(a) \/ \E l \in HandServed : OpenDelivery(a, l)
  PROVE  RowMoves /\ ActMoves /\ ItemsStay
<1>0. a \in Actors /\ act[a] \in Activities /\ Equipped(a, act[a])
  BY DEF TypeInv, TypeOK, ActsSound, Actors
<1>1. CASE fulfillManually(a)
  <2>0. act[a].line \in Lines
    BY <1>0, <1>1 DEF fulfillManually, Equipped
  <2>1. RowMoves /\ handed' = handed /\ item' = item
    BY <1>1, <2>0 DEF fulfillManually, RowMoves, TypeInv, TypeOK
  <2>2. CASE act' = [act EXCEPT ![a] = Idle]
    BY <1>0, <2>1, <2>2, IdleQuiet
  <2>3. CASE row' = [row EXCEPT ![act[a].line] = "DELIVERED"]
             /\ act' = [act EXCEPT ![a].pc = "advance", ![a].fresh = {act[a].line}]
    <3> DEFINE r == [act[a] EXCEPT !.pc = "advance", !.fresh = {act[a].line}]
    <3>1. r \in Activities /\ r.pc = "advance" /\ r.fresh = {act[a].line}
      BY <1>0, <2>0 DEF Activities
    <3>2. act' = [act EXCEPT ![a] = r]
      BY <2>3
    <3>3. row'[act[a].line] = "DELIVERED"
      BY <2>0, <2>3 DEF TypeInv, TypeOK
    <3> HIDE DEF r
    <3> QED BY <1>0, <2>1, <3>1, <3>2, <3>3, QuietStep
  <2> QED BY <1>1, <2>1, <2>2, <2>3 DEF fulfillManually
<1>2. ASSUME NEW l \in HandServed, OpenDelivery(a, l) PROVE RowMoves /\ ActMoves /\ ItemsStay
  <2> DEFINE r == [Idle EXCEPT !.pc = "fulfil", !.order = OrderOf[l], !.line = l]
  <2>1. r \in Activities /\ r.pc = "fulfil" /\ r.fresh = {}
    BY LinesAssumption, ActorsAssumption DEF Idle, Activities
  <2>2. act' = [act EXCEPT ![a] = r]
    BY <1>2 DEF OpenDelivery
  <2>3. RowMoves /\ handed' = handed /\ item' = item
    BY <1>2, RowsSame DEF OpenDelivery, rows
  <2> HIDE DEF r
  <2> QED BY <1>0, <2>1, <2>2, <2>3, QuietStep
<1> QED BY <1>1, <1>2

\* A claim takes free items of the line's order and product, no more than it asks for.
Takes(w, claimed) ==
  /\ act[w].pc = "claim"
  /\ claimed \subseteq Claimable(act[w].line)
  /\ Cardinality(claimed) <= Quantity[act[w].line]
  /\ act' = [act EXCEPT ![w].pc = "deliver", ![w].claimed = claimed]
  /\ UNCHANGED <<rows, item>>

LEMMA ClaimShape ==
  ASSUME TypeInv, RowsThere, NEW w \in Workers, claimInventoryForItem(w)
  PROVE  RowMoves /\ ActMoves /\ \E claimed \in SUBSET Items : Takes(w, claimed)
<1>0. w \in Actors /\ act[w] \in Activities /\ Equipped(w, act[w]) /\ act[w].pc = "claim"
  BY DEF TypeInv, TypeOK, ActsSound, Actors, claimInventoryForItem
<1>1. act[w].line \in Lines
  BY <1>0 DEF Equipped
<1>2. IsFiniteSet(Claimable(act[w].line))
  BY LinesAssumption, FS_Subset DEF Claimable
<1>3. Cardinality(Claimable(act[w].line)) \in Nat /\ Quantity[act[w].line] \in Nat
  BY <1>1, <1>2, FS_CardinalityType, LinesAssumption
<1>4. PICK claimed \in SUBSET Claimable(act[w].line) :
        /\ Cardinality(claimed) = IF Cardinality(Claimable(act[w].line)) < Quantity[act[w].line]
                                  THEN Cardinality(Claimable(act[w].line))
                                  ELSE Quantity[act[w].line]
        /\ act' = [act EXCEPT ![w].pc = "deliver", ![w].claimed = claimed]
  BY DEF claimInventoryForItem
<1>5. Takes(w, claimed) /\ claimed \subseteq Items
  <2>1. Cardinality(claimed) <= Quantity[act[w].line]
    <3> HIDE DEF Claimable
    <3> QED BY <1>3, <1>4
  <2>2. claimed \subseteq Items
    BY <1>4 DEF Claimable
  <2>3. UNCHANGED <<rows, item>>
    BY DEF claimInventoryForItem
  <2> QED BY <1>0, <1>4, <2>1, <2>2, <2>3 DEF Takes
<1>6. RowMoves
  BY RowsSame DEF claimInventoryForItem
<1>7. ASSUME NEW y \in Actors
      PROVE  act'[y].line = act[y].line /\ act'[y].fresh = act[y].fresh
             /\ (act'[y].pc \in {"claim", "deliver"} => act[y].pc \in {"claim", "deliver"})
  BY <1>0, <1>4 DEF TypeInv, TypeOK, Activities
<1> QED BY <1>5, <1>6, <1>7 DEF ActMoves

\* What one step may do.
LEMMA NextShape ==
  ASSUME TypeInv, RowsThere, [Next]_vars
  PROVE  /\ RowMoves /\ ActMoves
         /\ \/ ItemsStay
            \/ \E w \in Workers, claimed \in SUBSET Items : Takes(w, claimed)
            \/ \E w \in Workers : DeliverLine(w) /\ row[act[w].line] = "PENDING"
            \/ \E i \in Items : disable(i)
<1>0. ASSUME act' = act PROVE ActMoves /\ (UNCHANGED <<handed, item>> => ItemsStay)
  BY <1>0 DEF ActMoves, ItemsStay
<1>1. ASSUME NEW o \in Orders, Pay(o) \/ Dispatch(o) \/ Forget(o) \/ Stall(o)
      PROVE  RowMoves /\ ActMoves /\ ItemsStay
  BY <1>0, <1>1, RowsSame DEF Pay, Dispatch, Forget, Stall, rows
<1>2. ASSUME NEW o \in Orders, NEW to \in StaffTargets, StaffTransition(o, to)
      PROVE  RowMoves /\ ActMoves /\ ItemsStay
  BY <1>0, <1>2, RowsSame DEF StaffTransition, rows
<1>3. ASSUME NEW i \in Withdrawn, disable(i)
      PROVE  RowMoves /\ ActMoves /\ \E j \in Items : disable(j)
  <2>1. i \in Items
    BY StaffAssumption
  <2>2. RowMoves /\ ActMoves
    BY <1>0, <1>3, RowsSame DEF disable
  <2> QED BY <1>3, <2>1, <2>2
<1>4. ASSUME NEW w \in Workers, Work(w)
      PROVE  /\ RowMoves /\ ActMoves
             /\ \/ ItemsStay
                \/ \E claimed \in SUBSET Items : Takes(w, claimed)
                \/ DeliverLine(w) /\ row[act[w].line] = "PENDING"
  <2>1. CASE Begin(w)
    BY <2>1, StartShape
  <2>2. CASE claimInventoryForItem(w)
    BY <2>2, ClaimShape
  <2>3. CASE DeliverLine(w) \/ FallBackToManual(w) \/ DeliverFails(w)
    BY <2>3, DeliverShape
  <2>4. CASE \E l \in Lines : EnsureRow(w, l)
    BY <2>4, EnsureRowShape
  <2>5. CASE Advance(w)
    BY <2>5, AdvanceShape DEF Actors
  <2> QED BY <1>4, <2>1, <2>2, <2>3, <2>4, <2>5 DEF Work
<1>5. ASSUME NEW x \in Mortal, Crash(x) PROVE RowMoves /\ ActMoves /\ ItemsStay
  <2>1. x \in Actors
    BY ActorsAssumption DEF Actors
  <2> QED BY <1>5, <2>1, IdleQuiet, RowsSame DEF Crash, rows
<1>6. ASSUME NEW a \in Agents, Help(a) \/ \E l \in HandServed : OpenDelivery(a, l)
      PROVE  RowMoves /\ ActMoves /\ ItemsStay
  BY <1>6, AgentShape, AdvanceShape DEF Help, Actors
<1>7. CASE UNCHANGED vars
  BY <1>0, <1>7, RowsSame DEF vars, rows
<1>8. ASSUME NEW w \in Workers, NEW o \in Orders, PickUp(w, o)
      PROVE  RowMoves /\ ActMoves /\ ItemsStay
  BY <1>8, StartShape
<1>9. CASE \E w \in Workers : Work(w)
  BY <1>4, <1>9
<1>10. CASE \E i \in Withdrawn : disable(i)
  BY <1>3, <1>10
<1> QED BY <1>1, <1>2, <1>5, <1>6, <1>7, <1>8, <1>9, <1>10 DEF Next

-----------------------------------------------------------------------------
(* What the customer is told, and what stays theirs *)

LEMMA RowsThereNext ==
  ASSUME TypeInv, RowsThere, [Next]_vars
  PROVE  RowsThere'
<1> SUFFICES ASSUME NEW w \in Workers, act'[w].pc \in {"claim", "deliver"}
             PROVE  row'[act'[w].line] # "NONE"
  BY DEF RowsThere
<1>1. RowMoves /\ ActMoves
  BY NextShape
<1>2. w \in Actors
  BY DEF Actors
<1>3. CASE act[w].pc \in {"claim", "deliver"} /\ act'[w].line = act[w].line
  <2>1. act[w].line \in Lines
    BY <1>2, <1>3 DEF TypeInv, ActsSound, Equipped
  <2>2. row[act[w].line] # "NONE"
    BY <1>3 DEF RowsThere
  <2> QED BY <1>1, <1>3, <2>1, <2>2 DEF RowMoves
<1> QED BY <1>1, <1>2, <1>3 DEF ActMoves

RowInv == TypeInv /\ RowsThere

LEMMA InitRows == Init => RowInv
<1> SUFFICES ASSUME Init PROVE RowsThere
  BY InitType DEF RowInv
<1> QED BY DEF Init, RowsThere, Idle, Actors

\* The types and the rows of the lines under work, in every reachable state.
LEMMA RowInvariant == Spec => []RowInv
<1>1. RowInv /\ [Next]_vars => RowInv'
  BY NextType, RowsThereNext DEF RowInv
<1> QED BY InitRows, <1>1, PTL DEF Spec

\* The customer is told of rows past waiting only: no goods parked for a person are
\* ever announced, whoever works on the order.
THEOREM NoticesAreTrue == Spec => []NoticeFollowsDelivery
<1>1. Init => NoticeFollowsDelivery
  BY DEF Init, NoticeFollowsDelivery, Idle
<1>2. RowInv /\ NoticeFollowsDelivery /\ [Next]_vars => NoticeFollowsDelivery'
  <2> SUFFICES ASSUME RowInv, NoticeFollowsDelivery, [Next]_vars,
                      NEW x \in Actors, NEW l \in act'[x].fresh
               PROVE  row'[l] \in {"DELIVERED", "FAILED"}
    BY DEF NoticeFollowsDelivery
  <2>1. RowMoves /\ ActMoves
    BY NextShape DEF RowInv
  <2>2. CASE l \in act[x].fresh
    <3>1. l \in Lines
      BY <2>2 DEF RowInv, TypeInv, TypeOK, Activities
    <3> QED BY <2>1, <2>2, <3>1 DEF RowMoves, NoticeFollowsDelivery
  <2> QED BY <2>1, <2>2 DEF ActMoves
<1> QED BY <1>1, <1>2, RowInvariant, PTL DEF Spec

\* What was handed over stays as it was, for any number of workers and agents on
\* the same line and whichever of them fail or die.
THEOREM DeliveriesStay == Spec => HandedOverStays
<1>1. RowInv /\ [Next]_vars =>
        [\A l \in Lines :
           row[l] = "DELIVERED" =>
             row'[l] = "DELIVERED" /\ handed'[l] = handed[l] /\ method'[l] = method[l]]_vars
  BY NextShape DEF RowInv, RowMoves
<1> QED BY <1>1, RowInvariant, PTL DEF Spec, HandedOverStays

-----------------------------------------------------------------------------
(* Where the items are *)

\* What a worker holds on its way to a line: items of the line's order and product,
\* sold and not handed over, no more than the line asks for, and nobody else's.
ClaimSound(w) ==
  /\ Cardinality(act[w].claimed) <= Quantity[act[w].line]
  /\ \A i \in act[w].claimed :
       /\ ItemOrder[i] = OrderOf[act[w].line] /\ ItemProduct[i] = ProductOf[act[w].line]
       /\ item[i] = "SOLD"
  /\ \A x \in Workers : x # w => act[w].claimed \cap act[x].claimed = {}

ClaimsSound == \A w \in Workers : act[w].pc = "deliver" => ClaimSound(w)

GoodsInv == RowInv /\ GoodsHandedOverOnce /\ ClaimsSound

LEMMA InitGoods == Init => GoodsInv
<1> SUFFICES ASSUME Init PROVE GoodsHandedOverOnce /\ ClaimsSound
  BY InitRows DEF GoodsInv
<1> QED BY DEF Init, GoodsHandedOverOnce, ClaimsSound, Idle, Actors

\* What a worker on its way to a line holds, and who else holds it.
LEMMA Holding ==
  ASSUME TypeInv, ClaimsSound, NEW w \in Workers, NEW x \in Workers, w # x
  PROVE  act[w].claimed \cap act[x].claimed = {}
<1>1. act[w].claimed # {} => act[w].pc = "deliver"
  BY DEF TypeInv, ActsSound, Equipped, Actors
<1> QED BY <1>1 DEF ClaimsSound, ClaimSound

LEMMA GoodsUntouched ==
  ASSUME GoodsInv, RowInv', RowMoves, ItemsStay
  PROVE  GoodsHandedOverOnce' /\ ClaimsSound'
<1>1. GoodsHandedOverOnce'
  BY DEF GoodsInv, GoodsHandedOverOnce, RowMoves, ItemsStay
<1>2. ASSUME NEW w \in Workers, act'[w].pc = "deliver" PROVE ClaimSound(w)'
  <2>1. act'[w] = act[w] /\ item' = item /\ ClaimSound(w)
    BY <1>2 DEF ItemsStay, GoodsInv, ClaimsSound, Actors
  <2>2. ASSUME NEW x \in Workers, x # w PROVE act'[w].claimed \cap act'[x].claimed = {}
    <3>1. act'[x].claimed # {} => act'[x] = act[x]
      BY DEF ItemsStay, RowInv, TypeInv, ActsSound, Equipped, Actors
    <3> QED BY <2>1, <2>2, <3>1 DEF ClaimSound
  <2> QED BY <2>1, <2>2 DEF ClaimSound
<1> QED BY <1>1, <1>2 DEF ClaimsSound

LEMMA GoodsTaken ==
  ASSUME GoodsInv, NEW w \in Workers, NEW claimed \in SUBSET Items, Takes(w, claimed)
  PROVE  GoodsHandedOverOnce' /\ ClaimsSound'
<1>1. GoodsHandedOverOnce'
  BY DEF GoodsInv, GoodsHandedOverOnce, Takes, rows
<1>2. ASSUME NEW x \in Actors
      PROVE  /\ act'[x].line = act[x].line
             /\ act'[x].claimed = IF x = w THEN claimed ELSE act[x].claimed
             /\ x # w => act'[x].pc = act[x].pc
  <2>1. act \in [Actors -> Activities] /\ w \in Actors
    BY DEF GoodsInv, RowInv, TypeInv, TypeOK, Actors
  <2> QED BY <2>1 DEF Takes, Activities
<1>3. ASSUME NEW x \in Workers PROVE claimed \cap act[x].claimed = {}
  BY DEF Takes, Claimable, Locked
<1>4. ASSUME NEW x \in Workers, act'[x].pc = "deliver" PROVE ClaimSound(x)'
  <2>0. item' = item /\ x \in Actors
    BY DEF Takes, Actors
  <2>1. ASSUME NEW y \in Workers, y # x PROVE act'[x].claimed \cap act'[y].claimed = {}
    BY <1>2, <1>3, <2>1, Holding DEF GoodsInv, RowInv, Actors
  <2>2. CASE x = w
    <3>1. act'[w].line = act[w].line /\ act'[w].claimed = claimed
      BY <1>2, <2>0, <2>2
    <3>2. Cardinality(claimed) <= Quantity[act[w].line]
      BY DEF Takes
    <3>3. \A i \in claimed : /\ ItemOrder[i] = OrderOf[act[w].line]
                             /\ ItemProduct[i] = ProductOf[act[w].line] /\ item[i] = "SOLD"
      BY DEF Takes, Claimable
    <3> QED BY <2>0, <2>1, <2>2, <3>1, <3>2, <3>3 DEF ClaimSound
  <2>3. CASE x # w
    BY <1>2, <1>4, <2>0, <2>1, <2>3 DEF ClaimSound, GoodsInv, ClaimsSound
  <2> QED BY <2>2, <2>3
<1> QED BY <1>1, <1>4 DEF ClaimsSound

LEMMA GoodsDisabled ==
  ASSUME GoodsInv, NEW i \in Items, disable(i)
  PROVE  GoodsHandedOverOnce' /\ ClaimsSound'
<1>1. item' = [item EXCEPT ![i] = "DISABLED"] /\ UNCHANGED <<row, handed, act>> /\ ~Locked(i)
  BY DEF disable, rows
<1>2. item \in [Items -> {"SOLD", "DELIVERED", "DISABLED"}]
  BY DEF GoodsInv, RowInv, TypeInv, TypeOK
<1>3. GoodsHandedOverOnce'
  BY <1>1, <1>2 DEF GoodsInv, GoodsHandedOverOnce
<1>4. ASSUME NEW w \in Workers, act[w].pc = "deliver" PROVE ClaimSound(w)'
  <2>1. act[w].claimed \subseteq Items /\ ClaimSound(w)
    BY <1>4 DEF GoodsInv, RowInv, TypeInv, TypeOK, Activities, Actors, ClaimsSound
  <2>2. i \notin act[w].claimed
    BY <1>1 DEF Locked
  <2> QED BY <1>1, <1>2, <2>1, <2>2 DEF ClaimSound
<1> QED BY <1>1, <1>3, <1>4 DEF ClaimsSound

LEMMA GoodsDelivered ==
  ASSUME GoodsInv, NEW w \in Workers, DeliverLine(w), row[act[w].line] = "PENDING"
  PROVE  GoodsHandedOverOnce' /\ ClaimsSound'
<1> DEFINE l == act[w].line
           C == act[w].claimed
<1>0. w \in Actors /\ act \in [Actors -> Activities] /\ act[w].pc = "deliver" /\ ClaimSound(w)
  BY DEF GoodsInv, RowInv, TypeInv, TypeOK, Actors, DeliverLine, ClaimsSound
<1>1. l \in Lines /\ C \subseteq Items
  BY <1>0 DEF GoodsInv, RowInv, TypeInv, ActsSound, Equipped, Activities
<1>2. Cardinality(C) = Quantity[l]
  <2>1. Cardinality(C) \in Nat /\ Quantity[l] \in Nat
    BY <1>1, FS_Subset, FS_CardinalityType, LinesAssumption
  <2>2. Cardinality(C) <= Quantity[l]
    BY <1>0 DEF ClaimSound
  <2>3. Cardinality(C) >= Quantity[l]
    BY DEF DeliverLine
  <2> QED BY <2>1, <2>2, <2>3
<1>3. \A i \in C : ItemOrder[i] = OrderOf[l] /\ ItemProduct[i] = ProductOf[l] /\ item[i] = "SOLD"
  BY <1>0 DEF ClaimSound
<1>4. /\ row' = [row EXCEPT ![l] = "DELIVERED"] /\ handed' = [handed EXCEPT ![l] = C]
      /\ item' = [i \in Items |-> IF i \in C THEN "DELIVERED" ELSE item[i]]
  BY DEF DeliverLine
<1>5. NextLine(w, TRUE)
  BY DEF DeliverLine
<1>6. ASSUME NEW x \in Workers
      PROVE  /\ x = w => act'[x].pc = "lines" /\ act'[x].claimed = {}
             /\ x # w => act'[x] = act[x]
  BY <1>0, <1>5 DEF NextLine, Activities, Actors
<1>7. row \in [Lines -> {"NONE", "PENDING", "DELIVERED", "FAILED"}] /\ handed \in [Lines -> SUBSET Items]
  BY DEF GoodsInv, RowInv, TypeInv, TypeOK
<1> HIDE DEF l, C
<1>8. row[l] = "PENDING" /\ handed[l] = {}
  <2>1. row[l] = "PENDING"
    BY DEF l
  <2> QED BY <1>1, <2>1 DEF GoodsInv, GoodsHandedOverOnce
<1>9. \A m \in Lines : handed[m] \cap C = {}
  BY <1>1, <1>3 DEF GoodsInv, GoodsHandedOverOnce
<1>10. GoodsHandedOverOnce'
  <2>0. /\ \A m \in Lines : row'[m] = IF m = l THEN "DELIVERED" ELSE row[m]
        /\ \A m \in Lines : handed'[m] = IF m = l THEN C ELSE handed[m]
        /\ \A i \in Items : item'[i] = IF i \in C THEN "DELIVERED" ELSE item[i]
    BY <1>1, <1>4, <1>7
  <2>1. ASSUME NEW m \in Lines, handed'[m] # {}
        PROVE  /\ row'[m] = "DELIVERED" /\ Cardinality(handed'[m]) = Quantity[m]
               /\ \A i \in handed'[m] : ItemOrder[i] = OrderOf[m] /\ ItemProduct[i] = ProductOf[m]
    BY <1>2, <1>3, <2>0, <2>1 DEF GoodsInv, GoodsHandedOverOnce
  <2>2. ASSUME NEW m \in Lines, NEW n \in Lines, m # n PROVE handed'[m] \cap handed'[n] = {}
    BY <1>9, <2>0, <2>2 DEF GoodsInv, GoodsHandedOverOnce
  <2>3. ASSUME NEW i \in Items
        PROVE  /\ item'[i] = "DELIVERED" => \E m \in Lines : i \in handed'[m]
               /\ item'[i] = "SOLD" => \A m \in Lines : i \notin handed'[m]
    <3>1. CASE i \in C
      BY <1>1, <2>0, <3>1
    <3>2. CASE i \notin C
      <4>1. item'[i] = item[i] /\ \A m \in Lines : i \in handed'[m] <=> i \in handed[m]
        BY <1>8, <2>0, <3>2
      <4> QED BY <4>1 DEF GoodsInv, GoodsHandedOverOnce
    <3> QED BY <3>1, <3>2
  <2> QED BY <2>1, <2>2, <2>3 DEF GoodsHandedOverOnce
<1>11. ASSUME NEW x \in Workers, act'[x].pc = "deliver" PROVE ClaimSound(x)'
  <2>1. x # w /\ act'[x] = act[x] /\ ClaimSound(x)
    BY <1>6, <1>11 DEF GoodsInv, ClaimsSound
  <2>2. act[x].claimed \cap C = {} /\ act[x].claimed \subseteq Items
    BY <1>0, <2>1 DEF ClaimSound, C, Activities, Actors
  <2>3. ASSUME NEW y \in Workers, y # x PROVE act'[x].claimed \cap act'[y].claimed = {}
    BY <1>6, <2>1, <2>3 DEF ClaimSound
  <2>4. \A i \in act[x].claimed : item'[i] = item[i]
    BY <1>4, <2>2
  <2> QED BY <2>1, <2>3, <2>4 DEF ClaimSound
<1> QED BY <1>10, <1>11 DEF ClaimsSound

\* No item reaches two lines, a line it was not sold for, or nobody: for any orders,
\* lines, items, workers and agents, through crashes, stalls and retries.
THEOREM GoodsReachOneLine == Spec => []GoodsHandedOverOnce
<1>1. GoodsInv /\ [Next]_vars => GoodsInv'
  <2> SUFFICES ASSUME GoodsInv, [Next]_vars PROVE GoodsInv'
    OBVIOUS
  <2>1. TypeInv /\ RowsThere
    BY DEF GoodsInv, RowInv
  <2>2. RowInv'
    BY <2>1, NextType, RowsThereNext DEF RowInv
  <2>3. RowMoves
    BY <2>1, NextShape
  <2>4. GoodsHandedOverOnce' /\ ClaimsSound'
    BY <2>1, <2>2, <2>3, NextShape, GoodsUntouched, GoodsTaken, GoodsDelivered, GoodsDisabled
  <2> QED BY <2>2, <2>4 DEF GoodsInv
<1>2. GoodsInv => GoodsHandedOverOnce
  BY DEF GoodsInv
<1> QED BY InitGoods, <1>1, <1>2, PTL DEF Spec
-----------------------------------------------------------------------------
(* No line is left waiting for a run that does not come *)

\* A line is handed to an agent for good, and one nobody can fill automatically is
\* an agent's from the start.
MethodMoves == \A l \in Lines : method'[l] \in {method[l], "MANUAL"}

ManualLines == \A l \in Lines : l \notin AutoLines => method[l] = "MANUAL"

\* A worker is past its lines when it has gone through all of them, and never where
\* only agents are.
WorkersPlaced ==
  \A w \in Workers :
    /\ act[w].pc \notin {"fulfil", "advance"}
    /\ act[w].pc \in {"count", "ready", "delivered", "notify"} => act[w].todo = {}

\* The lines a run is done with: not to come, and not under work.
Behind(a) ==
  {l \in LinesOf(a.order) : l \notin a.todo /\ ~(a.pc \in {"claim", "deliver"} /\ l = a.line)}

RunsSound == \A w \in Workers : \A l \in Behind(act[w]) : NotLeftWaiting(l)

WatchInv == RowInv /\ ManualLines /\ WorkersPlaced /\ RunsSound /\ NoLineLeftWaiting

\* A line that is not left waiting stays so, and what a step of one run has to see
\* to.
NotWaitingStays == \A l \in Lines : NotLeftWaiting(l) => NotLeftWaiting(l)'

RunStep(x, a) ==
  /\ act' = [act EXCEPT ![x] = a]
  /\ x \in Workers =>
       /\ a.pc \notin {"fulfil", "advance"}
       /\ a.pc \in {"count", "ready", "delivered", "notify"} => a.todo = {}
       /\ \A l \in Behind(a) : l \in Behind(act[x]) \/ NotLeftWaiting(l)'

RunsGoOn == act' = act \/ \E x \in Actors, a \in Activities : RunStep(x, a)

\* A job is completed by a worker that has gone through the lines.
JobMoves ==
  \A o \in Orders :
    job'[o] = "completed" =>
      \/ job[o] = "completed"
      \/ \E w \in Workers : act[w].pc = "notify" /\ act[w].order = o

LEMMA NobodysLines == LinesOf(NoOrder) = {}
BY LinesAssumption, ActorsAssumption DEF LinesOf

LEMMA MethodStep ==
  ASSUME TypeInv, [Next]_vars
  PROVE  MethodMoves
<1>1. CASE method' = method
  BY <1>1 DEF MethodMoves
<1>2. ASSUME NEW w \in Workers, FallBackToManual(w) PROVE MethodMoves
  BY <1>2 DEF FallBackToManual, MethodMoves, TypeInv, TypeOK
<1>3. ASSUME NEW x \in Actors, Advance(x) PROVE method' = method
  BY <1>3 DEF Advance, AdvanceRead, AdvanceCount, AdvanceReady, AdvanceDelivered,
              AdvanceMove, Notify, rows
<1>4. ASSUME NEW w \in Workers, Work(w) PROVE method' = method \/ FallBackToManual(w)
  BY <1>3, <1>4 DEF Work, Begin, EnsureRow, claimInventoryForItem, DeliverLine, DeliverFails,
                    rows, Actors
<1>5. ASSUME NEW a \in Agents, Help(a) PROVE method' = method
  BY <1>3, <1>5 DEF Help, fulfillManually, Actors
<1>6. CASE ~\E w \in Workers : Work(w)
  <2>1. method' = method
    BY <1>5, <1>6 DEF Next, Pay, Dispatch, Forget, Stall, StaffTransition, disable, PickUp,
                      Crash, OpenDelivery, rows, vars
  <2> QED BY <1>1, <2>1
<1> QED BY <1>1, <1>2, <1>4, <1>6

LEMMA NotWaitingStep ==
  ASSUME TypeInv, RowMoves, MethodMoves
  PROVE  NotWaitingStays
<1> SUFFICES ASSUME NEW l \in Lines, NotLeftWaiting(l) PROVE NotLeftWaiting(l)'
  BY DEF NotWaitingStays
<1>1. row[l] \in {"NONE", "PENDING", "DELIVERED", "FAILED"}
  BY DEF TypeInv, TypeOK
<1> QED BY <1>1 DEF NotLeftWaiting, RowMoves, MethodMoves

\* Only the end of a run completes a job.
LEMMA JobStep ==
  ASSUME TypeInv, WorkersPlaced, [Next]_vars
  PROVE  JobMoves
<1> SUFFICES ASSUME NEW o \in Orders, job'[o] = "completed", job[o] # "completed"
             PROVE  \E w \in Workers : act[w].pc = "notify" /\ act[w].order = o
  BY DEF JobMoves
<1>0. job \in [Orders -> JobStates]
  BY DEF TypeInv, TypeOK
<1>1. ASSUME NEW p \in Orders, Dispatch(p) \/ Forget(p) \/ Stall(p) \/ \E w \in Workers : PickUp(w, p)
      PROVE  FALSE
  BY <1>0, <1>1 DEF Dispatch, dispatch, Forget, Stall, PickUp
<1>2. ASSUME NEW x \in Actors, Throw(x) PROVE FALSE
  BY <1>0, <1>2 DEF Throw, Failed, queue
<1>3. ASSUME NEW x \in Actors, Notify(x) PROVE x \in Workers /\ act[x].pc = "notify" /\ act[x].order = o
  BY <1>0, <1>3 DEF Notify, Completed, queue
<1>4. CASE UNCHANGED job
  BY <1>4
<1>5. ASSUME NEW x \in Actors, Advance(x) PROVE UNCHANGED job \/ Throw(x) \/ Notify(x)
  BY <1>5 DEF Advance, AdvanceRead, AdvanceCount, AdvanceReady, AdvanceDelivered,
              AdvanceMove, queue
<1>6. ASSUME NEW w \in Workers, Work(w) PROVE UNCHANGED job \/ Throw(w) \/ Notify(w)
  BY <1>5, <1>6 DEF Work, Begin, EnsureRow, claimInventoryForItem, DeliverLine,
                    FallBackToManual, DeliverFails, queue, Actors
<1>7. ASSUME NEW a \in Agents, Help(a) PROVE UNCHANGED job \/ Throw(a) \/ Notify(a)
  BY <1>5, <1>7 DEF Help, fulfillManually, queue, Actors
<1>8. \/ UNCHANGED job
      \/ \E p \in Orders : Dispatch(p) \/ Forget(p) \/ Stall(p) \/ \E w \in Workers : PickUp(w, p)
      \/ \E x \in Actors : Throw(x) \/ Notify(x)
  BY <1>6, <1>7 DEF Next, Pay, StaffTransition, disable, Crash, OpenDelivery, queue, vars, Actors
<1> QED BY <1>1, <1>2, <1>3, <1>4, <1>8

LEMMA IdleRun ==
  ASSUME NEW x \in Actors, act' = [act EXCEPT ![x] = Idle]
  PROVE  RunStep(x, Idle) /\ Idle \in Activities
BY NobodysLines DEF RunStep, Idle, Behind, Activities

LEMMA AdvanceRun ==
  ASSUME TypeInv, WorkersPlaced, NEW x \in Actors, Advance(x)
  PROVE  RunsGoOn
<1>0. act[x] \in Activities
  BY DEF TypeInv, TypeOK
<1>1. ASSUME act' = [act EXCEPT ![x] = Idle] PROVE RunsGoOn
  BY <1>1, IdleRun DEF RunsGoOn
\* Past the lines, the order and what is to do of it stay the same.
<1>2. ASSUME NEW a \in Activities, act' = [act EXCEPT ![x] = a],
             a.pc \in {"count", "ready", "delivered", "notify"},
             a.order = act[x].order, a.todo = act[x].todo,
             act[x].pc \notin {"claim", "deliver"}, x \in Workers => a.todo = {}
      PROVE  RunsGoOn
  <2>1. Behind(a) = Behind(act[x])
    BY <1>2 DEF Behind
  <2> QED BY <1>2, <2>1 DEF RunStep, RunsGoOn
<1>3. CASE AdvanceRead(x)
  <2> DEFINE o == act[x].order
             a == [act[x] EXCEPT !.pc = IF status[o] \in FULFILLABLE THEN "count" ELSE "notify",
                                 !.saw = IF status[o] \in FULFILLABLE THEN status[o] ELSE @]
  <2>1. /\ a \in Activities /\ a.pc \in {"count", "notify"} /\ a.order = act[x].order
        /\ a.todo = act[x].todo
    BY <1>0 DEF Activities
  <2>2. act' = [act EXCEPT ![x] = a]
    BY <1>3 DEF AdvanceRead
  <2>3. act[x].pc \in {"advance", "lines"} /\ (x \in Workers => act[x].todo = {})
    BY <1>3 DEF AdvanceRead, WorkersPlaced
  <2> HIDE DEF a
  <2> QED BY <1>2, <2>1, <2>2, <2>3
<1>4. CASE AdvanceCount(x)
  <2> DEFINE clear == \A l \in LinesOf(act[x].order) : row[l] \in {"NONE", "DELIVERED"}
             a == [act[x] EXCEPT !.pc = Then(act[x].saw, clear), !.saw = "none",
                                 !.clear = clear /\ act[x].saw = "PROCESSING"]
  <2>1. /\ a \in Activities /\ a.pc \in {"ready", "delivered", "notify"}
        /\ a.order = act[x].order /\ a.todo = act[x].todo
    <3>1. Then(act[x].saw, clear) \in {"ready", "delivered", "notify"}
      BY DEF Then
    <3>2. (clear /\ act[x].saw = "PROCESSING") \in BOOLEAN
      OBVIOUS
    <3> HIDE DEF clear
    <3> QED BY <1>0, <3>1, <3>2 DEF Activities
  <2>2. act' = [act EXCEPT ![x] = a]
    BY <1>4 DEF AdvanceCount
  <2>3. act[x].pc = "count" /\ (x \in Workers => act[x].todo = {})
    BY <1>4 DEF AdvanceCount, WorkersPlaced
  <2> HIDE DEF a
  <2> QED BY <1>2, <2>1, <2>2, <2>3
<1>5. ASSUME NEW pc \in {"ready", "delivered"}, NEW to, NEW next \in {"delivered", "notify"},
             AdvanceMove(x, pc, to, next)
      PROVE  RunsGoOn
  <2>1. CASE act' = [act EXCEPT ![x].pc = next, ![x].clear = FALSE]
    <3> DEFINE a == [act[x] EXCEPT !.pc = next, !.clear = FALSE]
    <3>1. /\ a \in Activities /\ a.pc = next /\ a.order = act[x].order
          /\ a.todo = act[x].todo
      BY <1>0 DEF Activities
    <3>2. act' = [act EXCEPT ![x] = a]
      BY <2>1
    <3>3. act[x].pc = pc /\ (x \in Workers => act[x].todo = {})
      BY <1>5 DEF AdvanceMove, WorkersPlaced
    <3> HIDE DEF a
    <3> QED BY <1>2, <3>1, <3>2, <3>3
  <2> QED BY <1>1, <1>5, <2>1 DEF AdvanceMove, Throw
<1> QED BY <1>1, <1>3, <1>4, <1>5 DEF Advance, AdvanceReady, AdvanceDelivered, Notify

\* A worker goes to its lines, takes the next one, or looks for its items.
LEMMA LineRun ==
  ASSUME TypeInv, ManualLines, MethodMoves, WorkersPlaced, NEW w \in Workers,
         \/ Begin(w) \/ claimInventoryForItem(w) \/ \E l \in Lines : EnsureRow(w, l)
         \/ \E o \in Orders : PickUp(w, o)
  PROVE  RunsGoOn
<1>0. w \in Actors /\ act[w] \in Activities /\ Equipped(w, act[w])
  BY DEF TypeInv, TypeOK, ActsSound, Actors
<1>1. CASE Begin(w)
  <2>1. CASE act' = [act EXCEPT ![w].pc = "lines"]
    <3> DEFINE a == [act[w] EXCEPT !.pc = "lines"]
    <3>1. a \in Activities /\ a.pc = "lines" /\ a.order = act[w].order /\ a.todo = act[w].todo
      BY <1>0 DEF Activities
    <3>2. act' = [act EXCEPT ![w] = a]
      BY <2>1
    <3>3. act[w].pc = "begin"
      BY <1>1 DEF Begin
    <3> HIDE DEF a
    <3>4. Behind(a) = Behind(act[w])
      BY <3>1, <3>3 DEF Behind
    <3> QED BY <1>0, <3>1, <3>2, <3>4 DEF RunStep, RunsGoOn
  <2> QED BY <1>0, <1>1, <2>1, IdleRun DEF Begin, Throw, RunsGoOn
<1>2. CASE claimInventoryForItem(w)
  <2>1. PICK claimed \in SUBSET Claimable(act[w].line) :
          act' = [act EXCEPT ![w].pc = "deliver", ![w].claimed = claimed]
    BY <1>2 DEF claimInventoryForItem
  <2> DEFINE a == [act[w] EXCEPT !.pc = "deliver", !.claimed = claimed]
  <2>2. /\ a \in Activities /\ a.pc = "deliver" /\ a.order = act[w].order
        /\ a.todo = act[w].todo /\ a.line = act[w].line
    BY <1>0 DEF Activities, Claimable
  <2>3. act' = [act EXCEPT ![w] = a]
    BY <2>1, <1>0 DEF TypeInv, TypeOK
  <2>4. act[w].pc = "claim"
    BY <1>2 DEF claimInventoryForItem
  <2> HIDE DEF a
  <2>5. Behind(a) = Behind(act[w])
    BY <2>2, <2>4 DEF Behind
  <2> QED BY <1>0, <2>2, <2>3, <2>5 DEF RunStep, RunsGoOn
<1>3. ASSUME NEW l \in Lines, EnsureRow(w, l) PROVE RunsGoOn
  <2> DEFINE done == row[l] = "DELIVERED" \/ l \notin AutoLines
             a == [act[w] EXCEPT !.todo = @ \ {l}, !.pc = IF done THEN @ ELSE "claim",
                                 !.line = IF done THEN @ ELSE l]
  <2>1. /\ a \in Activities /\ a.order = act[w].order /\ a.todo = act[w].todo \ {l}
        /\ a.pc = (IF done THEN "lines" ELSE "claim") /\ (~done => a.line = l)
        /\ act[w].pc = "lines"
    BY <1>0, <1>3 DEF EnsureRow, Activities
  <2>2. act' = [act EXCEPT ![w] = a]
    BY <1>3 DEF EnsureRow
  <2> HIDE DEF a
  <2>3. ASSUME done PROVE NotLeftWaiting(l)'
    <3>1. row'[l] # "NONE" /\ (row'[l] = "PENDING" => row[l] # "DELIVERED")
      BY <1>3 DEF EnsureRow, TypeInv, TypeOK
    <3>2. l \notin AutoLines => method'[l] = "MANUAL"
      BY DEF ManualLines, MethodMoves
    <3> QED BY <2>3, <3>1, <3>2 DEF NotLeftWaiting
  <2>4. ASSUME NEW m \in Behind(a) PROVE m \in Behind(act[w]) \/ NotLeftWaiting(m)'
    BY <2>1, <2>3, <2>4 DEF Behind
  <2> HIDE DEF done
  <2>5. a.pc \notin {"fulfil", "advance", "count", "ready", "delivered", "notify"}
    BY <2>1
  <2> QED BY <1>0, <2>1, <2>2, <2>4, <2>5 DEF RunStep, RunsGoOn
<1>4. ASSUME NEW o \in Orders, PickUp(w, o), act' # act PROVE RunsGoOn
  <2> DEFINE a == [Idle EXCEPT !.pc = IF status[o] = "PAID" THEN "begin" ELSE "lines",
                               !.order = o, !.todo = LinesOf(o)]
  <2>1. a \in Activities /\ a.pc \in {"begin", "lines"} /\ a.order = o /\ a.todo = LinesOf(o)
    BY DEF Idle, Activities, LinesOf
  <2>2. act' = [act EXCEPT ![w] = a]
    BY <1>4 DEF PickUp
  <2> HIDE DEF a
  <2>3. Behind(a) = {}
    BY <2>1 DEF Behind
  <2> QED BY <1>0, <2>1, <2>2, <2>3 DEF RunStep, RunsGoOn
<1> QED BY <1>1, <1>2, <1>3, <1>4 DEF RunsGoOn

\* A worker is done with its line when the line is settled.
LEMMA DeliverRun ==
  ASSUME TypeInv, RowsThere, NEW w \in Workers,
         DeliverLine(w) \/ FallBackToManual(w) \/ DeliverFails(w)
  PROVE  RunsGoOn
<1>0. /\ w \in Actors /\ act[w] \in Activities /\ act[w].pc = "deliver"
      /\ act[w].line \in Lines /\ row[act[w].line] # "NONE"
  BY DEF TypeInv, TypeOK, ActsSound, Equipped, Actors, RowsThere, DeliverLine,
         FallBackToManual, DeliverFails
<1>1. CASE DeliverFails(w)
  BY <1>0, <1>1, IdleRun DEF DeliverFails, Throw, RunsGoOn
<1>2. ASSUME NEW ok \in BOOLEAN, NextLine(w, ok),
             NEW l \in Lines, l = act[w].line, NotLeftWaiting(l)'
      PROVE  RunsGoOn
  <2> DEFINE a == [act[w] EXCEPT !.pc = "lines", !.line = NoLine, !.claimed = {},
                     !.fresh = IF ok THEN @ \cup {act[w].line} ELSE @]
  <2>1. /\ a \in Activities /\ a.pc = "lines" /\ a.order = act[w].order
        /\ a.todo = act[w].todo
    BY <1>0 DEF Activities
  <2>2. act' = [act EXCEPT ![w] = a]
    BY <1>2 DEF NextLine
  <2> HIDE DEF a
  <2>3. ASSUME NEW m \in Behind(a) PROVE m \in Behind(act[w]) \/ NotLeftWaiting(m)'
    BY <1>2, <2>1, <2>3 DEF Behind
  <2> QED BY <1>0, <2>1, <2>2, <2>3 DEF RunStep, RunsGoOn
<1> DEFINE l == act[w].line
<1>3. CASE DeliverLine(w)
  <2>1. NextLine(w, TRUE) /\ row'[l] \notin {"NONE", "PENDING"}
    BY <1>0, <1>3 DEF DeliverLine, TypeInv, TypeOK
  <2>2. PICK m \in Lines : m = l
    BY <1>0
  <2>3. NotLeftWaiting(m)'
    BY <2>1, <2>2 DEF NotLeftWaiting
  <2> QED BY <1>2, <2>1, <2>2, <2>3
<1>4. CASE FallBackToManual(w)
  <2>1. /\ NextLine(w, FALSE) /\ row' = row
        /\ row[l] = "PENDING" => method'[l] = "MANUAL"
    BY <1>0, <1>4 DEF FallBackToManual, TypeInv, TypeOK
  <2>2. PICK m \in Lines : m = l
    BY <1>0
  <2>3. NotLeftWaiting(m)'
    BY <1>0, <2>1, <2>2 DEF NotLeftWaiting
  <2> QED BY <1>2, <2>1, <2>2, <2>3
<1> QED BY <1>1, <1>3, <1>4

LEMMA AgentRun ==
  ASSUME TypeInv, NEW a \in Agents,
         fulfillManually(a) \/ \E l \in HandServed : OpenDelivery(a, l)
  PROVE  RunsGoOn
<1>0. a \in Actors /\ a \notin Workers /\ act[a] \in Activities
  BY ActorsAssumption DEF TypeInv, TypeOK, Actors
<1>1. ASSUME NEW b \in Activities, act' = [act EXCEPT ![a] = b] PROVE RunsGoOn
  BY <1>0, <1>1 DEF RunStep, RunsGoOn
<1>2. CASE fulfillManually(a)
  <2>0. act[a].line \in Lines
    BY <1>0, <1>2 DEF fulfillManually, TypeInv, ActsSound, Equipped
  <2>1. [act[a] EXCEPT !.pc = "advance", !.fresh = {act[a].line}] \in Activities
    BY <1>0, <2>0 DEF Activities
  <2>2. Idle \in Activities
    BY DEF Idle, Activities
  <2>3. CASE act' = [act EXCEPT ![a] = Idle]
    BY <1>1, <2>2, <2>3
  <2>4. CASE act' = [act EXCEPT ![a].pc = "advance", ![a].fresh = {act[a].line}]
    <3>1. act' = [act EXCEPT ![a] = [act[a] EXCEPT !.pc = "advance", !.fresh = {act[a].line}]]
      BY <2>4
    <3> QED BY <1>1, <2>1, <3>1
  <2> QED BY <1>2, <2>3, <2>4 DEF fulfillManually
<1>3. ASSUME NEW l \in HandServed, OpenDelivery(a, l) PROVE RunsGoOn
  <2>1. [Idle EXCEPT !.pc = "fulfil", !.order = OrderOf[l], !.line = l] \in Activities
    BY LinesAssumption, ActorsAssumption DEF Idle, Activities
  <2> QED BY <1>1, <1>3, <2>1 DEF OpenDelivery
<1> QED BY <1>2, <1>3

LEMMA RunsStep ==
  ASSUME TypeInv, RowsThere, ManualLines, MethodMoves, WorkersPlaced, [Next]_vars
  PROVE  RunsGoOn
<1>1. CASE act' = act
  BY <1>1 DEF RunsGoOn
<1>2. CASE \E o \in Orders : Pay(o) \/ Dispatch(o) \/ Forget(o) \/ Stall(o)
  BY <1>1, <1>2 DEF Pay, Dispatch, Forget, Stall
<1>3. CASE \E o \in Orders, to \in StaffTargets : StaffTransition(o, to)
  BY <1>1, <1>3 DEF StaffTransition
<1>4. CASE \E i \in Withdrawn : disable(i)
  BY <1>1, <1>4 DEF disable
<1>5. CASE \E w \in Workers, o \in Orders : PickUp(w, o)
  BY <1>5, LineRun
<1>6. CASE \E w \in Workers : Work(w)
  BY <1>6, LineRun, DeliverRun, AdvanceRun DEF Work, Actors
<1>7. CASE \E x \in Mortal : Crash(x)
  BY <1>7, IdleRun, ActorsAssumption DEF Crash, Actors, RunsGoOn
<1>8. CASE \E a \in Agents : Help(a) \/ \E l \in HandServed : OpenDelivery(a, l)
  BY <1>8, AgentRun, AdvanceRun DEF Help, Actors
<1>9. CASE UNCHANGED vars
  BY <1>1, <1>9 DEF vars
<1> QED BY <1>2, <1>3, <1>4, <1>5, <1>6, <1>7, <1>8, <1>9 DEF Next

LEMMA InitWatch == Init => WatchInv
<1> SUFFICES ASSUME Init PROVE ManualLines /\ WorkersPlaced /\ RunsSound /\ NoLineLeftWaiting
  BY InitRows DEF WatchInv
<1>1. \A x \in Actors : act[x] = Idle /\ Behind(act[x]) = {}
  BY NobodysLines DEF Init, Behind, Idle
<1> QED BY <1>1 DEF Init, ManualLines, WorkersPlaced, RunsSound, NoLineLeftWaiting, Idle, Actors

LEMMA NextWatch == WatchInv /\ [Next]_vars => WatchInv'
<1> SUFFICES ASSUME WatchInv, [Next]_vars PROVE WatchInv'
  OBVIOUS
<1>0. TypeInv /\ RowsThere /\ ManualLines /\ WorkersPlaced /\ RunsSound /\ NoLineLeftWaiting
  BY DEF WatchInv, RowInv
<1>1. RowInv' /\ RowMoves
  BY <1>0, NextType, RowsThereNext, NextShape DEF RowInv
<1>2. MethodMoves
  BY <1>0, MethodStep
<1>3. NotWaitingStays
  BY <1>0, <1>1, <1>2, NotWaitingStep
<1>4. RunsGoOn /\ JobMoves
  BY <1>0, <1>2, RunsStep, JobStep
<1>5. ManualLines'
  BY <1>0, <1>2 DEF ManualLines, MethodMoves
<1>6. WorkersPlaced' /\ RunsSound'
  <2>1. ASSUME act' = act PROVE WorkersPlaced' /\ RunsSound'
    <3>1. ASSUME NEW w \in Workers, NEW l \in Behind(act'[w]) PROVE NotLeftWaiting(l)'
      BY <1>0, <1>3, <2>1, <3>1 DEF RunsSound, NotWaitingStays, Behind, LinesOf
    <3> QED BY <1>0, <2>1, <3>1 DEF WorkersPlaced, RunsSound
  <2>2. ASSUME NEW x \in Actors, NEW a \in Activities, RunStep(x, a)
        PROVE  WorkersPlaced' /\ RunsSound'
    <3>1. ASSUME NEW w \in Workers PROVE act'[w] = IF w = x THEN a ELSE act[w]
      BY <1>0, <2>2 DEF RunStep, TypeInv, TypeOK, Actors
    <3>2. ASSUME NEW w \in Workers, NEW l \in Behind(act'[w]) PROVE NotLeftWaiting(l)'
      <4>1. l \in Behind(act[w]) \/ NotLeftWaiting(l)'
        BY <2>2, <3>1, <3>2 DEF RunStep
      <4>2. l \in Lines
        BY <3>2 DEF Behind, LinesOf
      <4> QED BY <1>0, <1>3, <4>1, <4>2 DEF RunsSound, NotWaitingStays
    <3> QED BY <1>0, <2>2, <3>1, <3>2 DEF RunStep, WorkersPlaced, RunsSound
  <2> QED BY <1>4, <2>1, <2>2 DEF RunsGoOn
<1>7. NoLineLeftWaiting'
  <2> SUFFICES ASSUME NEW o \in Orders, job'[o] = "completed", NEW l \in LinesOf(o)
               PROVE  NotLeftWaiting(l)'
    BY DEF NoLineLeftWaiting, LinesOf
  <2>0. l \in Lines
    BY DEF LinesOf
  <2>1. CASE job[o] = "completed"
    BY <1>0, <1>3, <2>0, <2>1 DEF NoLineLeftWaiting, NotWaitingStays
  <2>2. ASSUME NEW w \in Workers, act[w].pc = "notify", act[w].order = o PROVE NotLeftWaiting(l)'
    <3>1. l \in Behind(act[w])
      BY <1>0, <2>2 DEF WorkersPlaced, Behind
    <3> QED BY <1>0, <1>3, <2>0, <3>1 DEF RunsSound, NotWaitingStays
  <2> QED BY <1>4, <2>1, <2>2 DEF JobMoves
<1> QED BY <1>1, <1>5, <1>6, <1>7 DEF WatchInv

\* When a run of the job has ended well, every line of the order has a row, and one
\* still waiting is on the list agents work from: for any number of lines and workers,
\* however often the job stalled or was retried, whoever died, and whatever staff made
\* of the order. Of a row marked FAILED it says only that it waits no more.
THEOREM NoLineIsLeftWaiting == Spec => []NoLineLeftWaiting
<1>1. WatchInv => NoLineLeftWaiting
  BY DEF WatchInv
<1> QED BY InitWatch, NextWatch, <1>1, PTL DEF Spec

-----------------------------------------------------------------------------
(* Who calls an order delivered too early *)

\* A run that counted nothing outstanding and goes to say DELIVERED.
Clears(a) == a.pc = "delivered" \/ (a.pc = "ready" /\ a.clear)

AllDelivered(o) == \A l \in LinesOf(o) : row[l] = "DELIVERED"

ClearsRightly == \A w \in Workers : Clears(act[w]) => AllDelivered(act[w].order)

CallInv == WatchInv /\ ClearsRightly

\* How a run comes to that: by its own count.
ClearMoves ==
  \A w \in Workers :
    Clears(act'[w]) =>
      /\ act'[w].order = act[w].order
      /\ \/ Clears(act[w])
         \/ /\ act[w].pc = "count"
            /\ \A l \in LinesOf(act[w].order) : row[l] \in {"NONE", "DELIVERED"}

LEMMA NotClearing ==
  ASSUME TypeInv, NEW x \in Actors, NEW a, act' = [act EXCEPT ![x] = a],
         a.pc \notin {"ready", "delivered"}
  PROVE  ClearMoves
BY DEF ClearMoves, Clears, TypeInv, TypeOK, Actors

LEMMA AdvanceClears ==
  ASSUME TypeInv, NEW x \in Actors, Advance(x)
  PROVE  ClearMoves
<1>0. act \in [Actors -> Activities] /\ act[x] \in Activities
  BY DEF TypeInv, TypeOK
<1>1. CASE AdvanceRead(x)
  <2> DEFINE a == [act[x] EXCEPT
                     !.pc = IF status[act[x].order] \in FULFILLABLE THEN "count" ELSE "notify",
                     !.saw = IF status[act[x].order] \in FULFILLABLE THEN status[act[x].order] ELSE @]
  <2>1. a.pc \notin {"ready", "delivered"}
    BY <1>0 DEF Activities
  <2>2. act' = [act EXCEPT ![x] = a]
    BY <1>1 DEF AdvanceRead
  <2> HIDE DEF a
  <2> QED BY <2>1, <2>2, NotClearing
<1>2. CASE AdvanceCount(x)
  <2> DEFINE clear == \A l \in LinesOf(act[x].order) : row[l] \in {"NONE", "DELIVERED"}
             a == [act[x] EXCEPT !.pc = Then(act[x].saw, clear), !.saw = "none",
                                 !.clear = clear /\ act[x].saw = "PROCESSING"]
  <2>1. /\ a.order = act[x].order /\ a.pc = Then(act[x].saw, clear)
        /\ a.clear = (clear /\ act[x].saw = "PROCESSING")
    BY <1>0 DEF Activities
  <2>2. act' = [act EXCEPT ![x] = a] /\ act[x].pc = "count"
    BY <1>2 DEF AdvanceCount
  <2>0. clear \in BOOLEAN
    OBVIOUS
  <2> HIDE DEF clear, a
  <2>3. Clears(a) => clear
    BY <2>0, <2>1 DEF Clears, Then
  <2>4. ASSUME NEW w \in Workers, Clears(act'[w]), w = x
        PROVE  act'[w].order = act[w].order /\ act[w].pc = "count" /\ clear
    BY <1>0, <2>1, <2>2, <2>3, <2>4
  <2>5. ASSUME NEW w \in Workers, w # x PROVE act'[w] = act[w]
    BY <1>0, <2>2, <2>5 DEF Actors
  <2>6. clear => \A l \in LinesOf(act[x].order) : row[l] \in {"NONE", "DELIVERED"}
    BY DEF clear
  <2> QED BY <2>4, <2>5, <2>6 DEF ClearMoves
<1>3. ASSUME NEW pc \in {"ready", "delivered"}, NEW to, NEW next, AdvanceMove(x, pc, to, next),
             next = "notify" \/ (pc = "ready" /\ next = "delivered" /\ act[x].clear)
      PROVE  ClearMoves
  <2>1. CASE act' = [act EXCEPT ![x].pc = next, ![x].clear = FALSE]
    <3> DEFINE a == [act[x] EXCEPT !.pc = next, !.clear = FALSE]
    <3>1. a.pc = next /\ a.order = act[x].order
      BY <1>0 DEF Activities
    <3>2. act' = [act EXCEPT ![x] = a] /\ act[x].pc = pc
      BY <1>3, <2>1 DEF AdvanceMove
    <3> HIDE DEF a
    <3>3. Clears(a) => Clears(act[x])
      BY <1>3, <3>1, <3>2 DEF Clears
    <3> QED BY <1>0, <3>1, <3>2, <3>3 DEF ClearMoves, Actors
  <2>2. CASE act' = [act EXCEPT ![x] = Idle]
    BY <2>2, NotClearing DEF Idle
  <2> QED BY <1>3, <2>1, <2>2 DEF AdvanceMove, Throw
<1>4. CASE Notify(x)
  BY <1>4, NotClearing DEF Notify, Idle
<1>5. CASE AdvanceReady(x)
  BY <1>3, <1>5 DEF AdvanceReady
<1>6. CASE AdvanceDelivered(x)
  BY <1>3, <1>6 DEF AdvanceDelivered
<1> QED BY <1>1, <1>2, <1>4, <1>5, <1>6 DEF Advance

LEMMA WorkClears ==
  ASSUME TypeInv, NEW w \in Workers, Work(w) \/ \E o \in Orders : PickUp(w, o)
  PROVE  ClearMoves
<1>0. w \in Actors /\ act \in [Actors -> Activities] /\ act[w] \in Activities
  BY DEF TypeInv, TypeOK, Actors
<1>1. ASSUME act' = act PROVE ClearMoves
  BY <1>1 DEF ClearMoves
<1>2. ASSUME act' = [act EXCEPT ![w] = Idle] PROVE ClearMoves
  BY <1>0, <1>2, NotClearing DEF Idle
<1>3. CASE Begin(w)
  <2>1. CASE act' = [act EXCEPT ![w].pc = "lines"]
    <3>1. act' = [act EXCEPT ![w] = [act[w] EXCEPT !.pc = "lines"]]
      BY <2>1
    <3>2. [act[w] EXCEPT !.pc = "lines"].pc = "lines"
      BY <1>0 DEF Activities
    <3> QED BY <1>0, <3>1, <3>2, NotClearing
  <2> QED BY <1>2, <1>3, <2>1 DEF Begin, Throw
<1>4. CASE claimInventoryForItem(w)
  <2>1. PICK claimed : act' = [act EXCEPT ![w].pc = "deliver", ![w].claimed = claimed]
    BY <1>4 DEF claimInventoryForItem
  <2>2. act' = [act EXCEPT ![w] = [act[w] EXCEPT !.pc = "deliver", !.claimed = claimed]]
    BY <2>1, <1>0
  <2>3. [act[w] EXCEPT !.pc = "deliver", !.claimed = claimed].pc = "deliver"
    BY <1>0 DEF Activities
  <2> QED BY <1>0, <2>2, <2>3, NotClearing
<1>5. ASSUME NEW l \in Lines, EnsureRow(w, l) PROVE ClearMoves
  <2> DEFINE done == row[l] = "DELIVERED" \/ l \notin AutoLines
             a == [act[w] EXCEPT !.todo = @ \ {l}, !.pc = IF done THEN @ ELSE "claim",
                                 !.line = IF done THEN @ ELSE l]
  <2>1. a.pc \in {"lines", "claim"}
    BY <1>0, <1>5 DEF EnsureRow, Activities
  <2>2. act' = [act EXCEPT ![w] = a]
    BY <1>5 DEF EnsureRow
  <2> HIDE DEF a
  <2> QED BY <1>0, <2>1, <2>2, NotClearing
<1>6. ASSUME NEW ok, NextLine(w, ok) PROVE ClearMoves
  <2> DEFINE a == [act[w] EXCEPT !.pc = "lines", !.line = NoLine, !.claimed = {},
                     !.fresh = IF ok THEN @ \cup {act[w].line} ELSE @]
  <2>1. a.pc = "lines"
    BY <1>0 DEF Activities
  <2>2. act' = [act EXCEPT ![w] = a]
    BY <1>6 DEF NextLine
  <2> HIDE DEF a
  <2> QED BY <1>0, <2>1, <2>2, NotClearing
<1>7. CASE DeliverLine(w) \/ FallBackToManual(w) \/ DeliverFails(w)
  BY <1>2, <1>6, <1>7 DEF DeliverLine, FallBackToManual, DeliverFails, Throw
<1>8. CASE Advance(w)
  BY <1>0, <1>8, AdvanceClears
<1>9. ASSUME NEW o \in Orders, PickUp(w, o), act' # act PROVE ClearMoves
  <2> DEFINE a == [Idle EXCEPT !.pc = IF status[o] = "PAID" THEN "begin" ELSE "lines",
                               !.order = o, !.todo = LinesOf(o)]
  <2>1. a.pc \in {"begin", "lines"}
    BY DEF Idle
  <2>2. act' = [act EXCEPT ![w] = a]
    BY <1>9 DEF PickUp
  <2> HIDE DEF a
  <2> QED BY <1>0, <2>1, <2>2, NotClearing
<1> QED BY <1>1, <1>3, <1>4, <1>5, <1>7, <1>8, <1>9 DEF Work

LEMMA ClearStep ==
  ASSUME TypeInv, [Next]_vars
  PROVE  ClearMoves
<1>1. CASE act' = act
  BY <1>1 DEF ClearMoves
<1>2. ASSUME NEW w \in Workers, Work(w) \/ \E o \in Orders : PickUp(w, o) PROVE ClearMoves
  BY <1>2, WorkClears
<1>3. ASSUME NEW x \in Mortal, Crash(x) PROVE ClearMoves
  BY <1>3, ActorsAssumption, NotClearing DEF Crash, Idle, Actors
<1>4. ASSUME NEW a \in Agents, Help(a) \/ \E l \in HandServed : OpenDelivery(a, l) PROVE ClearMoves
  <2>1. a \in Actors
    BY DEF Actors
  <2>2. CASE Advance(a)
    BY <2>1, <2>2, AdvanceClears
  <2>3. CASE fulfillManually(a) \/ \E l \in HandServed : OpenDelivery(a, l)
    <3>1. a \notin Workers
      BY ActorsAssumption
    <3>2. CASE fulfillManually(a)
      <4>1. \A w \in Workers : act'[w] = act[w]
        BY <2>1, <3>1, <3>2 DEF fulfillManually, TypeInv, TypeOK, Actors
      <4> QED BY <4>1 DEF ClearMoves
    <3>3. ASSUME NEW l \in HandServed, OpenDelivery(a, l) PROVE ClearMoves
      <4>1. \A w \in Workers : act'[w] = act[w]
        BY <2>1, <3>1, <3>3 DEF OpenDelivery, TypeInv, TypeOK, Actors
      <4> QED BY <4>1 DEF ClearMoves
    <3> QED BY <2>3, <3>2, <3>3
  <2> QED BY <1>4, <2>2, <2>3 DEF Help
<1>5. CASE ~(\/ \E w \in Workers : Work(w) \/ \E o \in Orders : PickUp(w, o)
             \/ \E x \in Mortal : Crash(x)
             \/ \E a \in Agents : Help(a) \/ \E l \in HandServed : OpenDelivery(a, l))
  <2>1. act' = act
    BY <1>5 DEF Next, Pay, Dispatch, Forget, Stall, StaffTransition, disable, vars
  <2> QED BY <1>1, <2>1
<1> QED BY <1>2, <1>3, <1>4, <1>5

LEMMA NextCalls == CallInv /\ [Next]_vars => CallInv'
<1> SUFFICES ASSUME CallInv, [Next]_vars PROVE CallInv'
  OBVIOUS
<1>1. WatchInv /\ WatchInv' /\ TypeInv /\ RowsThere
  BY NextWatch DEF CallInv, WatchInv, RowInv
<1>2. RowMoves /\ ClearMoves
  BY <1>1, NextShape, ClearStep
<1>3. ASSUME NEW w \in Workers, Clears(act'[w]), NEW l \in LinesOf(act'[w].order)
      PROVE  row'[l] = "DELIVERED"
  <2>1. l \in Lines /\ l \in LinesOf(act[w].order)
    BY <1>2, <1>3 DEF ClearMoves, LinesOf
  <2>2. row[l] = "DELIVERED"
    <3>1. CASE Clears(act[w])
      BY <2>1, <3>1 DEF CallInv, ClearsRightly, AllDelivered
    <3>2. CASE act[w].pc = "count" /\ row[l] \in {"NONE", "DELIVERED"}
      <4>1. l \in Behind(act[w])
        BY <1>1, <2>1, <3>2 DEF Behind, WatchInv, WorkersPlaced
      <4>2. NotLeftWaiting(l)
        BY <1>1, <4>1 DEF WatchInv, RunsSound
      <4> QED BY <3>2, <4>2 DEF NotLeftWaiting
    <3> QED BY <1>2, <1>3, <2>1, <3>1, <3>2 DEF ClearMoves
  <2> QED BY <1>2, <2>1, <2>2 DEF RowMoves
<1>4. ClearsRightly'
  BY <1>3 DEF ClearsRightly, AllDelivered, LinesOf
<1> QED BY <1>1, <1>4 DEF CallInv

LEMMA InitCalls == Init => CallInv
<1> SUFFICES ASSUME Init PROVE ClearsRightly
  BY InitWatch DEF CallInv
<1> QED BY DEF Init, ClearsRightly, Clears, Idle, Actors

\* Whoever makes an order DELIVERED.
CallsDelivered(o) ==
  \/ \E x \in Actors : AdvanceDelivered(x) /\ act[x].order = o
  \/ "DELIVERED" \in StaffTargets /\ StaffTransition(o, "DELIVERED")

LEMMA DeliveredBy ==
  ASSUME TypeInv, [Next]_vars, NEW o \in Orders, status[o] # "DELIVERED", status'[o] = "DELIVERED"
  PROVE  CallsDelivered(o)
<1>0. status \in [Orders -> Statuses]
  BY DEF TypeInv, TypeOK
<1>1. CASE UNCHANGED status
  BY <1>1
<1>2. ASSUME NEW p \in Orders, Pay(p) PROVE CallsDelivered(o)
  BY <1>0, <1>2 DEF Pay
<1>3. ASSUME NEW p \in Orders, NEW to \in StaffTargets, StaffTransition(p, to)
      PROVE  CallsDelivered(o)
  BY <1>0, <1>3 DEF StaffTransition, CallsDelivered
<1>4. ASSUME NEW w \in Workers, Begin(w) PROVE CallsDelivered(o)
  BY <1>0, <1>4 DEF Begin
<1>5. ASSUME NEW x \in Actors, Advance(x), ~UNCHANGED status PROVE CallsDelivered(o)
  <2>1. AdvanceReady(x) \/ AdvanceDelivered(x)
    BY <1>5 DEF Advance, AdvanceRead, AdvanceCount, Notify
  <2>2. CASE AdvanceReady(x)
    BY <1>0, <2>2 DEF AdvanceReady, AdvanceMove
  <2>3. CASE AdvanceDelivered(x)
    <3>1. act[x].order = o
      BY <1>0, <2>3 DEF AdvanceDelivered, AdvanceMove
    <3> QED BY <2>3, <3>1 DEF CallsDelivered
  <2> QED BY <2>1, <2>2, <2>3
<1>6. ASSUME NEW w \in Workers, Work(w) PROVE UNCHANGED status \/ Begin(w) \/ Advance(w)
  BY <1>6 DEF Work, EnsureRow, claimInventoryForItem, DeliverLine, FallBackToManual, DeliverFails
<1>7. ASSUME NEW a \in Agents, Help(a) PROVE UNCHANGED status \/ Advance(a)
  BY <1>7 DEF Help, fulfillManually
<1>8. CASE ~(\/ \E p \in Orders : Pay(p)
             \/ \E p \in Orders, to \in StaffTargets : StaffTransition(p, to)
             \/ \E w \in Workers : Work(w)
             \/ \E a \in Agents : Help(a))
  <2>1. UNCHANGED status
    BY <1>8 DEF Next, Dispatch, Forget, Stall, disable, PickUp, Crash, OpenDelivery, vars
  <2> QED BY <1>1, <2>1
<1> QED BY <1>1, <1>2, <1>3, <1>4, <1>5, <1>6, <1>7, <1>8 DEF Actors

\* advanceOrderAfterFulfillment does for workers what its comment says of everyone:
\* an order becomes DELIVERED with a line outstanding only by an agent's hand, or
\* by staff's.
OnlyPeopleCallEarly ==
  [][\A o \in Orders :
       status[o] # "DELIVERED" /\ status'[o] = "DELIVERED" /\ ~AllDelivered(o) =>
         \/ \E a \in Agents : AdvanceDelivered(a) /\ act[a].order = o
         \/ "DELIVERED" \in StaffTargets /\ StaffTransition(o, "DELIVERED")]_vars

\* However many workers run the job of an order, and however often, none of them
\* makes it DELIVERED before every line is: only agents and staff can.
THEOREM WorkersAreNotEarly == Spec => OnlyPeopleCallEarly
<1>1. CallInv /\ [Next]_vars =>
        [\A o \in Orders :
           status[o] # "DELIVERED" /\ status'[o] = "DELIVERED" /\ ~AllDelivered(o) =>
             \/ \E a \in Agents : AdvanceDelivered(a) /\ act[a].order = o
             \/ "DELIVERED" \in StaffTargets /\ StaffTransition(o, "DELIVERED")]_vars
  <2> SUFFICES ASSUME CallInv, [Next]_vars, NEW o \in Orders,
                      status[o] # "DELIVERED", status'[o] = "DELIVERED", ~AllDelivered(o)
               PROVE  \/ \E a \in Agents : AdvanceDelivered(a) /\ act[a].order = o
                      \/ "DELIVERED" \in StaffTargets /\ StaffTransition(o, "DELIVERED")
    OBVIOUS
  <2>1. CallsDelivered(o)
    BY DeliveredBy DEF CallInv, WatchInv, RowInv
  <2>2. ASSUME NEW w \in Workers, AdvanceDelivered(w), act[w].order = o PROVE FALSE
    <3>1. Clears(act[w])
      BY <2>2 DEF AdvanceDelivered, AdvanceMove, Clears
    <3> QED BY <2>2, <3>1 DEF CallInv, ClearsRightly
  <2> QED BY <2>1, <2>2 DEF CallsDelivered, Actors
<1> QED BY InitCalls, NextCalls, <1>1, PTL DEF Spec, OnlyPeopleCallEarly

\* Where no agent fulfils by hand and staff do not set the status themselves, a
\* DELIVERED order has every line delivered, which the run with an agent refutes.
THEOREM DeliveredWithoutAgents ==
  ASSUME Agents = {}, "DELIVERED" \notin StaffTargets
  PROVE  Spec => []DeliveredMeansEveryLine
<1>1. Init => CallInv /\ DeliveredMeansEveryLine
  BY InitCalls DEF Init, DeliveredMeansEveryLine
<1>2. CallInv /\ DeliveredMeansEveryLine /\ [Next]_vars => CallInv' /\ DeliveredMeansEveryLine'
  <2> SUFFICES ASSUME CallInv, DeliveredMeansEveryLine, [Next]_vars,
                      NEW o \in Orders, status'[o] = "DELIVERED", NEW l \in LinesOf(o)
               PROVE  row'[l] = "DELIVERED"
    BY NextCalls DEF DeliveredMeansEveryLine, LinesOf
  <2>1. TypeInv /\ RowsThere /\ l \in Lines
    BY DEF CallInv, WatchInv, RowInv, LinesOf
  <2>2. RowMoves
    BY <2>1, NextShape
  <2>3. row[l] = "DELIVERED"
    <3>1. CASE status[o] = "DELIVERED"
      BY <3>1 DEF DeliveredMeansEveryLine
    <3>2. CASE status[o] # "DELIVERED"
      <4>1. PICK w \in Workers : AdvanceDelivered(w) /\ act[w].order = o
        BY <2>1, <3>2, DeliveredBy DEF CallsDelivered, Actors
      <4>2. Clears(act[w])
        BY <4>1 DEF AdvanceDelivered, AdvanceMove, Clears
      <4> QED BY <4>1, <4>2 DEF CallInv, ClearsRightly, AllDelivered
    <3> QED BY <3>1, <3>2
  <2> QED BY <2>1, <2>2, <2>3 DEF RowMoves
<1> QED BY <1>1, <1>2, PTL DEF Spec
=============================================================================
