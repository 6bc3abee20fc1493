----------------------------- MODULE OrderStates -----------------------------
(***************************************************************************)
(* The order life cycle of packages/shared/src/enums/order.ts and the      *)
(* check every status change goes through (orders/order-state-machine.ts). *)
(* Pure definitions: every module that moves an order extends this one.    *)
(***************************************************************************)
EXTENDS Naturals, Sequences

Statuses ==
  {"CREATED", "PENDING_PAYMENT", "PAYMENT_SUBMITTED", "PAYMENT_REVIEW",
   "PAID", "PROCESSING", "READY_FOR_DELIVERY", "DELIVERED", "COMPLETED",
   "CANCELLED", "REFUNDED", "DISPUTED"}

ORDER_TRANSITIONS ==
  [s \in Statuses |->
    CASE s = "CREATED"            -> {"PENDING_PAYMENT", "CANCELLED"}
      [] s = "PENDING_PAYMENT"    -> {"PAYMENT_SUBMITTED", "CANCELLED"}
      [] s = "PAYMENT_SUBMITTED"  -> {"PAYMENT_REVIEW", "CANCELLED"}
      [] s = "PAYMENT_REVIEW"     -> {"PAID", "PENDING_PAYMENT", "CANCELLED"}
      [] s = "PAID"               -> {"PROCESSING", "REFUNDED", "DISPUTED"}
      [] s = "PROCESSING"         -> {"READY_FOR_DELIVERY", "DISPUTED"}
      [] s = "READY_FOR_DELIVERY" -> {"DELIVERED", "DISPUTED"}
      [] s = "DELIVERED"          -> {"COMPLETED", "DISPUTED"}
      [] s = "COMPLETED"          -> {"DISPUTED", "REFUNDED"}
      [] s = "DISPUTED"           -> {"REFUNDED", "COMPLETED", "CANCELLED"}
      [] OTHER                    -> {}]

\* assertTransitionAllowed. A status outside Statuses stands for an order row
\* that does not exist, out of which nothing moves.
Allowed(from, to) == from \in Statuses /\ to \in ORDER_TRANSITIONS[from]

\* Several transitions made one after the other inside one transaction: the
\* intermediate statuses are never visible to another transaction.
CanWalk(from, path) ==
  /\ Allowed(from, path[1])
  /\ \A k \in 2 .. Len(path) : Allowed(path[k - 1], path[k])

\* HOLDING_STOCK, OPEN_UNPAID and CREDITABLE_ORDER_STATUSES are the same four
\* statuses in three files: not paid, and still holding a reservation.
OpenStatuses == {"CREATED", "PENDING_PAYMENT", "PAYMENT_SUBMITTED", "PAYMENT_REVIEW"}

CUSTOMER_CANCELLABLE_STATUSES == {"CREATED", "PENDING_PAYMENT"}

\* Paid for, and neither refunded nor cancelled.
KeptStatuses ==
  {"PAID", "PROCESSING", "READY_FOR_DELIVERY", "DELIVERED", "COMPLETED", "DISPUTED"}
=============================================================================
