----------------------------- MODULE OrdersProofs -----------------------------
(***************************************************************************)
(* What Orders guarantees for any number of customers, orders, items and   *)
(* proofs and any bounds.                                                  *)
(***************************************************************************)
EXTENDS Orders, FiniteSetTheorems, TLAPS

\* The state changes every transition is made of, one lemma each: what they do to
\* the types is then the same in each action that uses them.
LEMMA PutBackType ==
  ASSUME TypeOK, NEW o \in Orders, NEW free, NEW detached, PutBack(o, free, detached)
  PROVE  /\ itemStatus' \in [Items -> {"ABSENT", "AVAILABLE", "RESERVED", "SOLD", "DISABLED"}]
         /\ itemOrder' \in [Items -> Orders \cup {NoOrder}]
         /\ stock' \in Nat
         /\ returned' \in [Orders -> Nat]
<1>1. /\ itemStatus' \in [Items -> {"ABSENT", "AVAILABLE", "RESERVED", "SOLD", "DISABLED"}]
      /\ itemOrder' \in [Items -> Orders \cup {NoOrder}]
  BY DEF TypeOK, PutBack
<1>2. stock' \in Nat /\ returned' \in [Orders -> Nat]
  <2>1. Pieces[o] \in Nat /\ stock \in Nat /\ returned[o] \in Nat /\ returned \in [Orders -> Nat]
    BY CartAssumption DEF TypeOK
  <2>2. QED BY <2>1 DEF PutBack
<1>3. QED BY <1>1, <1>2

LEMMA HandBackType ==
  ASSUME TypeOK, NEW o \in Orders, HandBackDiscounts(o)
  PROVE  /\ gifted' \subseteq Orders
         /\ giftOrder' \in [Customers -> Orders \cup {NoOrder}]
         /\ redemptions' \subseteq Orders
         /\ timesRedeemed' \in Nat
BY DEF TypeOK, HandBackDiscounts, releaseWelcomeGift, releaseForOrder

OrderTypes ==
  /\ status \in [Orders -> RowStatuses]
  /\ paidBy \in [Orders -> Payers \cup {Nobody}]
  /\ itemStatus \in [Items -> {"ABSENT", "AVAILABLE", "RESERVED", "SOLD", "DISABLED"}]
  /\ itemOrder \in [Items -> Orders \cup {NoOrder}]
  /\ stock \in Nat
  /\ returned \in [Orders -> Nat]
  /\ gifted \subseteq Orders
  /\ giftOrder \in [Customers -> Orders \cup {NoOrder}]
  /\ verified \subseteq Customers
  /\ redemptions \subseteq Orders
  /\ timesRedeemed \in Nat

LEMMA CancelType ==
  ASSUME TypeOK, NEW o \in Orders, Cancel(o)
  PROVE  OrderTypes'
<1>1. /\ status' \in [Orders -> RowStatuses]
      /\ paidBy' \in [Orders -> Payers \cup {Nobody}]
      /\ verified' \subseteq Customers
  BY DEF TypeOK, Cancel, RowStatuses, Statuses, Payers
<1>2. QED
  BY <1>1, PutBackType, HandBackType DEF Cancel, releaseInventoryForOrder, OrderTypes

LEMMA SettleType ==
  ASSUME TypeOK, NEW o \in Orders, NEW p \in Payers, Settle(o, p)
  PROVE  OrderTypes'
BY OwnerAssumption
   DEF TypeOK, Settle, markIndividualItemsSold, perks, RowStatuses, Statuses, Payers, OrderTypes

LEMMA StepType ==
  ASSUME TypeOK, NEW o \in Orders, NEW to \in Statuses, Step(o, to)
  PROVE  OrderTypes'
BY DEF TypeOK, Step, goods, perks, RowStatuses, Payers, OrderTypes

LEMMA UnchangedType ==
  ASSUME TypeOK, UNCHANGED orderVars
  PROVE  OrderTypes'
BY DEF TypeOK, orderVars, goods, perks, RowStatuses, Payers, OrderTypes

LEMMA ReserveType ==
  ASSUME TypeOK, NEW o \in Orders, NEW into \in {"RESERVED", "SOLD"}, Reserve(o, into)
  PROVE  /\ itemStatus' \in [Items -> {"ABSENT", "AVAILABLE", "RESERVED", "SOLD", "DISABLED"}]
         /\ itemOrder' \in [Items -> Orders \cup {NoOrder}]
         /\ stock' \in Nat
         /\ returned' \in [Orders -> Nat]
BY CartAssumption DEF TypeOK, Reserve

LEMMA TakeType ==
  ASSUME TypeOK, NEW o \in Orders, NEW discounts, TakeDiscounts(o, discounts)
  PROVE  /\ gifted' \subseteq Orders
         /\ giftOrder' \in [Customers -> Orders \cup {NoOrder}]
         /\ redemptions' \subseteq Orders
         /\ timesRedeemed' \in Nat
BY OwnerAssumption DEF TypeOK, TakeDiscounts, claimWelcomeGift, redeem

\* What an action does beside the order: proofs, requests and the rest.
OtherTypes ==
  /\ supplied \in Int
  /\ proofStatus \in [Proofs -> {"UNUSED", "PENDING", "APPROVED", "REJECTED", "GONE"}]
  /\ proofOrder \in [Proofs -> Orders \cup {NoOrder}]
  /\ banned \subseteq Customers
  /\ overdue \subseteq Orders /\ stale \subseteq Orders
  /\ requests \subseteq Requests

LEMMA TypeParts == TypeOK <=> OrderTypes /\ OtherTypes
BY DEF TypeOK, OrderTypes, OtherTypes

LEMMA BeginType ==
  ASSUME TypeOK, NEW r \in Requests, Begin(r)
  PROVE  TypeOK'
<1>1. OrderTypes' BY UnchangedType DEF Begin
<1>2. OtherTypes' BY DEF TypeOK, Begin, OtherTypes, proofs
<1>3. QED BY <1>1, <1>2, TypeParts DEF TypeOK, OrderTypes, OtherTypes

LEMMA ServeType ==
  ASSUME TypeOK, NEW r \in requests, Serve(r)
  PROVE  TypeOK'
<1>0. r \in Requests BY DEF TypeOK
<1>1. CASE Checkout(r)
  <2>1. r.order \in Orders BY <1>0, <1>1 DEF Requests, Checkout
  <2>2. /\ itemStatus' \in [Items -> {"ABSENT", "AVAILABLE", "RESERVED", "SOLD", "DISABLED"}]
        /\ itemOrder' \in [Items -> Orders \cup {NoOrder}]
        /\ stock' \in Nat
        /\ returned' \in [Orders -> Nat]
    BY <1>1, <2>1, ReserveType DEF Checkout
  <2>3. /\ gifted' \subseteq Orders
        /\ giftOrder' \in [Customers -> Orders \cup {NoOrder}]
        /\ redemptions' \subseteq Orders
        /\ timesRedeemed' \in Nat
    BY <1>1, <2>1, TakeType DEF Checkout
  <2>4. /\ status' \in [Orders -> RowStatuses]
        /\ paidBy' \in [Orders -> Payers \cup {Nobody}]
        /\ verified' \subseteq Customers
    BY <1>1, <2>1, OwnerAssumption DEF Checkout, TypeOK, RowStatuses, Statuses, Payers
  <2>5. OtherTypes' BY <1>1 DEF Checkout, TypeOK, OtherTypes, proofs
  <2>6. QED BY <2>2, <2>3, <2>4, <2>5 DEF TypeOK, OtherTypes
<1>2. CASE cancelByCustomer(r)
  <2>1. r.order \in Orders BY <1>0, <1>2 DEF Requests, cancelByCustomer
  <2>2. OrderTypes' BY <1>2, <2>1, CancelType DEF cancelByCustomer
  <2>3. OtherTypes' BY <1>2 DEF cancelByCustomer, TypeOK, OtherTypes, proofs
  <2>4. QED BY <2>2, <2>3 DEF TypeOK, OrderTypes, OtherTypes
<1>3. CASE uploadProof(r)
  <2>1. r.order \in Orders BY <1>0, <1>3 DEF Requests, uploadProof
  <2>2. OrderTypes'
    BY <1>3, <2>1 DEF uploadProof, TypeOK, OrderTypes, goods, perks, RowStatuses, Statuses, Payers
  <2>3. OtherTypes' BY <1>3, <2>1 DEF uploadProof, TypeOK, OtherTypes
  <2>4. QED BY <2>2, <2>3 DEF TypeOK, OrderTypes, OtherTypes
<1>4. CASE BanCancel(r)
  <2>1. r.order \in Orders BY <1>0, <1>4 DEF Requests, BanCancel
  <2>2. OrderTypes' BY <1>4, <2>1, CancelType DEF BanCancel
  <2>3. OtherTypes' BY <1>4 DEF BanCancel, TypeOK, OtherTypes
  <2>4. QED BY <2>2, <2>3 DEF TypeOK, OrderTypes, OtherTypes
<1>5. CASE deleteOrder(r)
  <2> DEFINE o == r.order
  <2>1. o \in Orders BY <1>0, <1>5 DEF Requests, deleteOrder
  <2>2. /\ itemStatus' \in [Items -> {"ABSENT", "AVAILABLE", "RESERVED", "SOLD", "DISABLED"}]
        /\ itemOrder' \in [Items -> Orders \cup {NoOrder}]
        /\ stock' \in Nat
        /\ returned' \in [Orders -> Nat]
    <3>1. CASE \E free : PutBack(o, free, ItemsOf(o)) BY <2>1, <3>1, PutBackType
    <3>2. CASE /\ itemOrder' = [i \in Items |-> IF itemOrder[i] = o THEN NoOrder ELSE itemOrder[i]]
               /\ UNCHANGED <<itemStatus, stock, returned>>
      BY <3>2 DEF TypeOK
    <3>3. QED BY <1>5, <3>1, <3>2 DEF deleteOrder
  <2>3. /\ gifted' \subseteq Orders
        /\ giftOrder' \in [Customers -> Orders \cup {NoOrder}]
        /\ redemptions' \subseteq Orders
        /\ timesRedeemed' \in Nat
    BY <1>5, <2>1, HandBackType DEF deleteOrder
  <2>4. /\ status' \in [Orders -> RowStatuses]
        /\ paidBy' \in [Orders -> Payers \cup {Nobody}]
        /\ verified' \subseteq Customers
    BY <1>5, <2>1 DEF deleteOrder, DeleteRow, TypeOK, RowStatuses, Payers
  <2>5. OtherTypes' BY <1>5 DEF deleteOrder, DeleteRow, TypeOK, OtherTypes
  <2>6. QED BY <2>2, <2>3, <2>4, <2>5 DEF TypeOK, OtherTypes
<1>6. CASE Drop(r)
  <2>1. OrderTypes' BY <1>6, UnchangedType DEF Drop
  <2>2. OtherTypes' BY <1>6 DEF Drop, TypeOK, OtherTypes, proofs
  <2>3. QED BY <2>1, <2>2 DEF TypeOK, OrderTypes, OtherTypes
<1>7. QED BY <1>1, <1>2, <1>3, <1>4, <1>5, <1>6 DEF Serve

\* A proof under review belongs to an order, so approving or rejecting it acts on
\* one.
ProofHasOrder ==
  \A p \in Proofs : proofStatus[p] \in {"PENDING", "APPROVED"} => proofOrder[p] \in Orders

LEMMA NextType ==
  ASSUME TypeOK, ProofHasOrder, [Next]_vars
  PROVE  TypeOK'
<1>1. CASE \E o \in Orders : Customer(o)
  <2>1. PICK o \in Orders : Customer(o) BY <1>1
  <2>2. CASE QuoteCheckout(o)
    <3>1. PICK d \in Quotes(Owner[o]) : Begin([op |-> "checkout", order |-> o, discounts |-> d])
      BY <2>2 DEF QuoteCheckout
    <3>2. d \in SUBSET Offers BY <3>1 DEF Quotes
    <3>3. [op |-> "checkout", order |-> o, discounts |-> d] \in Requests BY <3>2 DEF Requests
    <3>4. QED BY <3>1, <3>3, BeginType
  <2>3. CASE RequestCancel(o)
    <3>1. [op |-> "cancel", order |-> o] \in Requests BY DEF Requests
    <3>2. QED BY <2>3, <3>1, BeginType DEF RequestCancel
  <2>4. CASE RequestUpload(o)
    <3>1. [op |-> "upload", order |-> o] \in Requests BY DEF Requests
    <3>2. QED BY <2>4, <3>1, BeginType DEF RequestUpload
  <2>5. CASE payOrder(o)
    <3>1. OrderTypes' BY <2>5, SettleType DEF payOrder, Payers
    <3>2. OtherTypes' BY <2>5 DEF payOrder, TypeOK, OtherTypes, proofs
    <3>3. QED BY <3>1, <3>2 DEF TypeOK, OrderTypes, OtherTypes
  <2>6. QED BY <2>1, <2>2, <2>3, <2>4, <2>5 DEF Customer
<1>2. CASE \E o \in Orders : Staff(o)
  <2>1. PICK o \in Orders : Staff(o) BY <1>2
  <2>2. CASE \E to \in StaffTargets : StaffTransition(o, to)
    <3>1. PICK to \in Statuses : StaffTransition(o, to) BY <2>2, BoundsAssumption
    <3>2. OrderTypes' BY <3>1, StepType, CancelType, SettleType DEF StaffTransition, Payers
    <3>3. OtherTypes' BY <3>1 DEF StaffTransition, TypeOK, OtherTypes, proofs
    <3>4. QED BY <3>2, <3>3 DEF TypeOK, OrderTypes, OtherTypes
  <2>3. CASE \E restock \in BOOLEAN : refundOrder(o, restock)
    <3>1. PICK restock \in BOOLEAN : refundOrder(o, restock) BY <2>3
    <3>2. /\ itemStatus' \in [Items -> {"ABSENT", "AVAILABLE", "RESERVED", "SOLD", "DISABLED"}]
          /\ itemOrder' \in [Items -> Orders \cup {NoOrder}]
          /\ stock' \in Nat
          /\ returned' \in [Orders -> Nat]
      <4>1. CASE releaseInventoryForOrder(o) BY <4>1, PutBackType DEF releaseInventoryForOrder
      <4>2. CASE UNCHANGED goods BY <4>2 DEF goods, TypeOK
      <4>3. QED BY <3>1, <4>1, <4>2 DEF refundOrder
    <3>3. OrderTypes'
      BY <3>1, <3>2 DEF refundOrder, perks, TypeOK, OrderTypes, RowStatuses, Statuses, Payers
    <3>4. OtherTypes' BY <3>1 DEF refundOrder, TypeOK, OtherTypes, proofs
    <3>5. QED BY <3>3, <3>4 DEF TypeOK, OrderTypes, OtherTypes
  <2>4. CASE \E restock \in BOOLEAN : RequestDelete(o, restock)
    <3>1. PICK restock \in BOOLEAN : RequestDelete(o, restock) BY <2>4
    <3>2. [op |-> "delete", order |-> o, saw |-> status[o], restock |-> restock] \in Requests
      BY <3>1 DEF RequestDelete, Exists, Requests
    <3>3. QED BY <3>1, <3>2, BeginType DEF RequestDelete
  <2>5. QED BY <2>1, <2>2, <2>3, <2>4 DEF Staff
<1>3. CASE \E o \in Orders : credit(o)
  <2>1. PICK o \in Orders : credit(o) BY <1>3
  <2>2. OrderTypes' BY <2>1, SettleType DEF credit, Payers
  <2>3. OtherTypes' BY <2>1 DEF credit, TypeOK, OtherTypes, proofs
  <2>4. QED BY <2>2, <2>3 DEF TypeOK, OrderTypes, OtherTypes
<1>4. CASE \E o \in Orders : Expire(o)
  <2>1. PICK o \in Orders : Expire(o) BY <1>4
  <2>2. OrderTypes' BY <2>1, CancelType, UnchangedType DEF Expire
  <2>3. OtherTypes' BY <2>1 DEF Expire, TypeOK, OtherTypes, proofs
  <2>4. QED BY <2>2, <2>3 DEF TypeOK, OrderTypes, OtherTypes
<1>5. CASE \E r \in requests : Serve(r)
  BY <1>5, ServeType
<1>6. CASE \E p \in Proofs : approve(p)
  <2>1. PICK p \in Proofs : approve(p) BY <1>6
  <2>2. proofOrder[p] \in Orders BY <2>1 DEF approve, ProofHasOrder
  <2>3. OrderTypes' BY <2>1, <2>2, SettleType DEF approve, Payers
  <2>4. OtherTypes' BY <2>1 DEF approve, TypeOK, OtherTypes
  <2>5. QED BY <2>3, <2>4 DEF TypeOK, OrderTypes, OtherTypes
<1>7. CASE \E p \in Proofs : reject(p)
  <2>1. PICK p \in Proofs : reject(p) BY <1>7
  <2>2. proofOrder[p] \in Orders BY <2>1 DEF reject, ProofHasOrder
  <2>3. OrderTypes' BY <2>1, <2>2, CancelType, StepType DEF reject, Statuses
  <2>4. OtherTypes' BY <2>1 DEF reject, TypeOK, OtherTypes
  <2>5. QED BY <2>3, <2>4 DEF TypeOK, OrderTypes, OtherTypes
<1>8. CASE \E c \in Customers : unban(c)
  <2>1. OrderTypes' BY <1>8, UnchangedType DEF unban
  <2>2. OtherTypes' BY <1>8 DEF unban, TypeOK, OtherTypes, proofs
  <2>3. QED BY <2>1, <2>2 DEF TypeOK, OrderTypes, OtherTypes
<1>9. CASE \E c \in Suspects : ban(c)
  <2>1. PICK c \in Customers : ban(c) BY <1>9, BoundsAssumption
  <2>2. OrderTypes' BY <2>1, UnchangedType DEF ban
  <2>3. requests' \subseteq Requests
    <3>1. \A o \in Orders : [op |-> "ban", order |-> o] \in Requests BY DEF Requests
    <3>2. QED BY <2>1, <3>1 DEF ban, TypeOK
  <2>4. OtherTypes' BY <2>1, <2>3 DEF ban, TypeOK, OtherTypes, proofs
  <2>5. QED BY <2>2, <2>4 DEF TypeOK, OrderTypes, OtherTypes
<1>10. CASE \E c \in HandVerified, value \in BOOLEAN : setVerified(c, value)
  <2>1. PICK c \in Customers, value \in BOOLEAN : setVerified(c, value)
    BY <1>10, BoundsAssumption
  <2>2. OrderTypes'
    BY <2>1 DEF setVerified, goods, perks, TypeOK, OrderTypes, RowStatuses, Payers
  <2>3. OtherTypes' BY <2>1 DEF setVerified, TypeOK, OtherTypes, proofs
  <2>4. QED BY <2>2, <2>3 DEF TypeOK, OrderTypes, OtherTypes
<1>11. CASE \E i \in Items : disable(i) \/ bulkImport(i)
  <2>1. OrderTypes'
    BY <1>11 DEF disable, bulkImport, perks, TypeOK, OrderTypes, RowStatuses, Payers
  <2>2. OtherTypes' BY <1>11 DEF disable, bulkImport, TypeOK, OtherTypes, proofs
  <2>3. QED BY <2>1, <2>2 DEF TypeOK, OrderTypes, OtherTypes
<1>12. CASE \E delta \in Deltas : adjustStock(delta)
  <2>1. PICK delta \in Int : adjustStock(delta) BY <1>12, StockAssumption
  <2>2. stock' \in Nat /\ supplied' \in Int BY <2>1 DEF adjustStock, TypeOK
  <2>3. OrderTypes'
    BY <2>1, <2>2 DEF adjustStock, perks, TypeOK, OrderTypes, RowStatuses, Payers
  <2>4. OtherTypes' BY <2>1, <2>2 DEF adjustStock, TypeOK, OtherTypes, proofs
  <2>5. QED BY <2>3, <2>4 DEF TypeOK, OrderTypes, OtherTypes
<1>13. CASE \E list \in SUBSET Orders : ListStale(list)
  <2>1. OrderTypes' BY <1>13, UnchangedType DEF ListStale
  <2>2. OtherTypes' BY <1>13 DEF ListStale, Backlog, TypeOK, OtherTypes, proofs
  <2>3. QED BY <2>1, <2>2 DEF TypeOK, OrderTypes, OtherTypes
<1>14. CASE UNCHANGED vars
  <2>1. OrderTypes' BY <1>14, UnchangedType DEF vars
  <2>2. OtherTypes' BY <1>14 DEF vars, TypeOK, OtherTypes, proofs
  <2>3. QED BY <2>1, <2>2 DEF TypeOK, OrderTypes, OtherTypes
<1>15. CASE \E o \in Orders : GrowOld(o)
  <2>1. OrderTypes' BY <1>15, UnchangedType DEF GrowOld
  <2>2. OtherTypes' BY <1>15 DEF GrowOld, TypeOK, OtherTypes, proofs
  <2>3. QED BY <2>1, <2>2 DEF TypeOK, OrderTypes, OtherTypes
<1>16. QED
  BY <1>1, <1>2, <1>3, <1>4, <1>5, <1>6, <1>7, <1>8, <1>9, <1>10, <1>11, <1>12, <1>13, <1>14,
     <1>15 DEF Next

-----------------------------------------------------------------------------
(* What a step can do to the status of an order and to what paid for it *)

Unpaid == {"NONE"} \cup OpenStatuses

Opens(o) ==
  /\ status[o] = "NONE"
  /\ \/ /\ status' = [status EXCEPT ![o] = "PENDING_PAYMENT"]
        /\ UNCHANGED paidBy
     \/ /\ status' = [status EXCEPT ![o] = "PAID"]
        /\ paidBy' = [paidBy EXCEPT ![o] = DIRECT]

Pays(o, p) ==
  /\ status[o] \in OpenStatuses
  /\ status' = [status EXCEPT ![o] = "PAID"]
  /\ paidBy' = [paidBy EXCEPT ![o] = p]

\* Any move to a status other than PAID that keeps the order on its side of the
\* payment or closes it.
Moves(o, to) ==
  /\ \/ status[o] \in OpenStatuses /\ to \in OpenStatuses
     \/ status[o] \in KeptStatuses /\ to \in KeptStatuses
     \/ status[o] \in OpenStatuses \cup KeptStatuses /\ to \in {"CANCELLED", "REFUNDED"}
  /\ status' = [status EXCEPT ![o] = to]
  /\ UNCHANGED paidBy

Deletes(o) ==
  /\ status[o] \in Statuses
  /\ status' = [status EXCEPT ![o] = "DELETED"]
  /\ paidBy' = [paidBy EXCEPT ![o] = Nobody]

\* The table of order-state-machine.ts never leads from the paid side back.
LEMMA AllowedSides ==
  ASSUME NEW from, NEW to, Allowed(from, to)
  PROVE  /\ from \in Statuses /\ to \in Statuses
         /\ to # "PAID" =>
              \/ from \in OpenStatuses /\ to \in OpenStatuses
              \/ from \in KeptStatuses /\ to \in KeptStatuses
              \/ from \in OpenStatuses \cup KeptStatuses /\ to \in {"CANCELLED", "REFUNDED"}
         /\ to = "PAID" => from = "PAYMENT_REVIEW"
BY DEF Allowed, ORDER_TRANSITIONS, Statuses, OpenStatuses, KeptStatuses

LEMMA CancelMoves == ASSUME NEW o \in Orders, Cancel(o) PROVE Moves(o, "CANCELLED")
BY AllowedSides DEF Cancel, Moves, OpenStatuses, KeptStatuses

LEMMA StepMoves ==
  ASSUME NEW o \in Orders, NEW to \in Statuses, Step(o, to)
  PROVE  Moves(o, to)
BY AllowedSides DEF Step, Moves

LEMMA WalkSides ==
  ASSUME NEW from, NEW path, CanWalk(from, path)
  PROVE  /\ path[1] = "PAYMENT_SUBMITTED" => from = "PENDING_PAYMENT"
         /\ path[1] = "PENDING_PAYMENT" => from \in OpenStatuses
         /\ path[1] = "PAYMENT_REVIEW" => from = "PAYMENT_SUBMITTED"
         /\ path[1] = "PAID" => from = "PAYMENT_REVIEW"
BY DEF CanWalk, Allowed, ORDER_TRANSITIONS, Statuses, OpenStatuses

StatusStep ==
  \/ UNCHANGED <<status, paidBy>>
  \/ \E o \in Orders :
       \/ Opens(o)
       \/ \E p \in Payers : Pays(o, p)
       \/ \E to \in Statuses : Moves(o, to)
       \/ Deletes(o)

LEMMA NextStatus ==
  ASSUME TypeOK, ProofHasOrder, [Next]_vars
  PROVE  StatusStep
<1>1. CASE \E o \in Orders : Customer(o)
  <2>1. PICK o \in Orders : Customer(o) BY <1>1
  <2>2. CASE payOrder(o)
    <3>1. status[o] \in OpenStatuses BY <2>2, WalkSides DEF payOrder, OpenStatuses
    <3>2. Pays(o, DIRECT) BY <2>2, <3>1 DEF payOrder, Settle, Pays
    <3>3. QED BY <3>2 DEF StatusStep, Payers
  <2>3. QED
    BY <2>1, <2>2
       DEF Customer, QuoteCheckout, RequestCancel, RequestUpload, Begin, orderVars, StatusStep
<1>2. CASE \E o \in Orders : Staff(o)
  <2>1. PICK o \in Orders : Staff(o) BY <1>2
  <2>2. CASE \E to \in StaffTargets : StaffTransition(o, to)
    <3>1. PICK to \in Statuses : StaffTransition(o, to) BY <2>2, BoundsAssumption
    <3>2. CASE Step(o, to) BY <3>2, StepMoves DEF StatusStep
    <3>3. CASE Cancel(o) BY <3>3, CancelMoves DEF StatusStep, Statuses
    <3>4. CASE Allowed(status[o], "PAID") /\ Settle(o, DIRECT)
      <4>1. Pays(o, DIRECT) BY <3>4, AllowedSides DEF Settle, Pays, OpenStatuses
      <4>2. QED BY <4>1 DEF StatusStep, Payers
    <3>5. QED BY <3>1, <3>2, <3>3, <3>4 DEF StaffTransition
  <2>3. CASE \E restock \in BOOLEAN : refundOrder(o, restock)
    <3>1. Moves(o, "REFUNDED") BY <2>3, AllowedSides DEF refundOrder, Moves, OpenStatuses, KeptStatuses
    <3>2. QED BY <3>1 DEF StatusStep, Statuses
  <2>4. CASE \E restock \in BOOLEAN : RequestDelete(o, restock)
    BY <2>4 DEF RequestDelete, Begin, orderVars, StatusStep
  <2>5. QED BY <2>1, <2>2, <2>3, <2>4 DEF Staff
<1>3. CASE \E o \in Orders : credit(o)
  <2>1. PICK o \in Orders : credit(o) BY <1>3
  <2>2. status[o] \in OpenStatuses BY <2>1, WalkSides DEF credit, OpenStatuses
  <2>3. Pays(o, DIRECT) BY <2>1, <2>2 DEF credit, Settle, Pays
  <2>4. QED BY <2>3 DEF StatusStep, Payers
<1>4. CASE \E o \in Orders : Expire(o)
  BY <1>4, CancelMoves DEF Expire, orderVars, StatusStep, Statuses
<1>5. CASE \E r \in requests : Serve(r)
  <2>1. PICK r \in Requests : Serve(r) BY <1>5 DEF TypeOK
  <2>2. CASE Checkout(r)
    <3>1. r.order \in Orders BY <2>1, <2>2 DEF Requests, Checkout
    <3>2. Opens(r.order) BY <2>2 DEF Checkout, Opens
    <3>3. QED BY <3>1, <3>2 DEF StatusStep
  <2>3. CASE cancelByCustomer(r)
    <3>1. r.order \in Orders BY <2>1, <2>3 DEF Requests, cancelByCustomer
    <3>2. QED BY <2>3, <3>1, CancelMoves DEF cancelByCustomer, StatusStep, Statuses
  <2>4. CASE uploadProof(r)
    <3>1. r.order \in Orders BY <2>1, <2>4 DEF Requests, uploadProof
    <3>2. status[r.order] = "PENDING_PAYMENT" BY <2>4, WalkSides DEF uploadProof
    <3>3. Moves(r.order, "PAYMENT_REVIEW") BY <2>4, <3>2 DEF uploadProof, Moves, OpenStatuses
    <3>4. QED BY <3>1, <3>3 DEF StatusStep, Statuses
  <2>5. CASE BanCancel(r)
    <3>1. r.order \in Orders BY <2>1, <2>5 DEF Requests, BanCancel
    <3>2. QED BY <2>5, <3>1, CancelMoves DEF BanCancel, StatusStep, Statuses
  <2>6. CASE deleteOrder(r)
    <3>1. r.order \in Orders BY <2>1, <2>6 DEF Requests, deleteOrder
    <3>2. Deletes(r.order) BY <2>6 DEF deleteOrder, DeleteRow, Deletes, Exists
    <3>3. QED BY <3>1, <3>2 DEF StatusStep
  <2>7. CASE Drop(r) BY <2>7 DEF Drop, orderVars, StatusStep
  <2>8. QED BY <2>1, <2>2, <2>3, <2>4, <2>5, <2>6, <2>7 DEF Serve
<1>6. CASE \E p \in Proofs : approve(p)
  <2>1. PICK p \in Proofs : approve(p) BY <1>6
  <2>2. proofOrder[p] \in Orders BY <2>1 DEF approve, ProofHasOrder
  <2>3. Pays(proofOrder[p], p) BY <2>1, AllowedSides DEF approve, Settle, Pays, OpenStatuses
  <2>4. QED BY <2>2, <2>3 DEF StatusStep, Payers
<1>7. CASE \E p \in Proofs : reject(p)
  <2>1. PICK p \in Proofs : reject(p) BY <1>7
  <2>2. proofOrder[p] \in Orders BY <2>1 DEF reject, ProofHasOrder
  <2>3. QED BY <2>1, <2>2, CancelMoves, StepMoves DEF reject, StatusStep, Statuses
<1>8. CASE \/ \E c \in Customers : unban(c)
           \/ \E c \in Suspects : ban(c)
           \/ \E c \in HandVerified, value \in BOOLEAN : setVerified(c, value)
           \/ \E i \in Items : disable(i) \/ bulkImport(i)
           \/ \E delta \in Deltas : adjustStock(delta)
           \/ \E list \in SUBSET Orders : ListStale(list)
           \/ \E o \in Orders : GrowOld(o)
           \/ UNCHANGED vars
  BY <1>8 DEF unban, ban, setVerified, disable, bulkImport, adjustStock, ListStale, GrowOld,
              vars, orderVars, StatusStep
<1>9. QED BY <1>1, <1>2, <1>3, <1>4, <1>5, <1>6, <1>7, <1>8 DEF Next

-----------------------------------------------------------------------------
(* Payments *)

\* Nothing has paid an order that is not paid for: what makes a payment the first.
UnpaidHasNoPayer ==
  \A o \in Orders : status[o] \in Unpaid \cup {"DELETED"} => paidBy[o] = Nobody

PaymentInv == TypeOK /\ ProofHasOrder /\ UnpaidHasNoPayer /\ ApprovedProofIsThePayment

NoDeletion == \A o \in Orders : status'[o] = "DELETED" => status[o] = "DELETED"

\* What a step does to the proofs, given what it does to the orders.
ProofStep ==
  \/ UNCHANGED proofs /\ NoDeletion
  \/ \E p \in Proofs, o \in Orders :
       /\ proofStatus' = [proofStatus EXCEPT ![p] = "PENDING"]
       /\ proofOrder' = [proofOrder EXCEPT ![p] = o]
       /\ proofStatus[p] = "UNUSED"
       /\ NoDeletion
  \/ \E p \in Proofs :
       /\ proofStatus[p] = "PENDING"
       /\ proofStatus' = [proofStatus EXCEPT ![p] = "APPROVED"]
       /\ UNCHANGED proofOrder
       /\ Pays(proofOrder[p], p)
  \/ \E rejected \in SUBSET Proofs :
       /\ proofStatus' = [p \in Proofs |-> IF p \in rejected THEN "REJECTED" ELSE proofStatus[p]]
       /\ UNCHANGED proofOrder
       /\ NoDeletion
  \/ \E o \in Orders :
       /\ Deletes(o)
       /\ proofStatus' = [p \in Proofs |-> IF proofOrder[p] = o THEN "GONE" ELSE proofStatus[p]]
       /\ proofOrder' = [p \in Proofs |-> IF proofOrder[p] = o THEN NoOrder ELSE proofOrder[p]]

\* Every action but deleteOrder leaves the rows of other orders, and its own, in
\* place.
LEMMA NoDeletionBy ==
  ASSUME TypeOK, NEW o \in Orders, NEW to \in Statuses, status' = [status EXCEPT ![o] = to]
  PROVE  NoDeletion
BY DEF TypeOK, NoDeletion, Statuses

LEMMA NextProofs ==
  ASSUME TypeOK, ProofHasOrder, [Next]_vars
  PROVE  ProofStep
<1>1. CASE \E o \in Orders : Customer(o)
  <2>1. PICK o \in Orders : Customer(o) BY <1>1
  <2>2. UNCHANGED proofs
    BY <2>1 DEF Customer, QuoteCheckout, RequestCancel, RequestUpload, payOrder, Begin
  <2>3. status' = status \/ status' = [status EXCEPT ![o] = "PAID"]
    BY <2>1 DEF Customer, QuoteCheckout, RequestCancel, RequestUpload, payOrder, Begin,
                orderVars, Settle
  <2>4. NoDeletion BY <2>3, NoDeletionBy DEF NoDeletion, Statuses
  <2>5. QED BY <2>2, <2>4 DEF ProofStep
<1>2. CASE \E o \in Orders : Staff(o)
  <2>1. PICK o \in Orders : Staff(o) BY <1>2
  <2>2. UNCHANGED proofs
    BY <2>1 DEF Staff, StaffTransition, refundOrder, RequestDelete, Begin
  <2>3. status' = status \/ \E to \in Statuses : status' = [status EXCEPT ![o] = to]
    BY <2>1, AllowedSides
       DEF Staff, StaffTransition, refundOrder, RequestDelete, Begin, orderVars,
           Step, Cancel, Settle, Statuses
  <2>4. NoDeletion BY <2>3, NoDeletionBy DEF NoDeletion
  <2>5. QED BY <2>2, <2>4 DEF ProofStep
<1>3. CASE \E o \in Orders : credit(o) \/ Expire(o)
  <2>1. PICK o \in Orders : credit(o) \/ Expire(o) BY <1>3
  <2>2. UNCHANGED proofs BY <2>1 DEF credit, Expire
  <2>3. status' = status \/ \E to \in Statuses : status' = [status EXCEPT ![o] = to]
    BY <2>1 DEF credit, Expire, orderVars, Cancel, Settle, Statuses
  <2>4. NoDeletion BY <2>3, NoDeletionBy DEF NoDeletion
  <2>5. QED BY <2>2, <2>4 DEF ProofStep
<1>4. CASE \E r \in requests : Serve(r)
  <2>1. PICK r \in Requests : Serve(r) BY <1>4 DEF TypeOK
  <2>2. CASE Checkout(r) \/ cancelByCustomer(r)
    <3>1. r.order \in Orders BY <2>1, <2>2 DEF Requests, Checkout, cancelByCustomer
    <3>2. UNCHANGED proofs BY <2>2 DEF Checkout, cancelByCustomer
    <3>3. \E to \in Statuses : status' = [status EXCEPT ![r.order] = to]
      BY <2>2 DEF Checkout, cancelByCustomer, Cancel, Statuses
    <3>4. NoDeletion BY <3>1, <3>3, NoDeletionBy
    <3>5. QED BY <3>2, <3>4 DEF ProofStep
  <2>3. CASE uploadProof(r)
    <3>1. r.order \in Orders BY <2>1, <2>3 DEF Requests, uploadProof
    <3>2. NoDeletion BY <2>3, <3>1, NoDeletionBy DEF uploadProof, Statuses
    <3>3. QED BY <2>3, <3>1, <3>2 DEF uploadProof, ProofStep
  <2>4. CASE BanCancel(r)
    <3>1. r.order \in Orders BY <2>1, <2>4 DEF Requests, BanCancel
    <3>2. NoDeletion BY <2>4, <3>1, NoDeletionBy DEF BanCancel, Cancel, Statuses
    <3> DEFINE pending == {p \in Proofs : proofOrder[p] = r.order /\ proofStatus[p] = "PENDING"}
    <3>3. proofStatus' = [p \in Proofs |-> IF p \in pending THEN "REJECTED" ELSE proofStatus[p]]
      BY <2>4 DEF BanCancel
    <3>4. pending \in SUBSET Proofs OBVIOUS
    <3> HIDE DEF pending
    <3>5. QED BY <2>4, <3>2, <3>3, <3>4 DEF BanCancel, ProofStep
  <2>5. CASE deleteOrder(r)
    <3>1. r.order \in Orders BY <2>1, <2>5 DEF Requests, deleteOrder
    <3>2. Deletes(r.order) BY <2>5 DEF deleteOrder, DeleteRow, Deletes, Exists
    <3>3. QED BY <2>5, <3>1, <3>2 DEF deleteOrder, DeleteRow, ProofStep
  <2>6. CASE Drop(r) BY <2>6 DEF Drop, orderVars, ProofStep, NoDeletion
  <2>7. QED BY <2>1, <2>2, <2>3, <2>4, <2>5, <2>6 DEF Serve
<1>5. CASE \E p \in Proofs : approve(p)
  <2>1. PICK p \in Proofs : approve(p) BY <1>5
  <2>2. Pays(proofOrder[p], p) BY <2>1, AllowedSides DEF approve, Settle, Pays, OpenStatuses
  <2>3. QED BY <2>1, <2>2 DEF approve, ProofStep
<1>6. CASE \E p \in Proofs : reject(p)
  <2>1. PICK p \in Proofs : reject(p) BY <1>6
  <2>2. proofOrder[p] \in Orders BY <2>1 DEF reject, ProofHasOrder
  <2>3. NoDeletion BY <2>1, <2>2, NoDeletionBy DEF reject, Cancel, Step, Statuses
  <2>4. proofStatus' = [q \in Proofs |-> IF q \in {p} THEN "REJECTED" ELSE proofStatus[q]]
    BY <2>1 DEF reject, TypeOK
  <2>5. QED BY <2>1, <2>3, <2>4 DEF reject, ProofStep
<1>7. CASE \/ \E c \in Customers : unban(c)
           \/ \E c \in Suspects : ban(c)
           \/ \E c \in HandVerified, value \in BOOLEAN : setVerified(c, value)
           \/ \E i \in Items : disable(i) \/ bulkImport(i)
           \/ \E delta \in Deltas : adjustStock(delta)
           \/ \E list \in SUBSET Orders : ListStale(list)
           \/ \E o \in Orders : GrowOld(o)
           \/ UNCHANGED vars
  <2>1. UNCHANGED <<proofs, status>>
    BY <1>7 DEF unban, ban, setVerified, disable, bulkImport, adjustStock, ListStale, GrowOld,
                vars, orderVars
  <2>2. QED BY <2>1 DEF ProofStep, NoDeletion
<1>8. QED BY <1>1, <1>2, <1>3, <1>4, <1>5, <1>6, <1>7 DEF Next

LEMMA PaymentInit == Init => PaymentInv
<1>1. Init => TypeOK
  BY ItemsAssumption, StockAssumption
     DEF Init, TypeOK, RowStatuses, Statuses, Payers, Requests
<1>2. Init => ProofHasOrder /\ UnpaidHasNoPayer /\ ApprovedProofIsThePayment
  BY DEF Init, ProofHasOrder, UnpaidHasNoPayer, ApprovedProofIsThePayment
<1>3. QED BY <1>1, <1>2 DEF PaymentInv

LEMMA PaymentNext == PaymentInv /\ [Next]_vars => PaymentInv'
<1> SUFFICES ASSUME PaymentInv, [Next]_vars PROVE PaymentInv'
  OBVIOUS
<1>1. TypeOK /\ ProofHasOrder /\ UnpaidHasNoPayer /\ ApprovedProofIsThePayment
  BY DEF PaymentInv
<1>2. TypeOK' BY <1>1, NextType
<1>3. StatusStep BY <1>1, NextStatus
<1>4. ProofStep BY <1>1, NextProofs
<1>5. /\ status \in [Orders -> RowStatuses]
      /\ paidBy \in [Orders -> Payers \cup {Nobody}]
      /\ proofStatus \in [Proofs -> {"UNUSED", "PENDING", "APPROVED", "REJECTED", "GONE"}]
      /\ proofOrder \in [Proofs -> Orders \cup {NoOrder}]
  BY <1>1 DEF TypeOK
<1>6. ProofHasOrder'
  BY <1>1, <1>4, <1>5 DEF ProofStep, ProofHasOrder, proofs
<1>7. UnpaidHasNoPayer'
  BY <1>1, <1>3, <1>5
     DEF StatusStep, Opens, Pays, Moves, Deletes, UnpaidHasNoPayer, Unpaid,
         OpenStatuses, KeptStatuses, Statuses
\* An approved proof's order is past its payment, and no step takes it back there.
<1>8. ASSUME NEW p \in Proofs, proofStatus[p] = "APPROVED", proofStatus'[p] = "APPROVED"
      PROVE  /\ paidBy'[proofOrder'[p]] = p
             /\ status'[proofOrder'[p]] \notin OpenStatuses
  <2> DEFINE o == proofOrder[p]
  <2>1. o \in Orders /\ paidBy[o] = p /\ status[o] \notin OpenStatuses
    BY <1>1, <1>8 DEF ProofHasOrder, ApprovedProofIsThePayment
  <2>2. status[o] \notin Unpaid \cup {"DELETED"}
    BY <1>1, <2>1, SentinelAssumption DEF UnpaidHasNoPayer
  <2>3. proofOrder'[p] = o /\ (status'[o] = "DELETED" => status[o] = "DELETED")
    <3>1. CASE \E x \in Orders :
                 /\ Deletes(x)
                 /\ proofStatus' = [q \in Proofs |-> IF proofOrder[q] = x THEN "GONE" ELSE proofStatus[q]]
                 /\ proofOrder' = [q \in Proofs |-> IF proofOrder[q] = x THEN NoOrder ELSE proofOrder[q]]
      <4>1. PICK x \in Orders :
                 /\ Deletes(x)
                 /\ proofStatus' = [q \in Proofs |-> IF proofOrder[q] = x THEN "GONE" ELSE proofStatus[q]]
                 /\ proofOrder' = [q \in Proofs |-> IF proofOrder[q] = x THEN NoOrder ELSE proofOrder[q]]
        BY <3>1
      <4>2. x # o BY <1>8, <4>1
      <4>3. QED BY <1>5, <2>1, <4>1, <4>2 DEF Deletes
    <3>2. CASE \E q \in Proofs : proofOrder' = proofOrder /\ Pays(proofOrder[q], q)
      BY <1>5, <2>1, <3>2 DEF Pays
    <3>3. QED
      BY <1>4, <1>5, <1>8, <2>1, <3>1, <3>2 DEF ProofStep, proofs, NoDeletion
  <2>4. paidBy'[o] = p /\ status'[o] \notin OpenStatuses
    <3>1. CASE UNCHANGED <<status, paidBy>> BY <2>1, <3>1
    <3>2. ASSUME NEW x \in Orders, Opens(x) \/ (\E q \in Payers : Pays(x, q)) \/ Deletes(x)
          PROVE  paidBy'[o] = p /\ status'[o] = status[o]
      <4>1. x # o BY <1>5, <2>1, <2>2, <2>3, <3>2 DEF Opens, Pays, Deletes, Unpaid
      <4>2. QED BY <1>5, <2>1, <3>2, <4>1 DEF Opens, Pays, Deletes
    <3>3. ASSUME NEW x \in Orders, NEW to \in Statuses, Moves(x, to)
          PROVE  paidBy'[o] = p /\ status'[o] \notin OpenStatuses
      BY <1>5, <2>1, <3>3 DEF Moves, OpenStatuses, KeptStatuses
    <3>4. QED BY <1>3, <2>1, <3>1, <3>2, <3>3 DEF StatusStep
  <2>5. QED BY <2>3, <2>4
<1>9. ASSUME NEW p \in Proofs, proofStatus[p] # "APPROVED", proofStatus'[p] = "APPROVED"
      PROVE  /\ paidBy'[proofOrder'[p]] = p
             /\ status'[proofOrder'[p]] \notin OpenStatuses
  <2>1. /\ Pays(proofOrder[p], p)
        /\ proofStatus[p] = "PENDING"
        /\ proofOrder' = proofOrder
    BY <1>4, <1>5, <1>9 DEF ProofStep, proofs
  <2>2. proofOrder[p] \in Orders BY <1>1, <2>1 DEF ProofHasOrder
  <2>3. QED BY <1>5, <2>1, <2>2 DEF Pays, OpenStatuses
<1>10. ApprovedProofIsThePayment' BY <1>8, <1>9 DEF ApprovedProofIsThePayment
<1>11. QED BY <1>2, <1>6, <1>7, <1>10 DEF PaymentInv

\* Every variable keeps its type in every run: in particular the stock never goes
\* below zero, which the database does not check.
THEOREM TypeCorrect == Spec => []TypeOK
<1>1. PaymentInv => TypeOK BY DEF PaymentInv
<1>2. QED BY <1>1, PaymentInit, PaymentNext, PTL DEF Spec

\* Whatever order reviews, wallet payments, deposits and cancellations come in, a
\* proof staff approved is the one payment of its order.
THEOREM ApprovedProofPays == Spec => []ApprovedProofIsThePayment
<1>1. PaymentInv => ApprovedProofIsThePayment BY DEF PaymentInv
<1>2. QED BY <1>1, PaymentInit, PaymentNext, PTL DEF Spec

-----------------------------------------------------------------------------
(* What a step does to goods and discounts, and to the order they belong to *)

Enters(o, discounts, into) ==
  /\ status[o] = "NONE"
  /\ status' = [status EXCEPT ![o] = IF into = "SOLD" THEN "PAID" ELSE "PENDING_PAYMENT"]
  /\ TakeDiscounts(o, discounts)
  /\ Reserve(o, into)

\* Called off: goods, gift and coupon go back.
Leaves(o) ==
  /\ status[o] \in OpenStatuses \cup KeptStatuses
  /\ status' = [status EXCEPT ![o] = "CANCELLED"]
  /\ releaseInventoryForOrder(o)
  /\ HandBackDiscounts(o)

Sells(o) ==
  /\ status[o] \in OpenStatuses
  /\ status' = [status EXCEPT ![o] = "PAID"]
  /\ markIndividualItemsSold(o)
  /\ UNCHANGED perks

Returns(o) ==
  /\ status[o] \in KeptStatuses
  /\ status' = [status EXCEPT ![o] = "REFUNDED"]
  /\ releaseInventoryForOrder(o)
  /\ UNCHANGED perks

Advances(o, to) ==
  /\ Moves(o, to)
  /\ to # "CANCELLED"
  /\ to = "REFUNDED" => status[o] \in KeptStatuses
  /\ UNCHANGED <<goods, perks>>

\* Deletion keeps the items as they are only when none can be reserved any more.
Erases(o) ==
  /\ status[o] \in Statuses
  /\ status' = [status EXCEPT ![o] = "DELETED"]
  /\ HandBackDiscounts(o)
  /\ \/ PutBack(o, {"RESERVED"}, ItemsOf(o))
     \/ PutBack(o, {"RESERVED", "SOLD", "DISABLED"}, ItemsOf(o))
     \/ /\ status[o] \notin OpenStatuses
        /\ itemOrder' = [i \in Items |-> IF itemOrder[i] = o THEN NoOrder ELSE itemOrder[i]]
        /\ UNCHANGED <<itemStatus, stock, returned>>

\* Staff handle an item or count the stock; no order is concerned.
Handles ==
  /\ UNCHANGED <<status, perks, itemOrder, returned>>
  /\ UNCHANGED stock \/ \E delta \in Deltas : adjustStock(delta)
  /\ \/ UNCHANGED itemStatus
     \/ \E i \in Items :
          \/ itemStatus[i] # "ABSENT" /\ itemStatus' = [itemStatus EXCEPT ![i] = "DISABLED"]
          \/ itemStatus[i] = "ABSENT" /\ itemStatus' = [itemStatus EXCEPT ![i] = "AVAILABLE"]

OrderStep ==
  \/ Handles
  \/ \E o \in Orders :
       \/ \E discounts \in SUBSET Offers, into \in {"RESERVED", "SOLD"} : Enters(o, discounts, into)
       \/ Leaves(o) \/ Sells(o) \/ Returns(o) \/ Erases(o)
       \/ \E to \in Statuses : Advances(o, to)

\* A deletion that read a status past payment or closed still meets such a status,
\* because no order ever goes back to being open.
DeletesSound ==
  \A r \in requests :
    r.op = "delete" /\ r.saw \notin OpenStatuses => status[r.order] \notin Unpaid

LEMMA CancelLeaves == ASSUME NEW o \in Orders, Cancel(o) PROVE Leaves(o)
BY CancelMoves DEF Cancel, Leaves, Moves

LEMMA StepAdvances ==
  ASSUME NEW o \in Orders, NEW to \in Statuses, Step(o, to)
  PROVE  Advances(o, to)
<1>1. Allowed(status[o], "REFUNDED") => status[o] \in KeptStatuses
  BY DEF Allowed, ORDER_TRANSITIONS, Statuses, KeptStatuses
<1>2. QED BY <1>1, StepMoves DEF Step, Advances

LEMMA RestHandles == UNCHANGED orderVars => Handles
BY DEF orderVars, goods, Handles

LEMMA NextOrderStep ==
  ASSUME TypeOK, ProofHasOrder, DeletesSound, [Next]_vars
  PROVE  OrderStep
<1>1. CASE \E o \in Orders : Customer(o)
  <2>1. PICK o \in Orders : Customer(o) BY <1>1
  <2>2. CASE payOrder(o)
    <3>1. status[o] \in OpenStatuses BY <2>2, WalkSides DEF payOrder, OpenStatuses
    <3>2. Sells(o) BY <2>2, <3>1 DEF payOrder, Settle, Sells
    <3>3. QED BY <3>2 DEF OrderStep
  <2>3. CASE QuoteCheckout(o) \/ RequestCancel(o) \/ RequestUpload(o)
    <3>1. UNCHANGED orderVars
      BY <2>3 DEF QuoteCheckout, RequestCancel, RequestUpload, Begin
    <3>2. QED BY <3>1, RestHandles DEF OrderStep
  <2>4. QED BY <2>1, <2>2, <2>3 DEF Customer
<1>2. CASE \E o \in Orders : Staff(o)
  <2>1. PICK o \in Orders : Staff(o) BY <1>2
  <2>2. CASE \E to \in StaffTargets : StaffTransition(o, to)
    <3>1. PICK to \in Statuses : StaffTransition(o, to) BY <2>2, BoundsAssumption
    <3>2. CASE Step(o, to) BY <3>2, StepAdvances DEF OrderStep
    <3>3. CASE Cancel(o) BY <3>3, CancelLeaves DEF OrderStep
    <3>4. CASE Allowed(status[o], "PAID") /\ Settle(o, DIRECT)
      <4>1. Sells(o) BY <3>4, AllowedSides DEF Settle, Sells, OpenStatuses
      <4>2. QED BY <4>1 DEF OrderStep
    <3>5. QED BY <3>1, <3>2, <3>3, <3>4 DEF StaffTransition
  <2>3. CASE \E restock \in BOOLEAN : refundOrder(o, restock)
    <3>1. PICK restock \in BOOLEAN : refundOrder(o, restock) BY <2>3
    <3>2. status[o] \in KeptStatuses
      BY <3>1 DEF refundOrder, Allowed, ORDER_TRANSITIONS, Statuses, KeptStatuses
    <3>3. CASE restock
      <4>1. Returns(o) BY <3>1, <3>2, <3>3 DEF refundOrder, Returns
      <4>2. QED BY <4>1 DEF OrderStep
    <3>4. CASE ~restock
      <4>1. Advances(o, "REFUNDED") BY <3>1, <3>2, <3>4 DEF refundOrder, Advances, Moves
      <4>2. QED BY <4>1 DEF OrderStep, Statuses
    <3>5. QED BY <3>3, <3>4
  <2>4. CASE \E restock \in BOOLEAN : RequestDelete(o, restock)
    BY <2>4, RestHandles DEF RequestDelete, Begin, OrderStep
  <2>5. QED BY <2>1, <2>2, <2>3, <2>4 DEF Staff
<1>3. CASE \E o \in Orders : credit(o)
  <2>1. PICK o \in Orders : credit(o) BY <1>3
  <2>2. status[o] \in OpenStatuses BY <2>1, WalkSides DEF credit, OpenStatuses
  <2>3. Sells(o) BY <2>1, <2>2 DEF credit, Settle, Sells
  <2>4. QED BY <2>3 DEF OrderStep
<1>4. CASE \E o \in Orders : Expire(o)
  BY <1>4, CancelLeaves, RestHandles DEF Expire, OrderStep
<1>5. CASE \E r \in requests : Serve(r)
  <2>1. PICK r \in requests : Serve(r) BY <1>5
  <2>2. r \in Requests BY DEF TypeOK
  <2>3. CASE Checkout(r)
    <3>1. r.order \in Orders /\ r.discounts \in SUBSET Offers
      BY <2>2, <2>3 DEF Requests, Checkout
    <3>2. PICK into \in {"RESERVED", "SOLD"} : Enters(r.order, r.discounts, into)
      BY <2>3 DEF Checkout, Enters
    <3>3. QED BY <3>1, <3>2 DEF OrderStep
  <2>4. CASE cancelByCustomer(r)
    <3>1. r.order \in Orders BY <2>2, <2>4 DEF Requests, cancelByCustomer
    <3>2. QED BY <2>4, <3>1, CancelLeaves DEF cancelByCustomer, OrderStep
  <2>5. CASE uploadProof(r)
    <3>1. r.order \in Orders BY <2>2, <2>5 DEF Requests, uploadProof
    <3>2. status[r.order] = "PENDING_PAYMENT" BY <2>5, WalkSides DEF uploadProof
    <3>3. Advances(r.order, "PAYMENT_REVIEW")
      BY <2>5, <3>2 DEF uploadProof, Advances, Moves, OpenStatuses
    <3>4. QED BY <3>1, <3>3 DEF OrderStep, Statuses
  <2>6. CASE BanCancel(r)
    <3>1. r.order \in Orders BY <2>2, <2>6 DEF Requests, BanCancel
    <3>2. QED BY <2>6, <3>1, CancelLeaves DEF BanCancel, OrderStep
  <2>7. CASE deleteOrder(r)
    <3>1. r.order \in Orders BY <2>2, <2>7 DEF Requests, deleteOrder
    <3>2. r.saw \notin OpenStatuses => status[r.order] \notin OpenStatuses
      BY <2>1, <2>7 DEF deleteOrder, DeletesSound, Unpaid
    <3>3. Erases(r.order)
      <4>1. /\ status[r.order] \in Statuses
            /\ status' = [status EXCEPT ![r.order] = "DELETED"]
            /\ HandBackDiscounts(r.order)
        BY <2>7 DEF deleteOrder, DeleteRow, Exists
      <4>2. CASE \/ PutBack(r.order, {"RESERVED"}, ItemsOf(r.order))
                 \/ PutBack(r.order, {"RESERVED", "SOLD", "DISABLED"}, ItemsOf(r.order))
        BY <4>1, <4>2 DEF Erases
      <4>3. CASE /\ r.saw = "CANCELLED" \/ (r.saw \notin OpenStatuses /\ ~r.restock)
                 /\ itemOrder' = [i \in Items |-> IF itemOrder[i] = r.order THEN NoOrder ELSE itemOrder[i]]
                 /\ UNCHANGED <<itemStatus, stock, returned>>
        <5>1. "CANCELLED" \notin OpenStatuses BY DEF OpenStatuses
        <5>2. status[r.order] \notin OpenStatuses BY <3>2, <4>3, <5>1
        <5>3. QED BY <4>1, <4>3, <5>2 DEF Erases
      <4>4. QED BY <2>7, <4>2, <4>3 DEF deleteOrder
    <3>4. QED BY <3>1, <3>3 DEF OrderStep
  <2>8. CASE Drop(r) BY <2>8, RestHandles DEF Drop, OrderStep
  <2>9. QED BY <2>1, <2>3, <2>4, <2>5, <2>6, <2>7, <2>8 DEF Serve
<1>6. CASE \E p \in Proofs : approve(p)
  <2>1. PICK p \in Proofs : approve(p) BY <1>6
  <2>2. proofOrder[p] \in Orders BY <2>1 DEF approve, ProofHasOrder
  <2>3. Sells(proofOrder[p]) BY <2>1, AllowedSides DEF approve, Settle, Sells, OpenStatuses
  <2>4. QED BY <2>2, <2>3 DEF OrderStep
<1>7. CASE \E p \in Proofs : reject(p)
  <2>1. PICK p \in Proofs : reject(p) BY <1>7
  <2>2. proofOrder[p] \in Orders BY <2>1 DEF reject, ProofHasOrder
  <2>3. QED BY <2>1, <2>2, CancelLeaves, StepAdvances DEF reject, OrderStep, Statuses
<1>8. CASE \/ \E i \in Items : disable(i) \/ bulkImport(i)
           \/ \E delta \in Deltas : adjustStock(delta)
  BY <1>8 DEF disable, bulkImport, adjustStock, Handles, OrderStep
<1>9. CASE \/ \E c \in Customers : unban(c)
           \/ \E c \in Suspects : ban(c)
           \/ \E c \in HandVerified, value \in BOOLEAN : setVerified(c, value)
           \/ \E list \in SUBSET Orders : ListStale(list)
           \/ \E o \in Orders : GrowOld(o)
           \/ UNCHANGED vars
  <2>1. UNCHANGED <<status, goods, perks>>
    BY <1>9 DEF unban, ban, setVerified, ListStale, GrowOld, vars, orderVars
  <2>2. QED BY <2>1 DEF Handles, goods, OrderStep
<1>10. QED BY <1>1, <1>2, <1>3, <1>4, <1>5, <1>6, <1>7, <1>8, <1>9 DEF Next

\* A deletion under way was there before or has just read the status.
LEMMA NextDeletes ==
  ASSUME TypeOK, [Next]_vars, NEW r \in requests', r.op = "delete"
  PROVE  r \in requests \/ (r.saw = status[r.order] /\ status' = status)
<1>1. CASE \E o \in Orders : Customer(o) \/ credit(o) \/ Expire(o)
  <2>1. PICK o \in Orders : Customer(o) \/ credit(o) \/ Expire(o) BY <1>1
  <2>2. CASE payOrder(o) \/ credit(o) \/ Expire(o)
    BY <2>2 DEF payOrder, credit, Expire
  <2>3. CASE QuoteCheckout(o) \/ RequestCancel(o) \/ RequestUpload(o)
    <3>1. PICK q : Begin(q) /\ q.op \in {"checkout", "cancel", "upload"}
      <4>1. CASE QuoteCheckout(o)
        <5>1. PICK d \in Quotes(Owner[o]) : Begin([op |-> "checkout", order |-> o, discounts |-> d])
          BY <4>1 DEF QuoteCheckout
        <5>2. [op |-> "checkout", order |-> o, discounts |-> d].op = "checkout" OBVIOUS
        <5>3. QED BY <5>1, <5>2
      <4>2. CASE RequestCancel(o)
        <5>1. [op |-> "cancel", order |-> o].op = "cancel" OBVIOUS
        <5>2. QED BY <4>2, <5>1 DEF RequestCancel
      <4>3. CASE RequestUpload(o)
        <5>1. [op |-> "upload", order |-> o].op = "upload" OBVIOUS
        <5>2. QED BY <4>3, <5>1 DEF RequestUpload
      <4>4. QED BY <2>3, <4>1, <4>2, <4>3
    <3>2. QED BY <3>1 DEF Begin
  <2>4. QED BY <2>1, <2>2, <2>3 DEF Customer
<1>2. CASE \E o \in Orders : Staff(o)
  <2>1. PICK o \in Orders : Staff(o) BY <1>2
  <2>2. CASE \E to \in StaffTargets : StaffTransition(o, to) BY <2>2 DEF StaffTransition
  <2>3. CASE \E restock \in BOOLEAN : refundOrder(o, restock) BY <2>3 DEF refundOrder
  <2>4. CASE \E restock \in BOOLEAN : RequestDelete(o, restock)
    BY <2>4 DEF RequestDelete, Begin, orderVars
  <2>5. QED BY <2>1, <2>2, <2>3, <2>4 DEF Staff
<1>3. CASE \E q \in requests : Serve(q)
  BY <1>3 DEF Serve, Checkout, cancelByCustomer, uploadProof, BanCancel, deleteOrder, Drop
<1>4. CASE \E c \in Suspects : ban(c)
  BY <1>4 DEF ban
<1>5. CASE \/ \E p \in Proofs : approve(p) \/ reject(p)
           \/ \E c \in Customers : unban(c)
           \/ \E c \in HandVerified, value \in BOOLEAN : setVerified(c, value)
           \/ \E i \in Items : disable(i) \/ bulkImport(i)
           \/ \E delta \in Deltas : adjustStock(delta)
           \/ \E list \in SUBSET Orders : ListStale(list)
           \/ \E o \in Orders : GrowOld(o)
           \/ UNCHANGED vars
  BY <1>5 DEF approve, reject, unban, setVerified, disable, bulkImport, adjustStock, ListStale, GrowOld, vars
<1>6. QED BY <1>1, <1>2, <1>3, <1>4, <1>5 DEF Next

LEMMA DeletesNext ==
  ASSUME TypeOK, ProofHasOrder, DeletesSound, [Next]_vars
  PROVE  DeletesSound'
<1> SUFFICES ASSUME NEW r \in requests', r.op = "delete", r.saw \notin OpenStatuses
             PROVE  status'[r.order] \notin Unpaid
  BY DEF DeletesSound
<1>1. CASE r \in requests
  <2>1. r.order \in Orders /\ status[r.order] \notin Unpaid
    BY <1>1 DEF TypeOK, Requests, DeletesSound
  <2>2. status \in [Orders -> RowStatuses] BY DEF TypeOK
  <2>3. QED
    BY <2>1, <2>2, NextStatus
       DEF StatusStep, Opens, Pays, Moves, Deletes, Unpaid, OpenStatuses, KeptStatuses
<1>2. CASE r.saw = status[r.order] /\ status' = status
  <2>1. TypeOK' BY NextType
  <2>2. r.saw \in Statuses BY <2>1 DEF TypeOK, Requests
  <2>3. QED BY <1>2, <2>2 DEF Unpaid, Statuses
<1>3. QED BY <1>1, <1>2, NextDeletes

-----------------------------------------------------------------------------
(* Discounts *)

DiscountInv == TypeOK /\ CouponCounterExact /\ GiftHeldByItsOrder

\* Where a live order is after a step that keeps the discounts.
LEMMA LiveStays ==
  ASSUME TypeOK, NEW x \in Orders, Exists(x), status[x] # "CANCELLED",
         NEW o \in Orders, NEW to \in Statuses \ {"CANCELLED"},
         UNCHANGED status \/ status' = [status EXCEPT ![o] = to]
  PROVE  Exists(x)' /\ status'[x] # "CANCELLED"
BY DEF TypeOK, Exists

LEMMA CouponsNext ==
  ASSUME DiscountInv, OrderStep
  PROVE  CouponCounterExact'
<1>1. /\ status \in [Orders -> RowStatuses] /\ redemptions \subseteq Orders /\ timesRedeemed \in Nat
      /\ timesRedeemed = Cardinality(redemptions) /\ timesRedeemed <= MaxRedemptions
      /\ \A o \in redemptions : Exists(o) /\ status[o] # "CANCELLED"
      /\ \A c \in Customers : Cardinality(UsesBy(c)) <= PerCustomerLimit
  BY DEF DiscountInv, TypeOK, CouponCounterExact
<1>2. IsFiniteSet(redemptions) /\ \A c \in Customers : IsFiniteSet(UsesBy(c))
  <2>1. \A S \in SUBSET Orders : IsFiniteSet(S) BY OrdersAssumption, FS_Subset
  <2>2. QED BY <1>1, <2>1 DEF UsesBy
\* No coupon moves, and no order that used one leaves.
<1>3. ASSUME UNCHANGED <<redemptions, timesRedeemed>>, \A o \in redemptions : Exists(o)' /\ status'[o] # "CANCELLED"
      PROVE  CouponCounterExact'
  <2>1. \A c \in Customers : UsesBy(c)' = UsesBy(c) BY <1>3 DEF UsesBy
  <2>2. QED BY <1>1, <1>3, <2>1 DEF CouponCounterExact
<1>4. ASSUME UNCHANGED perks, NEW o \in Orders, NEW to \in Statuses \ {"CANCELLED"},
             UNCHANGED status \/ status' = [status EXCEPT ![o] = to]
      PROVE  CouponCounterExact'
  <2>1. \A x \in redemptions : Exists(x)' /\ status'[x] # "CANCELLED"
    BY <1>1, <1>4, LiveStays DEF DiscountInv
  <2>2. QED BY <1>3, <1>4, <2>1 DEF perks
<1>5. ASSUME NEW o \in Orders, NEW discounts, NEW into \in {"RESERVED", "SOLD"}, Enters(o, discounts, into)
      PROVE  CouponCounterExact'
  <2>1. /\ o \notin redemptions
        /\ \A x \in redemptions : Exists(x)' /\ status'[x] # "CANCELLED"
        /\ Exists(o)' /\ status'[o] # "CANCELLED"
    BY <1>1, <1>5 DEF Enters, Exists, Statuses
  <2>2. CASE UNCHANGED <<redemptions, timesRedeemed>> BY <1>3, <2>1, <2>2
  <2>3. CASE redeem(o)
    <3>1. Cardinality(redemptions') = Cardinality(redemptions) + 1
      BY <1>2, <2>1, <2>3, FS_AddElement DEF redeem
    <3>2. timesRedeemed' = Cardinality(redemptions') /\ timesRedeemed' <= MaxRedemptions
      BY <1>1, <2>3, <3>1, CouponAssumption DEF redeem
    <3>3. ASSUME NEW c \in Customers PROVE Cardinality(UsesBy(c)') <= PerCustomerLimit
      <4>1. CASE c = Owner[o]
        <5>1. UsesBy(c)' = UsesBy(c) \cup {o} /\ o \notin UsesBy(c)
          BY <2>1, <2>3, <4>1 DEF UsesBy, redeem
        <5>2. Cardinality(UsesBy(c)') = Cardinality(UsesBy(c)) + 1
          BY <1>2, <5>1, FS_AddElement
        <5>3. Cardinality(UsesBy(c)) < PerCustomerLimit /\ Cardinality(UsesBy(c)) \in Nat
          BY <1>2, <2>3, <4>1, FS_CardinalityType DEF redeem
        <5>4. QED BY <5>2, <5>3, CouponAssumption
      <4>2. CASE c # Owner[o]
        <5>1. UsesBy(c)' = UsesBy(c) BY <2>3, <4>2 DEF UsesBy, redeem
        <5>2. QED BY <1>1, <5>1
      <4>3. QED BY <4>1, <4>2
    <3>4. \A x \in redemptions' : Exists(x)' /\ status'[x] # "CANCELLED"
      BY <2>1, <2>3 DEF redeem
    <3>5. QED BY <3>2, <3>3, <3>4 DEF CouponCounterExact
  <2>4. QED BY <1>5, <2>2, <2>3 DEF Enters, TakeDiscounts
<1>6. ASSUME NEW o \in Orders, NEW to, status' = [status EXCEPT ![o] = to], HandBackDiscounts(o)
      PROVE  CouponCounterExact'
  <2>1. \A x \in redemptions \ {o} : Exists(x)' /\ status'[x] # "CANCELLED"
    BY <1>1, <1>6 DEF Exists
  <2>2. CASE o \notin redemptions
    <3>1. UNCHANGED <<redemptions, timesRedeemed>>
      BY <1>6, <2>2 DEF HandBackDiscounts, releaseForOrder
    <3>2. QED BY <1>3, <2>1, <2>2, <3>1
  <2>3. CASE o \in redemptions
    <3>1. /\ redemptions' = redemptions \ {o}
          /\ timesRedeemed' = IF timesRedeemed > 0 THEN timesRedeemed - 1 ELSE 0
      BY <1>6, <2>3 DEF HandBackDiscounts, releaseForOrder
    <3>2. Cardinality(redemptions') = Cardinality(redemptions) - 1 /\ Cardinality(redemptions') \in Nat
      BY <1>2, <2>3, <3>1, FS_RemoveElement, FS_CardinalityType
    <3>3. timesRedeemed' = Cardinality(redemptions') /\ timesRedeemed' <= MaxRedemptions
      BY <1>1, <3>1, <3>2, CouponAssumption
    <3>4. ASSUME NEW c \in Customers PROVE Cardinality(UsesBy(c)') <= PerCustomerLimit
      <4>1. UsesBy(c)' \in SUBSET UsesBy(c) BY <3>1 DEF UsesBy
      <4>2. /\ Cardinality(UsesBy(c)') <= Cardinality(UsesBy(c)) /\ IsFiniteSet(UsesBy(c)')
        BY <1>2, <4>1, FS_Subset
      <4>3. Cardinality(UsesBy(c)') \in Nat /\ Cardinality(UsesBy(c)) \in Nat
        BY <1>2, <4>2, FS_CardinalityType
      <4>4. QED BY <1>1, <4>2, <4>3, CouponAssumption
    <3>5. QED BY <2>1, <3>1, <3>3, <3>4 DEF CouponCounterExact
  <2>4. QED BY <2>2, <2>3
<1>7. CASE Handles
  <2>1. \A x \in redemptions : Exists(x)' /\ status'[x] # "CANCELLED"
    BY <1>1, <1>7 DEF Handles, Exists
  <2>2. QED BY <1>3, <1>7, <2>1 DEF Handles, perks
<1>8. CASE \E o \in Orders : Sells(o) \/ Returns(o) \/ \E to \in Statuses : Advances(o, to)
  BY <1>4, <1>8 DEF Sells, Returns, Advances, Moves, Statuses
<1>9. QED BY <1>5, <1>6, <1>7, <1>8 DEF OrderStep, Leaves, Erases

LEMMA GiftsNext ==
  ASSUME DiscountInv, OrderStep
  PROVE  GiftHeldByItsOrder'
<1>1. /\ status \in [Orders -> RowStatuses] /\ gifted \subseteq Orders
      /\ giftOrder \in [Customers -> Orders \cup {NoOrder}]
      /\ \A o \in gifted : Exists(o) /\ status[o] # "CANCELLED" /\ giftOrder[Owner[o]] = o
      /\ \A c \in Customers : giftOrder[c] # NoOrder => giftOrder[c] \in gifted
      /\ TypeOK
  BY DEF DiscountInv, TypeOK, GiftHeldByItsOrder
<1>2. \A o \in Orders : Owner[o] \in Customers /\ o # NoOrder
  BY OwnerAssumption, SentinelAssumption
<1>3. ASSUME UNCHANGED perks, NEW o \in Orders, NEW to \in Statuses \ {"CANCELLED"},
             UNCHANGED status \/ status' = [status EXCEPT ![o] = to]
      PROVE  GiftHeldByItsOrder'
  <2>1. \A x \in gifted : Exists(x)' /\ status'[x] # "CANCELLED"
    BY <1>1, <1>3, LiveStays
  <2>2. QED BY <1>1, <1>3, <2>1 DEF perks, GiftHeldByItsOrder
<1>4. ASSUME NEW o \in Orders, NEW discounts, NEW into \in {"RESERVED", "SOLD"}, Enters(o, discounts, into)
      PROVE  GiftHeldByItsOrder'
  <2>1. /\ o \notin gifted
        /\ \A x \in gifted : Exists(x)' /\ status'[x] # "CANCELLED"
        /\ Exists(o)' /\ status'[o] # "CANCELLED"
    BY <1>1, <1>4 DEF Enters, Exists, Statuses
  <2>2. CASE UNCHANGED <<giftOrder, gifted>> BY <1>1, <2>1, <2>2 DEF GiftHeldByItsOrder
  <2>3. CASE claimWelcomeGift(o) /\ gifted' = gifted \cup {o}
    <3>1. \A x \in gifted : Owner[x] # Owner[o]
      BY <1>1, <1>2, <2>3 DEF claimWelcomeGift
    <3>2. giftOrder' = [giftOrder EXCEPT ![Owner[o]] = o] BY <2>3 DEF claimWelcomeGift
    <3>3. QED BY <1>1, <1>2, <2>1, <2>3, <3>1, <3>2 DEF GiftHeldByItsOrder
  <2>4. QED BY <1>4, <2>2, <2>3 DEF Enters, TakeDiscounts
<1>5. ASSUME NEW o \in Orders, NEW to, status' = [status EXCEPT ![o] = to], HandBackDiscounts(o)
      PROVE  GiftHeldByItsOrder'
  <2>1. /\ giftOrder' = [c \in Customers |-> IF giftOrder[c] = o THEN NoOrder ELSE giftOrder[c]]
        /\ gifted' = gifted \ {o}
    BY <1>5 DEF HandBackDiscounts, releaseWelcomeGift
  <2>2. \A x \in gifted' : Exists(x)' /\ status'[x] # "CANCELLED"
    BY <1>1, <1>5, <2>1 DEF Exists
  <2>3. \A x \in gifted' : giftOrder'[Owner[x]] = x
    BY <1>1, <1>2, <2>1
  <2>4. \A c \in Customers : giftOrder'[c] # NoOrder => giftOrder'[c] \in gifted'
    BY <1>1, <2>1
  <2>5. QED BY <2>2, <2>3, <2>4 DEF GiftHeldByItsOrder
<1>6. CASE Handles
  BY <1>1, <1>6 DEF Handles, perks, GiftHeldByItsOrder, Exists
<1>7. CASE \E o \in Orders : Sells(o) \/ Returns(o) \/ \E to \in Statuses : Advances(o, to)
  BY <1>3, <1>7 DEF Sells, Returns, Advances, Moves, Statuses
<1>8. QED BY <1>4, <1>5, <1>6, <1>7 DEF OrderStep, Leaves, Erases

-----------------------------------------------------------------------------
(* Goods *)

\* An order that does not exist yet holds nothing, so what it reserves is all it has.
ItemsAreOrdered == \A i \in Items : itemOrder[i] \in Orders => status[itemOrder[i]] # "NONE"

Alive == OpenStatuses \cup KeptStatuses

ItemFits(i) ==
  /\ itemStatus[i] = "RESERVED" => itemOrder[i] \in Orders /\ status[itemOrder[i]] \in OpenStatuses
  /\ itemStatus[i] = "SOLD" /\ itemOrder[i] \in Orders => status[itemOrder[i]] \notin OpenStatuses
  /\ itemStatus[i] \in {"ABSENT", "AVAILABLE"} => itemOrder[i] = NoOrder
  /\ itemOrder[i] \in Orders => status[itemOrder[i]] # "NONE"

GoodsInv == TypeOK /\ GoodsFollowOrder /\ ItemsAreOrdered

LEMMA GoodsParts ==
  GoodsFollowOrder /\ ItemsAreOrdered
    <=> /\ \A o \in Orders : status[o] \in Alive => Cardinality(ItemsOf(o)) = Units[o]
        /\ \A i \in Items : ItemFits(i)
BY DEF GoodsFollowOrder, ItemsAreOrdered, ItemFits, Alive

\* How many items an order holds only matters when the step touches the items of
\* that order, and then the order is entering or leaving.
LEMMA CountsNext ==
  ASSUME GoodsInv, OrderStep
  PROVE  \A o \in Orders : status'[o] \in Alive => Cardinality(ItemsOf(o)') = Units[o]
<1>1. /\ status \in [Orders -> RowStatuses]
      /\ itemOrder \in [Items -> Orders \cup {NoOrder}]
      /\ \A o \in Orders : status[o] \in Alive => Cardinality(ItemsOf(o)) = Units[o]
      /\ \A i \in Items : ItemFits(i)
  BY GoodsParts DEF GoodsInv, TypeOK
<1>2. ASSUME itemOrder' = itemOrder, NEW x \in Orders,
             status'[x] \in Alive => status[x] \in Alive
      PROVE  status'[x] \in Alive => Cardinality(ItemsOf(x)') = Units[x]
  <2>1. ItemsOf(x)' = ItemsOf(x) BY <1>2 DEF ItemsOf
  <2>2. QED BY <1>1, <1>2, <2>1
\* The items of an order that comes or goes change hands; those of others do not.
<1>3. ASSUME NEW o \in Orders, NEW to, status' = [status EXCEPT ![o] = to],
             \A i \in Items : itemOrder'[i] # itemOrder[i] => /\ itemOrder[i] \in {o, NoOrder}
                                                             /\ itemOrder'[i] \in {o, NoOrder},
             NEW x \in Orders, x # o
      PROVE  status'[x] \in Alive => Cardinality(ItemsOf(x)') = Units[x]
  <2>1. x # NoOrder BY SentinelAssumption
  <2>2. ItemsOf(x)' = ItemsOf(x) BY <1>3, <2>1 DEF ItemsOf
  <2>3. QED BY <1>1, <1>3, <2>2
<1>4. ASSUME NEW o \in Orders, NEW discounts, NEW into \in {"RESERVED", "SOLD"},
             Enters(o, discounts, into), NEW x \in Orders
      PROVE  status'[x] \in Alive => Cardinality(ItemsOf(x)') = Units[x]
  <2>1. PICK picked \in SUBSET {i \in Items : itemStatus[i] = "AVAILABLE"} :
          /\ Cardinality(picked) = Units[o]
          /\ itemOrder' = [i \in Items |-> IF i \in picked THEN o ELSE itemOrder[i]]
    BY <1>4 DEF Enters, Reserve
  <2>2. \A i \in picked : itemOrder[i] = NoOrder BY <1>1, <2>1 DEF ItemFits
  <2>3. CASE x = o
    <3>1. \A i \in Items : itemOrder[i] # o BY <1>1, <1>4 DEF ItemFits, Enters
    <3>2. ItemsOf(o)' = picked BY <2>1, <3>1 DEF ItemsOf
    <3>3. QED BY <2>1, <2>3, <3>2
  <2>4. CASE x # o
    <3>1. \A i \in Items : itemOrder'[i] # itemOrder[i] =>
            itemOrder[i] \in {o, NoOrder} /\ itemOrder'[i] \in {o, NoOrder}
      BY <2>1, <2>2
    <3>2. PICK to : status' = [status EXCEPT ![o] = to] BY <1>4 DEF Enters
    <3>3. QED BY <1>3, <2>4, <3>1, <3>2
  <2>5. QED BY <2>3, <2>4
<1>5. ASSUME NEW o \in Orders, NEW to, to \notin Alive, status' = [status EXCEPT ![o] = to],
             \/ \E free, detached : detached \subseteq ItemsOf(o) /\ PutBack(o, free, detached)
             \/ itemOrder' = [i \in Items |-> IF itemOrder[i] = o THEN NoOrder ELSE itemOrder[i]],
             NEW x \in Orders
      PROVE  status'[x] \in Alive => Cardinality(ItemsOf(x)') = Units[x]
  <2>1. \A i \in Items : itemOrder'[i] # itemOrder[i] =>
          itemOrder[i] \in {o, NoOrder} /\ itemOrder'[i] \in {o, NoOrder}
    BY <1>5 DEF PutBack, ItemsOf
  <2>2. CASE x = o BY <1>1, <1>5, <2>2
  <2>3. CASE x # o BY <1>3, <1>5, <2>1, <2>3
  <2>4. QED BY <2>2, <2>3
<1>6. "CANCELLED" \notin Alive /\ "REFUNDED" \notin Alive /\ "DELETED" \notin Alive
  BY DEF Alive, OpenStatuses, KeptStatuses
<1>7. ASSUME NEW o \in Orders, NEW x \in Orders, Leaves(o) \/ Returns(o)
      PROVE  status'[x] \in Alive => Cardinality(ItemsOf(x)') = Units[x]
  <2>1. \E free, detached : detached \subseteq ItemsOf(o) /\ PutBack(o, free, detached)
    <3>1. {i \in ItemsOf(o) : itemStatus[i] = "RESERVED"} \subseteq ItemsOf(o) OBVIOUS
    <3>2. QED BY <1>7, <3>1 DEF Leaves, Returns, releaseInventoryForOrder
  <2>2. PICK to \in {"CANCELLED", "REFUNDED"} : status' = [status EXCEPT ![o] = to]
    BY <1>7 DEF Leaves, Returns
  <2>3. QED BY <1>5, <1>6, <2>1, <2>2
<1>8. ASSUME NEW o \in Orders, NEW x \in Orders, Erases(o)
      PROVE  status'[x] \in Alive => Cardinality(ItemsOf(x)') = Units[x]
  <2>1. \/ \E free, detached : detached \subseteq ItemsOf(o) /\ PutBack(o, free, detached)
        \/ itemOrder' = [i \in Items |-> IF itemOrder[i] = o THEN NoOrder ELSE itemOrder[i]]
    BY <1>8 DEF Erases
  <2>2. status' = [status EXCEPT ![o] = "DELETED"] BY <1>8 DEF Erases
  <2>3. QED BY <1>5, <1>6, <2>1, <2>2
<1>9. ASSUME NEW o \in Orders, NEW x \in Orders, Sells(o) \/ \E to \in Statuses : Advances(o, to)
      PROVE  status'[x] \in Alive => Cardinality(ItemsOf(x)') = Units[x]
  <2>1. itemOrder' = itemOrder BY <1>9 DEF Sells, Advances, markIndividualItemsSold, goods
  <2>2. status'[x] \in Alive => status[x] \in Alive
    BY <1>1, <1>9 DEF Sells, Advances, Moves, Alive
  <2>3. QED BY <1>2, <2>1, <2>2
<1>10. ASSUME Handles, NEW x \in Orders
       PROVE  status'[x] \in Alive => Cardinality(ItemsOf(x)') = Units[x]
  BY <1>2, <1>10 DEF Handles
<1>11. QED BY <1>4, <1>7, <1>8, <1>9, <1>10 DEF OrderStep

LEMMA FitsNext ==
  ASSUME GoodsInv, OrderStep
  PROVE  \A i \in Items : ItemFits(i)'
<1>1. /\ status \in [Orders -> RowStatuses]
      /\ itemOrder \in [Items -> Orders \cup {NoOrder}]
      /\ itemStatus \in [Items -> {"ABSENT", "AVAILABLE", "RESERVED", "SOLD", "DISABLED"}]
      /\ \A i \in Items : ItemFits(i)
  BY GoodsParts DEF GoodsInv, TypeOK
<1>2. NoOrder \notin Orders BY SentinelAssumption
<1>3. ASSUME NEW o \in Orders, NEW discounts, NEW into \in {"RESERVED", "SOLD"},
             Enters(o, discounts, into), NEW i \in Items
      PROVE  ItemFits(i)'
  <2>1. PICK picked \in SUBSET {j \in Items : itemStatus[j] = "AVAILABLE"} :
          /\ itemStatus' = [j \in Items |-> IF j \in picked THEN into ELSE itemStatus[j]]
          /\ itemOrder' = [j \in Items |-> IF j \in picked THEN o ELSE itemOrder[j]]
    BY <1>3 DEF Enters, Reserve
  <2>2. /\ status[o] = "NONE"
        /\ status' = [status EXCEPT ![o] = IF into = "SOLD" THEN "PAID" ELSE "PENDING_PAYMENT"]
    BY <1>3 DEF Enters
  <2>3. CASE i \in picked
    BY <1>1, <2>1, <2>2, <2>3 DEF ItemFits, OpenStatuses
  <2>4. CASE i \notin picked
    <3>1. itemStatus'[i] = itemStatus[i] /\ itemOrder'[i] = itemOrder[i] BY <2>1, <2>4
    <3>2. itemOrder[i] \in Orders => itemOrder[i] # o BY <1>1, <2>2 DEF ItemFits
    <3>3. QED BY <1>1, <2>2, <3>1, <3>2 DEF ItemFits
  <2>5. QED BY <2>3, <2>4
<1>4. ASSUME NEW o \in Orders, Leaves(o) \/ Returns(o), NEW i \in Items
      PROVE  ItemFits(i)'
  <2>1. PICK to \in {"CANCELLED", "REFUNDED"} : status' = [status EXCEPT ![o] = to]
    BY <1>4 DEF Leaves, Returns
  <2>2. releaseInventoryForOrder(o) BY <1>4 DEF Leaves, Returns
  <2>3. CASE itemOrder[i] = o /\ itemStatus[i] = "RESERVED"
    <3>1. itemStatus'[i] = "AVAILABLE" /\ itemOrder'[i] = NoOrder
      BY <2>2, <2>3 DEF releaseInventoryForOrder, PutBack, ItemsOf
    <3>2. QED BY <1>2, <3>1 DEF ItemFits
  <2>4. CASE ~(itemOrder[i] = o /\ itemStatus[i] = "RESERVED")
    <3>1. itemStatus'[i] = itemStatus[i] /\ itemOrder'[i] = itemOrder[i]
      BY <2>2, <2>4 DEF releaseInventoryForOrder, PutBack, ItemsOf
    <3>2. QED BY <1>1, <2>1, <2>4, <3>1 DEF ItemFits, OpenStatuses
  <2>5. QED BY <2>3, <2>4
<1>5. ASSUME NEW o \in Orders, Sells(o), NEW i \in Items
      PROVE  ItemFits(i)'
  <2>1. /\ status' = [status EXCEPT ![o] = "PAID"] /\ itemOrder' = itemOrder
        /\ itemStatus'[i] = IF itemOrder[i] = o /\ itemStatus[i] = "RESERVED" THEN "SOLD" ELSE itemStatus[i]
    BY <1>5 DEF Sells, markIndividualItemsSold, ItemsOf
  <2>2. QED BY <1>1, <2>1 DEF ItemFits, OpenStatuses
<1>6. ASSUME NEW o \in Orders, NEW to \in Statuses, Advances(o, to), NEW i \in Items
      PROVE  ItemFits(i)'
  <2>1. /\ status' = [status EXCEPT ![o] = to]
        /\ itemOrder' = itemOrder /\ itemStatus' = itemStatus
        /\ to # "NONE"
    BY <1>6 DEF Advances, Moves, goods, OpenStatuses, KeptStatuses, Statuses
  <2>2. CASE itemOrder[i] # o BY <1>1, <2>1, <2>2 DEF ItemFits
  <2>3. CASE itemOrder[i] = o
    <3>1. status[o] \in OpenStatuses <=> to \in OpenStatuses
      BY <1>6 DEF Advances, Moves, OpenStatuses, KeptStatuses
    <3>2. QED BY <1>1, <2>1, <2>3, <3>1 DEF ItemFits
  <2>4. QED BY <2>2, <2>3
<1>7. ASSUME NEW o \in Orders, Erases(o), NEW i \in Items
      PROVE  ItemFits(i)'
  <2>1. status' = [status EXCEPT ![o] = "DELETED"] BY <1>7 DEF Erases
  <2>2. CASE itemOrder[i] # o
    <3>1. itemStatus'[i] = itemStatus[i] /\ itemOrder'[i] = itemOrder[i]
      BY <1>1, <1>7, <2>2 DEF Erases, PutBack, ItemsOf
    <3>2. QED BY <1>1, <2>1, <2>2, <3>1 DEF ItemFits
  <2>3. CASE itemOrder[i] = o
    <3>1. itemOrder'[i] = NoOrder BY <1>7, <2>3 DEF Erases, PutBack, ItemsOf
    <3>2. itemStatus'[i] # "RESERVED"
      <4>1. CASE itemStatus[i] = "RESERVED"
        <5>1. status[o] \in OpenStatuses BY <1>1, <2>3, <4>1 DEF ItemFits
        <5>2. QED BY <1>7, <2>3, <4>1, <5>1 DEF Erases, PutBack, ItemsOf
      <4>2. CASE itemStatus[i] # "RESERVED"
        BY <1>7, <2>3, <4>2 DEF Erases, PutBack, ItemsOf
      <4>3. QED BY <4>1, <4>2
    <3>3. QED BY <1>2, <3>1, <3>2 DEF ItemFits
  <2>4. QED BY <2>2, <2>3
<1>8. ASSUME Handles, NEW i \in Items
      PROVE  ItemFits(i)'
  BY <1>1, <1>8 DEF Handles, ItemFits
<1>9. QED BY <1>3, <1>4, <1>5, <1>6, <1>7, <1>8 DEF OrderStep

LEMMA EffectsInit == Init => DeletesSound /\ DiscountInv /\ GoodsInv
<1> SUFFICES ASSUME Init PROVE DeletesSound /\ DiscountInv /\ GoodsInv
  OBVIOUS
<1>1. TypeOK BY PaymentInit DEF PaymentInv
<1>2. DeletesSound BY DEF Init, DeletesSound
<1>3. CouponCounterExact
  <2>1. \A c \in Customers : UsesBy(c) = {} BY DEF Init, UsesBy
  <2>2. QED BY <2>1, FS_EmptySet, CouponAssumption DEF Init, CouponCounterExact
<1>4. GiftHeldByItsOrder BY DEF Init, GiftHeldByItsOrder
<1>5. GoodsFollowOrder /\ ItemsAreOrdered
  <2>1. \A o \in Orders : status[o] \notin Alive
    BY DEF Init, Alive, OpenStatuses, KeptStatuses
  <2>2. \A i \in Items : ItemFits(i) BY SentinelAssumption DEF Init, ItemFits
  <2>3. QED BY <2>1, <2>2, GoodsParts
<1>6. QED BY <1>1, <1>2, <1>3, <1>4, <1>5 DEF DiscountInv, GoodsInv

LEMMA DisabledNext ==
  ASSUME TypeOK, OrderStep, NEW i \in Items, itemStatus[i] = "DISABLED", itemStatus'[i] # "DISABLED"
  PROVE  itemOrder[i] \in Orders /\ status'[itemOrder[i]] = "DELETED"
<1>1. /\ itemStatus \in [Items -> {"ABSENT", "AVAILABLE", "RESERVED", "SOLD", "DISABLED"}]
      /\ status \in [Orders -> RowStatuses]
  BY DEF TypeOK
<1>2. ~Handles BY <1>1 DEF Handles
<1>3. ASSUME NEW o \in Orders PROVE ~Leaves(o) /\ ~Returns(o) /\ ~Sells(o)
  BY DEF Leaves, Returns, Sells, releaseInventoryForOrder, markIndividualItemsSold, PutBack
<1>4. ASSUME NEW o \in Orders, NEW to \in Statuses PROVE ~Advances(o, to)
  BY DEF Advances, goods
<1>5. ASSUME NEW o \in Orders, NEW d \in SUBSET Offers, NEW into \in {"RESERVED", "SOLD"}
      PROVE  ~Enters(o, d, into)
  BY DEF Enters, Reserve
<1>6. PICK o \in Orders : Erases(o)
  BY <1>2, <1>3, <1>4, <1>5 DEF OrderStep
<1>7. itemOrder[i] = o /\ status'[o] = "DELETED"
  BY <1>1, <1>6 DEF Erases, PutBack, ItemsOf
<1>8. QED BY <1>7

\* Everything the steps of this section rely on and keep.
OrderInv == PaymentInv /\ DeletesSound /\ DiscountInv /\ GoodsInv

LEMMA OrderInvInit == Init => OrderInv
BY PaymentInit, EffectsInit DEF OrderInv

LEMMA OrderInvNext == OrderInv /\ [Next]_vars => OrderInv' /\ OrderStep
<1> SUFFICES ASSUME OrderInv, [Next]_vars PROVE OrderInv' /\ OrderStep
  OBVIOUS
<1>1. PaymentInv' BY PaymentNext DEF OrderInv
<1>2. TypeOK /\ ProofHasOrder /\ DeletesSound /\ DiscountInv /\ GoodsInv
  BY DEF OrderInv, PaymentInv
<1>3. OrderStep BY <1>2, NextOrderStep
<1>4. TypeOK' BY <1>1 DEF PaymentInv
<1>5. DeletesSound' BY <1>2, DeletesNext
<1>6. DiscountInv' BY <1>2, <1>3, <1>4, CouponsNext, GiftsNext DEF DiscountInv
<1>7. GoodsInv'
  <2>1. \A o \in Orders : status'[o] \in Alive => Cardinality(ItemsOf(o)') = Units[o]
    BY <1>2, <1>3, CountsNext
  <2>2. \A i \in Items : ItemFits(i)' BY <1>2, <1>3, FitsNext
  <2>3. GoodsFollowOrder' BY <2>1, <2>2 DEF GoodsFollowOrder, ItemFits, Alive
  <2>4. ItemsAreOrdered' BY <2>2 DEF ItemsAreOrdered, ItemFits
  <2>5. QED BY <1>4, <2>3, <2>4 DEF GoodsInv
<1>8. QED BY <1>1, <1>3, <1>5, <1>6, <1>7 DEF OrderInv

\* However checkouts, cancellations and deletions of any number of customers race
\* for a coupon, its counter is the number of live orders that used it and stays
\* within both limits.
THEOREM CouponIsCounted == Spec => []CouponCounterExact
<1>1. OrderInv => CouponCounterExact BY DEF OrderInv, DiscountInv
<1>2. QED BY <1>1, OrderInvInit, OrderInvNext, PTL DEF Spec

\* No customer ever has two live orders priced with the welcome gift.
THEOREM OneGiftPerNewcomer == Spec => []GiftHeldByItsOrder
<1>1. OrderInv => GiftHeldByItsOrder BY DEF OrderInv, DiscountInv
<1>2. QED BY <1>1, OrderInvInit, OrderInvNext, PTL DEF Spec

\* Whatever replicas, jobs and staff do in between, the items reserved and sold are
\* those of orders open and paid for, as many as were bought.
THEOREM GoodsStayWithOrders == Spec => []GoodsFollowOrder
<1>1. OrderInv => GoodsFollowOrder BY DEF OrderInv, GoodsInv
<1>2. QED BY <1>1, OrderInvInit, OrderInvNext, PTL DEF Spec

\* An item staff disabled comes back only with the deletion of its order.
THEOREM DisabledItemsStayOut == Spec => DisabledStaysOut
<1>1. OrderInv /\ [Next]_vars =>
        [\A i \in Items :
           itemStatus[i] = "DISABLED" /\ itemStatus'[i] # "DISABLED" =>
             itemOrder[i] \in Orders /\ status'[itemOrder[i]] = "DELETED"]_vars
  <2>1. OrderInv => TypeOK BY DEF OrderInv, PaymentInv
  <2>2. QED BY <2>1, OrderInvNext, DisabledNext
<1>2. QED BY <1>1, OrderInvInit, OrderInvNext, PTL DEF Spec, DisabledStaysOut

-----------------------------------------------------------------------------
(* The units of the QUANTITY product *)

\* The n units that follow the first `from` of an order.
NextUnits(o, from, n) == {o} \X ((from + 1) .. (from + n))

LEMMA UnitsCount ==
  ASSUME NEW o, NEW from \in Nat, NEW n \in Nat
  PROVE  IsFiniteSet(NextUnits(o, from, n)) /\ Cardinality(NextUnits(o, from, n)) = n
<1> DEFINE R == (from + 1) .. (from + n)
<1>1. IsFiniteSet(R) /\ Cardinality(R) = n
  <2>1. /\ from + 1 \in Int /\ from + n \in Int
        /\ (IF from + 1 > from + n THEN 0 ELSE (from + n) - (from + 1) + 1) = n
    OBVIOUS
  <2>2. QED BY <2>1, FS_Interval
<1>2. IsFiniteSet({o}) /\ Cardinality({o}) = 1 BY FS_Singleton
<1>3. NextUnits(o, from, n) = {o} \X R BY DEF NextUnits
<1> HIDE DEF R
<1>4. IsFiniteSet({o} \X R) /\ Cardinality({o} \X R) = Cardinality({o}) * Cardinality(R)
  BY <1>1, <1>2, FS_Product
<1>5. QED BY <1>1, <1>2, <1>3, <1>4

\* They are all new to a set that has none of them.
LEMMA MoreUnits ==
  ASSUME NEW S, IsFiniteSet(S), NEW o, NEW from \in Nat, NEW n \in Nat,
         S \cap NextUnits(o, from, n) = {}
  PROVE  /\ IsFiniteSet(S \cup NextUnits(o, from, n))
         /\ Cardinality(S \cup NextUnits(o, from, n)) = Cardinality(S) + n
<1> DEFINE U == NextUnits(o, from, n)
<1>1. IsFiniteSet(U) /\ Cardinality(U) = n BY UnitsCount
<1>2. Cardinality(S \cap U) = 0 BY FS_EmptySet
<1>3. Cardinality(S) \in Nat BY FS_CardinalityType
<1> HIDE DEF U
<1>4. /\ IsFiniteSet(S \cup U)
      /\ Cardinality(S \cup U) = Cardinality(S) + Cardinality(U) - Cardinality(S \cap U)
  BY <1>1, FS_Union
<1>5. IsFiniteSet(S \cup U) /\ Cardinality(S \cup U) = Cardinality(S) + n
  BY <1>1, <1>2, <1>3, <1>4
<1>6. QED BY <1>5 DEF U

StockInv == IsFiniteSet(Taken) /\ IsFiniteSet(GivenBack) /\ StockAccounted

LEMMA StockInit == Init => StockInv
<1> SUFFICES ASSUME Init PROVE StockInv OBVIOUS
<1>1. Taken = {} /\ GivenBack = {} BY DEF Init, Taken, GivenBack
<1>2. \A o \in Orders : status[o] = "NONE" /\ returned[o] = 0 BY DEF Init
<1>3. supplied = stock /\ stock \in Nat BY StockAssumption DEF Init
<1>4. QED BY <1>1, <1>2, <1>3, FS_EmptySet DEF StockInv, StockAccounted

\* Only staff supply the store or take out of it.
LEMMA SuppliedStays ==
  ASSUME [Next]_vars
  PROVE  UNCHANGED supplied \/ \E delta \in Deltas : adjustStock(delta)
<1>1. ASSUME NEW o \in Orders, Customer(o) \/ Staff(o) \/ credit(o) \/ Expire(o)
      PROVE  UNCHANGED supplied
  BY <1>1 DEF Customer, QuoteCheckout, RequestCancel, RequestUpload, payOrder, Staff,
              StaffTransition, refundOrder, RequestDelete, credit, Expire, Begin
<1>2. ASSUME NEW r \in requests, Serve(r) PROVE UNCHANGED supplied
  BY <1>2 DEF Serve, Checkout, cancelByCustomer, uploadProof, BanCancel, deleteOrder, Drop
<1>3. CASE \/ \E p \in Proofs : approve(p) \/ reject(p)
           \/ \E c \in Customers : unban(c)
           \/ \E c \in Suspects : ban(c)
           \/ \E c \in HandVerified, value \in BOOLEAN : setVerified(c, value)
           \/ \E i \in Items : disable(i) \/ bulkImport(i)
           \/ \E list \in SUBSET Orders : ListStale(list)
           \/ \E o \in Orders : GrowOld(o)
           \/ UNCHANGED vars
  BY <1>3 DEF approve, reject, unban, ban, setVerified, disable, bulkImport, ListStale, GrowOld, vars
<1>4. QED BY <1>1, <1>2, <1>3 DEF Next

\* An order that comes takes its pieces; one that goes puts them back once more.
LEMMA TakenNext ==
  ASSUME TypeOK, StockInv, OrderStep, UNCHANGED supplied
  PROVE  /\ IsFiniteSet(Taken') /\ IsFiniteSet(GivenBack')
         /\ supplied' = stock' + Cardinality(Taken') - Cardinality(GivenBack')
<1>1. /\ status \in [Orders -> RowStatuses] /\ returned \in [Orders -> Nat]
      /\ stock \in Nat /\ supplied \in Int /\ Pieces \in [Orders -> Nat]
  BY CartAssumption DEF TypeOK
<1>2. /\ IsFiniteSet(Taken) /\ IsFiniteSet(GivenBack)
      /\ Cardinality(Taken) \in Nat /\ Cardinality(GivenBack) \in Nat
      /\ supplied = stock + Cardinality(Taken) - Cardinality(GivenBack)
  BY FS_CardinalityType DEF StockInv, StockAccounted
<1>3. ASSUME NEW o \in Orders, status[o] # "NONE", NEW to, to # "NONE",
             status' = [status EXCEPT ![o] = to]
      PROVE  Taken' = Taken
  <2>1. {p \in Orders : status'[p] # "NONE"} = {p \in Orders : status[p] # "NONE"}
    BY <1>1, <1>3
  <2>2. QED BY <2>1 DEF Taken
<1>4. UNCHANGED returned => GivenBack' = GivenBack BY DEF GivenBack
<1>5. ASSUME NEW o \in Orders, NEW free, NEW detached, PutBack(o, free, detached)
      PROVE  /\ IsFiniteSet(GivenBack')
             /\ Cardinality(GivenBack') = Cardinality(GivenBack) + Pieces[o]
             /\ stock' = stock + Pieces[o]
  <2>1. /\ returned' = [returned EXCEPT ![o] = returned[o] + Pieces[o]]
        /\ stock' = stock + Pieces[o]
    BY <1>5 DEF PutBack
  <2> DEFINE New == NextUnits(o, returned[o], Pieces[o])
  <2>2. GivenBack' = GivenBack \cup New
    <3>1. ASSUME NEW x \in Orders, x # o PROVE 1 .. returned'[x] = 1 .. returned[x]
      BY <1>1, <2>1, <3>1
    <3>2. 1 .. returned'[o] = (1 .. returned[o]) \cup ((returned[o] + 1) .. (returned[o] + Pieces[o]))
      BY <1>1, <2>1
    <3>3. ASSUME NEW x \in Orders, NEW k
          PROVE  k \in 1 .. returned'[x] <=> k \in 1 .. returned[x] \/ <<x, k>> \in New
      BY <3>1, <3>2 DEF NextUnits
    <3>4. GivenBack' = UNION {{x} \X (1 .. returned'[x]) : x \in Orders} BY DEF GivenBack
    <3>5. ASSUME NEW u PROVE u \in GivenBack' <=> u \in GivenBack \cup New
      <4>1. u \in GivenBack' <=> \E x \in Orders : \E k \in 1 .. returned'[x] : u = <<x, k>>
        BY <3>4
      <4>2. u \in GivenBack <=> \E x \in Orders : \E k \in 1 .. returned[x] : u = <<x, k>>
        BY DEF GivenBack
      <4>3. u \in New <=> \E x \in Orders : \E k : u = <<x, k>> /\ <<x, k>> \in New
        <5>1. u \in New => \E k : u = <<o, k>> BY DEF NextUnits
        <5> HIDE DEF New
        <5>2. QED BY <5>1
      <4> HIDE DEF New
      <4>4. QED BY <3>3, <4>1, <4>2, <4>3
    <3>6. QED BY <3>5
  <2>3. GivenBack \cap NextUnits(o, returned[o], Pieces[o]) = {}
    BY <1>1 DEF GivenBack, NextUnits
  <2>4. returned[o] \in Nat /\ Pieces[o] \in Nat BY <1>1
  <2>5. IsFiniteSet(GivenBack') /\ Cardinality(GivenBack') = Cardinality(GivenBack) + Pieces[o]
    <3> HIDE DEF New
    <3>1. IsFiniteSet(GivenBack) BY <1>2
    <3>2. /\ IsFiniteSet(GivenBack \cup NextUnits(o, returned[o], Pieces[o]))
          /\ Cardinality(GivenBack \cup NextUnits(o, returned[o], Pieces[o])) =
               Cardinality(GivenBack) + Pieces[o]
      BY <2>3, <2>4, <3>1, MoreUnits
    <3>3. QED BY <2>2, <3>2, Zenon DEF New
  <2>6. QED BY <2>1, <2>5
<1>6. ASSUME NEW o \in Orders, NEW discounts, NEW into, Enters(o, discounts, into)
      PROVE  /\ IsFiniteSet(Taken') /\ GivenBack' = GivenBack
             /\ Cardinality(Taken') = Cardinality(Taken) + Pieces[o]
             /\ stock' = stock - Pieces[o]
  <2>1. /\ stock' = stock - Pieces[o] /\ UNCHANGED returned
        /\ status[o] = "NONE"
    BY <1>6 DEF Enters, Reserve
  <2>2. PICK to \in {"PAID", "PENDING_PAYMENT"} : status' = [status EXCEPT ![o] = to]
    BY <1>6 DEF Enters
  <2>3. {p \in Orders : status'[p] # "NONE"} = {p \in Orders : status[p] # "NONE"} \cup {o}
    BY <1>1, <2>2
  <2>4. Taken' = Taken \cup NextUnits(o, 0, Pieces[o])
    <3>1. NextUnits(o, 0, Pieces[o]) = {o} \X (1 .. Pieces[o]) BY <1>1 DEF NextUnits
    <3>2. Taken' = UNION {{x} \X (1 .. Pieces[x]) : x \in {p \in Orders : status[p] # "NONE"} \cup {o}}
      BY <2>3 DEF Taken
    <3>3. QED BY <3>1, <3>2 DEF Taken
  <2>5. Taken \cap NextUnits(o, 0, Pieces[o]) = {} BY <2>1 DEF Taken, NextUnits
  <2>6. Pieces[o] \in Nat BY <1>1
  <2>7. IsFiniteSet(Taken') /\ Cardinality(Taken') = Cardinality(Taken) + Pieces[o]
    <3>1. IsFiniteSet(Taken) BY <1>2
    <3>2. /\ IsFiniteSet(Taken \cup NextUnits(o, 0, Pieces[o]))
          /\ Cardinality(Taken \cup NextUnits(o, 0, Pieces[o])) = Cardinality(Taken) + Pieces[o]
      BY <2>5, <2>6, <3>1, MoreUnits
    <3>3. QED BY <2>4, <3>2, Zenon
  <2>8. QED BY <1>4, <2>1, <2>7
<1>7. ASSUME NEW o \in Orders, Pieces[o] \in Nat,
             \/ \E discounts, into : Enters(o, discounts, into)
             \/ Taken' = Taken /\ \E free, detached : PutBack(o, free, detached)
      PROVE  /\ IsFiniteSet(Taken') /\ IsFiniteSet(GivenBack')
             /\ supplied' = stock' + Cardinality(Taken') - Cardinality(GivenBack')
  BY <1>1, <1>2, <1>5, <1>6, <1>7
<1>8. ASSUME UNCHANGED stock, Taken' = Taken, GivenBack' = GivenBack
      PROVE  /\ IsFiniteSet(Taken') /\ IsFiniteSet(GivenBack')
             /\ supplied' = stock' + Cardinality(Taken') - Cardinality(GivenBack')
  BY <1>2, <1>8
<1>9. CASE Handles
  <2>1. Taken' = Taken BY <1>9 DEF Handles, Taken
  <2>2. UNCHANGED stock
    BY <1>1, <1>9, StockAssumption DEF Handles, adjustStock
  <2>3. QED BY <1>4, <1>8, <1>9, <2>1, <2>2 DEF Handles
<1>10. ASSUME NEW o \in Orders, NEW discounts \in SUBSET Offers, NEW into \in {"RESERVED", "SOLD"},
              Enters(o, discounts, into)
       PROVE  /\ IsFiniteSet(Taken') /\ IsFiniteSet(GivenBack')
              /\ supplied' = stock' + Cardinality(Taken') - Cardinality(GivenBack')
  BY <1>1, <1>7, <1>10
<1>11. ASSUME NEW o \in Orders,
              Leaves(o) \/ Sells(o) \/ Returns(o) \/ Erases(o) \/ \E to \in Statuses : Advances(o, to)
       PROVE  /\ Taken' = Taken
              /\ \/ \E free, detached : PutBack(o, free, detached)
                 \/ UNCHANGED <<stock, returned>>
  <2>1. \E to : to # "NONE" /\ status[o] # "NONE" /\ status' = [status EXCEPT ![o] = to]
    BY <1>11 DEF Leaves, Sells, Returns, Erases, Advances, Moves, OpenStatuses, KeptStatuses, Statuses
  <2>2. QED
    BY <1>3, <1>11, <2>1
       DEF Leaves, Sells, Returns, Erases, Advances, goods, releaseInventoryForOrder, markIndividualItemsSold
<1>12. QED BY <1>1, <1>4, <1>7, <1>8, <1>9, <1>10, <1>11 DEF OrderStep

\* What an order put back, by its status.
Squared(o) ==
  /\ status[o] \in {"NONE"} \cup OpenStatuses \cup KeptStatuses => returned[o] = 0
  /\ status[o] = "CANCELLED" => returned[o] = Pieces[o]
  /\ status[o] = "REFUNDED" => returned[o] \in {0, Pieces[o]}
  /\ status[o] = "DELETED" => returned[o] \in {0, Pieces[o], 2 * Pieces[o]}

LEMMA SquaredNext ==
  ASSUME TypeOK, \A o \in Orders : Squared(o), OrderStep, NEW x \in Orders
  PROVE  Squared(x)'
<1>1. /\ status \in [Orders -> RowStatuses] /\ returned \in [Orders -> Nat]
      /\ Pieces \in [Orders -> Nat]
  BY CartAssumption DEF TypeOK
<1>2. UNCHANGED <<status, returned>> => Squared(x)' BY DEF Squared
<1>3. ASSUME NEW o \in Orders, o # x, NEW to, NEW free, NEW detached,
             status' = [status EXCEPT ![o] = to],
             UNCHANGED returned \/ PutBack(o, free, detached)
      PROVE  Squared(x)'
  <2>1. status'[x] = status[x] /\ returned'[x] = returned[x] BY <1>1, <1>3 DEF PutBack
  <2>2. QED BY <2>1 DEF Squared
<1>4. ASSUME NEW d \in SUBSET Offers, NEW into \in {"RESERVED", "SOLD"}, NEW o \in Orders,
             Enters(o, d, into)
      PROVE  Squared(x)'
  <2>1. UNCHANGED returned /\ \E to : status' = [status EXCEPT ![o] = to]
    BY <1>4 DEF Enters, Reserve
  <2>2. CASE o = x
    <3>1. returned'[x] = 0 BY <1>4, <2>1, <2>2 DEF Enters, Squared
    <3>2. status'[x] \in {"PAID", "PENDING_PAYMENT"} BY <1>1, <1>4, <2>2 DEF Enters
    <3>3. QED BY <3>1, <3>2 DEF Squared
  <2>3. QED BY <1>3, <2>1, <2>2
<1>5. ASSUME NEW o \in Orders, Leaves(o) \/ Returns(o) PROVE Squared(x)'
  <2>1. /\ \E to \in {"CANCELLED", "REFUNDED"} : status' = [status EXCEPT ![o] = to]
        /\ status[o] \in OpenStatuses \cup KeptStatuses
        /\ \E free, detached : PutBack(o, free, detached)
    BY <1>5 DEF Leaves, Returns, releaseInventoryForOrder
  <2>2. CASE o = x
    <3>1. returned'[x] = Pieces[x] BY <1>1, <2>1, <2>2 DEF PutBack, Squared
    <3>2. status'[x] \in {"CANCELLED", "REFUNDED"} BY <1>1, <2>1, <2>2
    <3>3. QED BY <3>1, <3>2 DEF Squared, OpenStatuses, KeptStatuses
  <2>3. QED BY <1>3, <2>1, <2>2
<1>6. ASSUME NEW o \in Orders, Erases(o) PROVE Squared(x)'
  <2>1. /\ status' = [status EXCEPT ![o] = "DELETED"] /\ status[o] \in Statuses
        /\ UNCHANGED returned \/ \E free, detached : PutBack(o, free, detached)
    BY <1>6 DEF Erases
  <2>2. CASE o = x
    <3>1. returned[x] \in {0, Pieces[x]}
      BY <2>1, <2>2 DEF Squared, Statuses, OpenStatuses, KeptStatuses
    <3>2. returned'[x] = returned[x] \/ returned'[x] = returned[x] + Pieces[x]
      BY <1>1, <2>1, <2>2 DEF PutBack
    <3>3. returned'[x] \in {0, Pieces[x], 2 * Pieces[x]} BY <1>1, <3>1, <3>2
    <3>4. status'[x] = "DELETED" BY <1>1, <2>1, <2>2
    <3>5. QED BY <3>3, <3>4 DEF Squared, OpenStatuses, KeptStatuses
  <2>3. QED BY <1>3, <2>1, <2>2
<1>7. ASSUME NEW o \in Orders, Sells(o) \/ \E to \in Statuses : Advances(o, to)
      PROVE  Squared(x)'
  <2>1. PICK to : /\ status' = [status EXCEPT ![o] = to] /\ UNCHANGED returned
                  /\ status[o] \in OpenStatuses \cup KeptStatuses
                  /\ to \in OpenStatuses \cup KeptStatuses \cup {"REFUNDED"}
    BY <1>7 DEF Sells, Advances, Moves, goods, markIndividualItemsSold, KeptStatuses
  <2>2. CASE o = x
    <3>1. returned'[x] = 0 BY <2>1, <2>2 DEF Squared
    <3>2. status'[x] = to BY <1>1, <2>1, <2>2
    <3>3. QED BY <2>1, <3>1, <3>2 DEF Squared, OpenStatuses, KeptStatuses
  <2>3. QED BY <1>3, <2>1, <2>2
<1>8. Handles => Squared(x)' BY <1>2 DEF Handles
<1>9. QED BY <1>4, <1>5, <1>6, <1>7, <1>8 DEF OrderStep

LEMMA StockNext == OrderInv /\ StockInv /\ [Next]_vars => StockInv'
<1> SUFFICES ASSUME OrderInv, StockInv, [Next]_vars PROVE StockInv' OBVIOUS
<1>1. TypeOK /\ OrderStep BY OrderInvNext DEF OrderInv, PaymentInv
<1>2. \A o \in Orders : Squared(o)' BY <1>1, SquaredNext DEF StockInv, StockAccounted, Squared
<1>3. CASE UNCHANGED supplied
  BY <1>1, <1>2, <1>3, TakenNext DEF StockInv, StockAccounted, Squared
<1>4. CASE \E delta \in Deltas : adjustStock(delta)
  <2>1. PICK delta \in Deltas : adjustStock(delta) BY <1>4
  <2>2. Taken' = Taken /\ GivenBack' = GivenBack BY <2>1 DEF adjustStock, Taken, GivenBack
  <2>3. Cardinality(Taken) \in Nat /\ Cardinality(GivenBack) \in Nat
    BY FS_CardinalityType DEF StockInv
  <2>4. supplied' = stock' + Cardinality(Taken) - Cardinality(GivenBack)
    BY <1>1, <2>1, <2>3, StockAssumption DEF adjustStock, StockInv, StockAccounted, TypeOK
  <2>5. QED BY <1>2, <2>2, <2>4 DEF StockInv, StockAccounted, Squared
<1>5. QED BY <1>3, <1>4, SuppliedStays

\* Whoever sells, cancels, refunds, deletes or counts, and in whatever order, no
\* unit of stock is lost or appears from nowhere, and every order called off gave
\* back exactly what it took.
THEOREM EveryUnitAccounted == Spec => []StockAccounted
<1>1. OrderInv /\ StockInv => StockAccounted BY DEF StockInv
<1>2. QED BY <1>1, OrderInvInit, OrderInvNext, StockInit, StockNext, PTL DEF Spec

-----------------------------------------------------------------------------
(* Orders implements OrderContract *)

PhaseOf == [o \in Orders |-> Phase(status[o])]

\* The cases of Phase exclude each other.
LEMMA PhasesApart ==
  /\ \A s \in OpenStatuses : s \notin KeptStatuses /\ s \notin {"CANCELLED", "REFUNDED"} /\ s # "NONE"
  /\ \A s \in KeptStatuses : s \notin OpenStatuses /\ s \notin {"CANCELLED", "REFUNDED"} /\ s # "NONE"
  /\ \A s \in {"CANCELLED", "REFUNDED"} : s \notin OpenStatuses /\ s \notin KeptStatuses /\ s # "NONE"
BY DEF OpenStatuses, KeptStatuses

LEMMA PhaseOpen == \A s \in OpenStatuses : Phase(s) = "open"
BY PhasesApart DEF Phase

LEMMA PhasePaid == \A s \in KeptStatuses : Phase(s) = "paid"
BY PhasesApart DEF Phase

LEMMA PhaseClosed == \A s \in {"CANCELLED", "REFUNDED"} : Phase(s) = "closed"
BY PhasesApart DEF Phase

LEMMA PhaseEnds == Phase("NONE") = "none" /\ Phase("DELETED") = "erased"
<1>1. /\ "DELETED" \notin OpenStatuses /\ "DELETED" \notin KeptStatuses
      /\ "DELETED" \notin {"CANCELLED", "REFUNDED"} /\ "DELETED" # "NONE"
  BY DEF OpenStatuses, KeptStatuses
<1>2. Phase("DELETED") = "erased" BY <1>1 DEF Phase
<1>3. /\ "NONE" \notin OpenStatuses /\ "NONE" \notin KeptStatuses
      /\ "NONE" \notin {"CANCELLED", "REFUNDED"}
  BY DEF OpenStatuses, KeptStatuses
<1>4. Phase("NONE") = "none" BY <1>3 DEF Phase
<1>5. QED BY <1>2, <1>4

LEMMA PhaseAfter ==
  ASSUME TypeOK, NEW o \in Orders, NEW to, status' = [status EXCEPT ![o] = to]
  PROVE  PhaseOf' = [PhaseOf EXCEPT ![o] = Phase(to)]
BY DEF TypeOK, PhaseOf

LEMMA StepRefines ==
  ASSUME PaymentInv, StatusStep
  PROVE  [Contract!Next]_(Contract!vars)
<1>1. /\ TypeOK /\ UnpaidHasNoPayer
      /\ \A o \in Orders : PhaseOf[o] = Phase(status[o])
  BY DEF PaymentInv, PhaseOf
<1>2. CASE UNCHANGED <<status, paidBy>>
  BY <1>2 DEF Contract!vars
<1>3. ASSUME NEW o \in Orders, Opens(o) PROVE Contract!Next
  <2>1. CASE status' = [status EXCEPT ![o] = "PENDING_PAYMENT"] /\ UNCHANGED paidBy
    <3>1. PhaseOf' = [PhaseOf EXCEPT ![o] = "open"]
      <4>1. Phase("PENDING_PAYMENT") = "open" BY PhaseOpen DEF OpenStatuses
      <4>2. PhaseOf' = [PhaseOf EXCEPT ![o] = Phase("PENDING_PAYMENT")]
        BY <1>1, <2>1, PhaseAfter
      <4>3. QED BY <4>1, <4>2
    <3>2. Contract!Open(o)
      BY <1>1, <1>3, <2>1, <3>1, PhaseEnds DEF Contract!Open, PhaseOf, Opens
    <3>3. QED BY <3>2 DEF Contract!Next
  <2>2. CASE status' = [status EXCEPT ![o] = "PAID"] /\ paidBy' = [paidBy EXCEPT ![o] = DIRECT]
    <3>1. PhaseOf' = [PhaseOf EXCEPT ![o] = "paid"]
      <4>1. Phase("PAID") = "paid" BY PhasePaid DEF KeptStatuses
      <4>2. PhaseOf' = [PhaseOf EXCEPT ![o] = Phase("PAID")] BY <1>1, <2>2, PhaseAfter
      <4>3. QED BY <4>1, <4>2
    <3>2. paidBy[o] = Nobody BY <1>1, <1>3 DEF Opens, UnpaidHasNoPayer, Unpaid
    <3>3. Contract!Pay(o, DIRECT)
      BY <1>1, <1>3, <2>2, <3>1, <3>2, PhaseEnds DEF Contract!Pay, PhaseOf, Opens
    <3>4. QED BY <3>3 DEF Contract!Next, Payers
  <2>3. QED BY <1>3, <2>1, <2>2 DEF Opens
<1>4. ASSUME NEW o \in Orders, NEW p \in Payers, Pays(o, p) PROVE Contract!Next
  <2>1. PhaseOf' = [PhaseOf EXCEPT ![o] = "paid"]
    <3>1. Phase("PAID") = "paid" BY PhasePaid DEF KeptStatuses
    <3>2. PhaseOf' = [PhaseOf EXCEPT ![o] = Phase("PAID")] BY <1>1, <1>4, PhaseAfter DEF Pays
    <3>3. QED BY <3>1, <3>2
  <2>2. paidBy[o] = Nobody BY <1>1, <1>4 DEF Pays, UnpaidHasNoPayer, Unpaid
  <2>3. Contract!Pay(o, p)
    BY <1>1, <1>4, <2>1, <2>2, PhaseOpen DEF Contract!Pay, PhaseOf, Pays
  <2>4. QED BY <2>3 DEF Contract!Next
<1>5. ASSUME NEW o \in Orders, NEW to \in Statuses, Moves(o, to)
      PROVE  [Contract!Next]_(Contract!vars)
  <2>1. PhaseOf' = [PhaseOf EXCEPT ![o] = Phase(to)]
    BY <1>1, <1>5, PhaseAfter DEF Moves
  <2>2. CASE Phase(to) = Phase(status[o])
    <3>1. PhaseOf' = PhaseOf BY <1>1, <2>1, <2>2 DEF PhaseOf
    <3>2. QED BY <1>5, <3>1 DEF Contract!vars, PhaseOf, Moves
  <2>3. CASE status[o] \in OpenStatuses \cup KeptStatuses /\ to \in {"CANCELLED", "REFUNDED"}
    <3>1. PhaseOf[o] \in {"open", "paid"} /\ Phase(to) = "closed"
      BY <1>1, <2>3, PhaseOpen, PhasePaid, PhaseClosed
    <3>2. Contract!Close(o) BY <1>5, <2>1, <3>1 DEF Contract!Close, PhaseOf, Moves
    <3>3. QED BY <3>2 DEF Contract!Next
  <2>4. QED BY <1>5, <2>2, <2>3, PhaseOpen, PhasePaid DEF Moves
<1>6. ASSUME NEW o \in Orders, Deletes(o) PROVE Contract!Next
  <2>1. PhaseOf' = [PhaseOf EXCEPT ![o] = "erased"]
    <3>1. PhaseOf' = [PhaseOf EXCEPT ![o] = Phase("DELETED")] BY <1>1, <1>6, PhaseAfter DEF Deletes
    <3>2. QED BY <3>1, PhaseEnds
  <2>2. PhaseOf[o] \in {"open", "paid", "closed"}
    <3>1. status[o] \in OpenStatuses \cup KeptStatuses \cup {"CANCELLED", "REFUNDED"}
      BY <1>6 DEF Deletes, Statuses, OpenStatuses, KeptStatuses
    <3>2. QED BY <1>1, <3>1, PhaseOpen, PhasePaid, PhaseClosed
  <2>3. Contract!Erase(o) BY <1>6, <2>1, <2>2 DEF Contract!Erase, PhaseOf, Deletes
  <2>4. QED BY <2>3 DEF Contract!Next
<1>7. QED BY <1>2, <1>3, <1>4, <1>5, <1>6 DEF StatusStep

\* Every run of the shop is, seen through the order's phase and its payer, a run
\* of the contract: opened once, paid once, never unpaid again.
THEOREM OrdersImplementContract == Spec => ImplementsContract
<1>1. Init => Contract!Init
  BY PhaseEnds DEF Init, Contract!Init
<1>2. PaymentInv /\ [Next]_vars => [Contract!Next]_(Contract!vars)
  <2>1. PaymentInv /\ [Next]_vars => StatusStep BY NextStatus DEF PaymentInv
  <2>2. QED BY <2>1, StepRefines
<1>3. QED
  BY <1>1, <1>2, PaymentInit, PaymentNext, PTL DEF Spec, ImplementsContract, Contract!Spec
=============================================================================
