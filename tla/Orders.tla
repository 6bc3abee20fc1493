-------------------------------- MODULE Orders --------------------------------
(***************************************************************************)
(* Orders, the stock they hold, the discounts they take and the payments   *)
(* that settle them, as the API replicas change them concurrently          *)
(* (apps/api/src/modules: orders, inventory, payments, coupons, loyalty,   *)
(* cleanup).                                                               *)
(*                                                                         *)
(* A database transaction whose effect hangs on a guarded update (count 0  *)
(* throws and rolls everything back) is one action.  A handler that reads, *)
(* decides, and writes later is two: the first leaves a request in         *)
(* `requests` with what it read, the second works from that record against *)
(* whatever the database has become.                                       *)
(***************************************************************************)
EXTENDS OrderStates, Integers, FiniteSets

CONSTANTS
  Customers, Orders, Items, Proofs,
  Owner,               \* the customer of each order
  Units,               \* INDIVIDUAL items each order buys
  Pieces,              \* units of the QUANTITY product each order buys
  InitialItems,        \* the items already imported
  InitialStock,        \* stock of the QUANTITY product
  Deltas,              \* the stock corrections staff make
  MaxStock,            \* bound: staff do not restock beyond it
  Offers,              \* which of WELCOME and COUPON the store runs
  MaxRedemptions, PerCustomerLimit,
  StaffTargets,        \* bound: the statuses the admin endpoint is asked for
  Suspects,            \* bound: the customers staff ban
  HandVerified,        \* bound: the customers staff verify by hand
  ListSize,            \* the most orders one cleanup takes (200)
  MaxRequests,         \* bound: requests in flight when a new one starts
  Nobody, NoOrder

\* A payment is a proof, or DIRECT: the wallet, a deposit or staff's word, which
\* Wallet and CryptoDeposits tell apart.
DIRECT == "DIRECT"

ASSUME OwnerAssumption == Owner \in [Orders -> Customers]
ASSUME CartAssumption == Units \in [Orders -> Nat] /\ Pieces \in [Orders -> Nat]
ASSUME ItemsAssumption == IsFiniteSet(Items) /\ InitialItems \subseteq Items
ASSUME StockAssumption == InitialStock \in Nat /\ Deltas \subseteq Int /\ MaxStock \in Nat
ASSUME OffersAssumption == Offers \subseteq {"WELCOME", "COUPON"}
ASSUME CouponAssumption == MaxRedemptions \in Nat /\ PerCustomerLimit \in Nat
ASSUME OrdersAssumption == IsFiniteSet(Orders)
ASSUME BoundsAssumption ==
  /\ StaffTargets \subseteq Statuses /\ Suspects \subseteq Customers /\ HandVerified \subseteq Customers
  /\ ListSize \in Nat /\ MaxRequests \in Nat
ASSUME SentinelAssumption ==
  /\ NoOrder \notin Orders
  /\ Nobody \notin Proofs \cup {DIRECT}
  /\ DIRECT \notin Proofs

VARIABLES
  status,         \* Order.status; NONE before it exists, DELETED after
  paidBy,         \* history: what settled the order
  itemStatus,     \* InventoryItem.status; ABSENT before the import
  itemOrder,      \* InventoryItem.orderId
  stock,          \* Product.stock
  supplied,       \* history: units staff ever put in, net of what they took out
  returned,       \* history: units put back into stock on the order's account
  gifted,         \* orders whose price includes the welcome gift
  giftOrder,      \* Customer.welcomeGiftOrderId
  verified,       \* customers with verifiedAt set
  redemptions,    \* orders with a CouponRedemption row
  timesRedeemed,  \* Coupon.timesRedeemed
  proofStatus, proofOrder,
  banned,
  overdue,        \* orders older than ORDER_EXPIRY_MINUTES
  stale,          \* what is left of the cleanup job's list
  requests        \* handlers between their read and their write

goods == <<itemStatus, itemOrder, stock, returned>>
perks == <<gifted, giftOrder, redemptions, timesRedeemed>>
proofs == <<proofStatus, proofOrder>>
orderVars == <<status, paidBy, goods, perks, verified>>
vars == <<orderVars, supplied, proofs, banned, overdue, stale, requests>>

RowStatuses == Statuses \cup {"NONE", "DELETED"}
Exists(o) == status[o] \in Statuses
Payers == Proofs \cup {DIRECT}
Requests ==
  [op : {"checkout"}, order : Orders, discounts : SUBSET Offers]
    \cup [op : {"cancel", "upload", "ban"}, order : Orders]
    \cup [op : {"delete"}, order : Orders, saw : Statuses, restock : BOOLEAN]

TypeOK ==
  /\ status \in [Orders -> RowStatuses]
  /\ paidBy \in [Orders -> Payers \cup {Nobody}]
  /\ itemStatus \in [Items -> {"ABSENT", "AVAILABLE", "RESERVED", "SOLD", "DISABLED"}]
  /\ itemOrder \in [Items -> Orders \cup {NoOrder}]
  /\ stock \in Nat
  /\ supplied \in Int
  /\ returned \in [Orders -> Nat]
  /\ gifted \subseteq Orders
  /\ giftOrder \in [Customers -> Orders \cup {NoOrder}]
  /\ verified \subseteq Customers
  /\ redemptions \subseteq Orders
  /\ timesRedeemed \in Nat
  /\ proofStatus \in [Proofs -> {"UNUSED", "PENDING", "APPROVED", "REJECTED", "GONE"}]
  /\ proofOrder \in [Proofs -> Orders \cup {NoOrder}]
  /\ banned \subseteq Customers
  /\ overdue \subseteq Orders /\ stale \subseteq Orders
  /\ requests \subseteq Requests

Init ==
  /\ status = [o \in Orders |-> "NONE"]
  /\ paidBy = [o \in Orders |-> Nobody]
  /\ itemStatus = [i \in Items |-> IF i \in InitialItems THEN "AVAILABLE" ELSE "ABSENT"]
  /\ itemOrder = [i \in Items |-> NoOrder]
  /\ stock = InitialStock
  /\ supplied = InitialStock
  /\ returned = [o \in Orders |-> 0]
  /\ gifted = {}
  /\ giftOrder = [c \in Customers |-> NoOrder]
  /\ verified = {}
  /\ redemptions = {}
  /\ timesRedeemed = 0
  /\ proofStatus = [p \in Proofs |-> "UNUSED"]
  /\ proofOrder = [p \in Proofs |-> NoOrder]
  /\ banned = {}
  /\ overdue = {} /\ stale = {}
  /\ requests = {}

-----------------------------------------------------------------------------
(* What the services do to stock and discounts inside a transaction *)

ItemsOf(o) == {i \in Items : itemOrder[i] = o}

\* reserveIndividualItems and reserveQuantity. SKIP LOCKED passes over rows a
\* concurrent checkout is taking, so which items are picked is open. A checkout
\* that pays at once sells them in the transaction that reserved them.
Reserve(o, into) ==
  /\ stock >= Pieces[o]
  /\ stock' = stock - Pieces[o]
  /\ \E picked \in SUBSET {i \in Items : itemStatus[i] = "AVAILABLE"} :
       /\ Cardinality(picked) = Units[o]
       /\ itemStatus' = [i \in Items |-> IF i \in picked THEN into ELSE itemStatus[i]]
       /\ itemOrder' = [i \in Items |-> IF i \in picked THEN o ELSE itemOrder[i]]
  /\ UNCHANGED returned

\* The items of o whose status is in `free` become available, those in `detached`
\* stop pointing at o, and the pieces go back whatever happened to them.
PutBack(o, free, detached) ==
  /\ itemStatus' =
       [i \in Items |-> IF i \in ItemsOf(o) /\ itemStatus[i] \in free
                        THEN "AVAILABLE" ELSE itemStatus[i]]
  /\ itemOrder' = [i \in Items |-> IF i \in detached THEN NoOrder ELSE itemOrder[i]]
  /\ stock' = stock + Pieces[o]
  /\ returned' = [returned EXCEPT ![o] = @ + Pieces[o]]

\* Mutant: the release loses its `status: RESERVED` filter.
ReleaseWhateverItIs(o) == PutBack(o, {"RESERVED", "DISABLED"}, ItemsOf(o))

releaseInventoryForOrder(o) ==
  PutBack(o, {"RESERVED"}, {i \in ItemsOf(o) : itemStatus[i] = "RESERVED"})

\* Mutant: the sale of the reserved items is forgotten.
MarkNothingSold(o) == UNCHANGED <<itemStatus, itemOrder, stock, returned>>

markIndividualItemsSold(o) ==
  /\ itemStatus' =
       [i \in Items |-> IF i \in ItemsOf(o) /\ itemStatus[i] = "RESERVED"
                        THEN "SOLD" ELSE itemStatus[i]]
  /\ UNCHANGED <<itemOrder, stock, returned>>

\* Mutant: the claim does not ask whether the gift is free.
ClaimGiftAnyway(o) ==
  /\ Owner[o] \notin verified
  /\ giftOrder' = [giftOrder EXCEPT ![Owner[o]] = o]

claimWelcomeGift(o) ==
  /\ giftOrder[Owner[o]] = NoOrder
  /\ Owner[o] \notin verified
  /\ giftOrder' = [giftOrder EXCEPT ![Owner[o]] = o]

UsesBy(c) == {o \in redemptions : Owner[o] = c}

\* The coupon row's update serialises the redemptions of one code, so the count
\* that follows it sees every committed one.
redeem(o) ==
  /\ timesRedeemed < MaxRedemptions
  /\ Cardinality(UsesBy(Owner[o])) < PerCustomerLimit
  /\ redemptions' = redemptions \cup {o}
  /\ timesRedeemed' = timesRedeemed + 1

TakeDiscounts(o, discounts) ==
  /\ IF "WELCOME" \in discounts
     THEN claimWelcomeGift(o) /\ gifted' = gifted \cup {o}
     ELSE UNCHANGED <<giftOrder, gifted>>
  /\ IF "COUPON" \in discounts THEN redeem(o) ELSE UNCHANGED <<redemptions, timesRedeemed>>

releaseWelcomeGift(o) ==
  /\ giftOrder' = [c \in Customers |-> IF giftOrder[c] = o THEN NoOrder ELSE giftOrder[c]]
  /\ gifted' = gifted \ {o}

\* Mutant: the counter goes down whether or not the order used the coupon.
DecrementAlways(o) ==
  /\ redemptions' = redemptions \ {o}
  /\ timesRedeemed' = IF timesRedeemed > 0 THEN timesRedeemed - 1 ELSE 0

releaseForOrder(o) ==
  IF o \in redemptions
  THEN /\ redemptions' = redemptions \ {o}
       /\ timesRedeemed' = IF timesRedeemed > 0 THEN timesRedeemed - 1 ELSE 0
  ELSE UNCHANGED <<redemptions, timesRedeemed>>

HandBackDiscounts(o) == releaseWelcomeGift(o) /\ releaseForOrder(o)

-----------------------------------------------------------------------------
(* OrdersService.transition: the status, and what comes with it *)

\* Mutant: the status is overwritten without asking the state machine.
CancelAnyOrder(o) ==
  /\ Exists(o)
  /\ status' = [status EXCEPT ![o] = "CANCELLED"]
  /\ releaseInventoryForOrder(o)
  /\ HandBackDiscounts(o)
  /\ UNCHANGED <<paidBy, verified>>

Cancel(o) ==
  /\ Allowed(status[o], "CANCELLED")
  /\ status' = [status EXCEPT ![o] = "CANCELLED"]
  /\ releaseInventoryForOrder(o)
  /\ HandBackDiscounts(o)
  /\ UNCHANGED <<paidBy, verified>>

\* The move to PAID, by whatever walk its caller checked.
Settle(o, p) ==
  /\ status' = [status EXCEPT ![o] = "PAID"]
  /\ paidBy' = [paidBy EXCEPT ![o] = p]
  /\ markIndividualItemsSold(o)
  /\ verified' = verified \cup {Owner[o]}
  /\ UNCHANGED perks

\* Any transition that is neither: the row changes and nothing else.
Step(o, to) ==
  /\ Allowed(status[o], to)
  /\ to \notin {"CANCELLED", "PAID"}
  /\ status' = [status EXCEPT ![o] = to]
  /\ UNCHANGED <<paidBy, goods, perks, verified>>

-----------------------------------------------------------------------------
(* Checkout *)

Begin(r) ==
  /\ Cardinality(requests) < MaxRequests
  /\ r \notin requests
  /\ requests' = requests \cup {r}
  /\ UNCHANGED <<orderVars, supplied, proofs, banned, overdue, stale>>

\* A handler that throws, a client that disconnects, a replica that restarts:
\* nothing after the read happens.
Drop(r) ==
  /\ requests' = requests \ {r}
  /\ UNCHANGED <<orderVars, supplied, proofs, banned, overdue, stale>>

\* The discounts the cart can be priced with now. The gift is never optional;
\* the coupon is the customer's to enter.
Quotes(c) ==
  LET gift == {d \in Offers : d = "WELCOME" /\ c \notin verified /\ giftOrder[c] = NoOrder}
      code == {d \in Offers : /\ d = "COUPON"
                              /\ timesRedeemed < MaxRedemptions
                              /\ Cardinality(UsesBy(c)) < PerCustomerLimit}
  IN {gift, gift \cup code}

\* Past the guard and priced, before the transaction opens. An order stands for
\* its idempotency key, so the same one may be asked for several times.
QuoteCheckout(o) ==
  /\ status[o] = "NONE"
  /\ Owner[o] \notin banned
  /\ \E d \in Quotes(Owner[o]) : Begin([op |-> "checkout", order |-> o, discounts |-> d])

\* The unique key lets one of them create the row.
Checkout(r) ==
  LET o == r.order
  IN /\ r.op = "checkout"
     /\ status[o] = "NONE"
     /\ requests' = requests \ {r}
     /\ TakeDiscounts(o, r.discounts)
     /\ \/ /\ Reserve(o, "RESERVED")
           /\ status' = [status EXCEPT ![o] = "PENDING_PAYMENT"]
           /\ UNCHANGED <<paidBy, verified>>
        \/ /\ Reserve(o, "SOLD")
           /\ status' = [status EXCEPT ![o] = "PAID"]
           /\ paidBy' = [paidBy EXCEPT ![o] = DIRECT]
           /\ verified' = verified \cup {Owner[o]}
     /\ UNCHANGED <<supplied, proofs, banned, overdue, stale>>

-----------------------------------------------------------------------------
(* Ways an order is called off *)

RequestCancel(o) ==
  /\ status[o] \in CUSTOMER_CANCELLABLE_STATUSES
  /\ Begin([op |-> "cancel", order |-> o])

cancelByCustomer(r) ==
  /\ r.op = "cancel"
  /\ requests' = requests \ {r}
  /\ Cancel(r.order)
  /\ UNCHANGED <<supplied, proofs, banned, overdue, stale>>

\* createdAt falls behind the cutoff, for good. It is followed only while it makes a
\* difference: when the order awaits payment and there is a job to mind.
GrowOld(o) ==
  /\ status[o] = "PENDING_PAYMENT" /\ ListSize > 0
  /\ o \notin overdue
  /\ overdue' = overdue \cup {o}
  /\ UNCHANGED <<orderVars, supplied, proofs, banned, stale, requests>>

\* What the cleanup job looks for.
Backlog == {o \in overdue : status[o] = "PENDING_PAYMENT"}

\* Mutant: the query asks for a status orders never keep.
ListCreated(list) ==
  /\ stale = {}
  /\ list # {} /\ \A o \in list : status[o] = "CREATED"
  /\ stale' = list
  /\ UNCHANGED <<orderVars, supplied, proofs, banned, overdue, requests>>

\* The query names no order to take them in, so a backlog that does not fit in
\* ListSize rows is listed in part, and any part of that size may be it.
ListStale(list) ==
  /\ stale = {}
  /\ list \subseteq Backlog /\ list # {}
  /\ Cardinality(list) <= ListSize
  /\ list = Backlog \/ Cardinality(list) = ListSize
  /\ stale' = list
  /\ UNCHANGED <<orderVars, supplied, proofs, banned, overdue, requests>>

\* One order of the list; a transition that is refused, or that the database fails,
\* is logged and skipped.
Expire(o) ==
  /\ o \in stale
  /\ stale' = stale \ {o}
  /\ \/ Cancel(o)
     \/ UNCHANGED orderVars
  /\ UNCHANGED <<supplied, proofs, banned, overdue, requests>>

\* The customer is BANNED first; then the open orders are listed, and cancelled
\* one transaction each.
ban(c) ==
  /\ c \notin banned
  /\ banned' = banned \cup {c}
  /\ requests' = requests \cup
       {[op |-> "ban", order |-> o] : o \in {x \in Orders : Owner[x] = c /\ status[x] \in OpenStatuses}}
  /\ UNCHANGED <<orderVars, supplied, proofs, overdue, stale>>

BanCancel(r) ==
  /\ r.op = "ban"
  /\ requests' = requests \ {r}
  /\ proofStatus' =
       [p \in Proofs |-> IF proofOrder[p] = r.order /\ proofStatus[p] = "PENDING"
                         THEN "REJECTED" ELSE proofStatus[p]]
  /\ Cancel(r.order)
  /\ UNCHANGED <<supplied, proofOrder, banned, overdue, stale>>

unban(c) ==
  /\ c \in banned
  /\ banned' = banned \ {c}
  /\ UNCHANGED <<orderVars, supplied, proofs, overdue, stale, requests>>

-----------------------------------------------------------------------------
(* Ways an order is paid *)

RequestUpload(o) ==
  /\ status[o] = "PENDING_PAYMENT"
  /\ Owner[o] \notin banned
  /\ Begin([op |-> "upload", order |-> o])

\* After the file is stored: the proof row and the two transitions.
uploadProof(r) ==
  /\ r.op = "upload"
  /\ requests' = requests \ {r}
  /\ CanWalk(status[r.order], <<"PAYMENT_SUBMITTED", "PAYMENT_REVIEW">>)
  /\ status' = [status EXCEPT ![r.order] = "PAYMENT_REVIEW"]
  /\ \E p \in Proofs :
       /\ proofStatus[p] = "UNUSED"
       /\ proofStatus' = [proofStatus EXCEPT ![p] = "PENDING"]
       /\ proofOrder' = [proofOrder EXCEPT ![p] = r.order]
  /\ UNCHANGED <<paidBy, goods, perks, verified, supplied, banned, overdue, stale>>

\* Mutant: the proof is approved even if the order can no longer be paid.
ApproveProofAlone(p) ==
  /\ proofStatus[p] = "PENDING"
  /\ proofStatus' = [proofStatus EXCEPT ![p] = "APPROVED"]
  /\ \/ Allowed(status[proofOrder[p]], "PAID") /\ Settle(proofOrder[p], p)
     \/ ~Allowed(status[proofOrder[p]], "PAID") /\ UNCHANGED orderVars
  /\ UNCHANGED <<supplied, proofOrder, banned, overdue, stale, requests>>

\* Mutant: the order is paid whatever became of it.
ApproveRegardless(p) ==
  /\ proofStatus[p] = "PENDING"
  /\ proofStatus' = [proofStatus EXCEPT ![p] = "APPROVED"]
  /\ Settle(proofOrder[p], p)
  /\ UNCHANGED <<supplied, proofOrder, banned, overdue, stale, requests>>

approve(p) ==
  /\ proofStatus[p] = "PENDING"
  /\ Allowed(status[proofOrder[p]], "PAID")
  /\ proofStatus' = [proofStatus EXCEPT ![p] = "APPROVED"]
  /\ Settle(proofOrder[p], p)
  /\ UNCHANGED <<supplied, proofOrder, banned, overdue, stale, requests>>

reject(p) ==
  /\ proofStatus[p] = "PENDING"
  /\ proofStatus' = [proofStatus EXCEPT ![p] = "REJECTED"]
  /\ \/ Cancel(proofOrder[p])
     \/ Step(proofOrder[p], "PENDING_PAYMENT")
  /\ UNCHANGED <<supplied, proofOrder, banned, overdue, stale, requests>>

\* payOrder; the balance is debited in the same transaction (Wallet).
payOrder(o) ==
  /\ CanWalk(status[o], <<"PAYMENT_SUBMITTED", "PAYMENT_REVIEW", "PAID">>)
  /\ Settle(o, DIRECT)
  /\ UNCHANGED <<supplied, proofs, banned, overdue, stale, requests>>

\* The order's side of DepositPollerService.credit (CryptoDeposits).
credit(o) ==
  /\ \/ CanWalk(status[o], <<"PENDING_PAYMENT", "PAYMENT_SUBMITTED", "PAYMENT_REVIEW", "PAID">>)
     \/ CanWalk(status[o], <<"PAYMENT_SUBMITTED", "PAYMENT_REVIEW", "PAID">>)
     \/ CanWalk(status[o], <<"PAYMENT_REVIEW", "PAID">>)
     \/ CanWalk(status[o], <<"PAID">>)
  /\ Settle(o, DIRECT)
  /\ UNCHANGED <<supplied, proofs, banned, overdue, stale, requests>>

-----------------------------------------------------------------------------
(* Staff *)

\* The admin endpoint: any transition the machine allows. Delivery's own moves
\* (PROCESSING, READY_FOR_DELIVERY, DELIVERED) are among them.
StaffTransition(o, to) ==
  /\ \/ Step(o, to)
     \/ to = "CANCELLED" /\ Cancel(o)
     \/ to = "PAID" /\ Allowed(status[o], "PAID") /\ Settle(o, DIRECT)
  /\ UNCHANGED <<supplied, proofs, banned, overdue, stale, requests>>

\* With restock, the release runs before the transition, in its transaction.
refundOrder(o, restock) ==
  /\ Allowed(status[o], "REFUNDED")
  /\ status' = [status EXCEPT ![o] = "REFUNDED"]
  /\ IF restock THEN releaseInventoryForOrder(o) ELSE UNCHANGED goods
  /\ UNCHANGED <<paidBy, perks, verified, supplied, proofs, banned, overdue, stale,
                 requests>>

\* deleteOrder reads the status without a lock and works from it.
RequestDelete(o, restock) ==
  /\ Exists(o)
  /\ Begin([op |-> "delete", order |-> o, saw |-> status[o], restock |-> restock])

\* order.delete: proofs and redemptions cascade, items keep no order.
DeleteRow(o) ==
  /\ status' = [status EXCEPT ![o] = "DELETED"]
  /\ paidBy' = [paidBy EXCEPT ![o] = Nobody]
  /\ proofStatus' = [p \in Proofs |-> IF proofOrder[p] = o THEN "GONE" ELSE proofStatus[p]]
  /\ proofOrder' = [p \in Proofs |-> IF proofOrder[p] = o THEN NoOrder ELSE proofOrder[p]]

deleteOrder(r) ==
  LET o == r.order
  IN /\ r.op = "delete"
     /\ Exists(o)
     /\ requests' = requests \ {r}
     /\ HandBackDiscounts(o)
     /\ DeleteRow(o)
     /\ \/ /\ r.saw \in OpenStatuses
           /\ PutBack(o, {"RESERVED"}, ItemsOf(o))
        \/ /\ r.saw \notin OpenStatuses \cup {"CANCELLED"}
           /\ r.restock
           /\ PutBack(o, {"RESERVED", "SOLD", "DISABLED"}, ItemsOf(o))
        \/ /\ r.saw = "CANCELLED" \/ (r.saw \notin OpenStatuses /\ ~r.restock)
           /\ itemOrder' = [i \in Items |-> IF itemOrder[i] = o THEN NoOrder ELSE itemOrder[i]]
           /\ UNCHANGED <<itemStatus, stock, returned>>
     /\ UNCHANGED <<verified, supplied, banned, overdue, stale>>

\* InventoryService.disable asks nothing of the item.
disable(i) ==
  /\ itemStatus[i] # "ABSENT"
  /\ itemStatus' = [itemStatus EXCEPT ![i] = "DISABLED"]
  /\ UNCHANGED <<status, paidBy, itemOrder, stock, returned, perks, verified,
                 supplied, proofs, banned, overdue, stale, requests>>

bulkImport(i) ==
  /\ itemStatus[i] = "ABSENT"
  /\ itemStatus' = [itemStatus EXCEPT ![i] = "AVAILABLE"]
  /\ UNCHANGED <<status, paidBy, itemOrder, stock, returned, perks, verified,
                 supplied, proofs, banned, overdue, stale, requests>>

\* Mutant: the update is not conditional on the stock there is.
AdjustBlindly(delta) ==
  /\ stock + delta <= MaxStock
  /\ stock' = stock + delta
  /\ supplied' = supplied + delta
  /\ UNCHANGED <<status, paidBy, itemStatus, itemOrder, returned, perks, verified,
                 proofs, banned, overdue, stale, requests>>

adjustStock(delta) ==
  /\ stock >= IF delta < 0 THEN -delta ELSE 0
  /\ stock + delta <= MaxStock
  /\ stock' = stock + delta
  /\ supplied' = supplied + delta
  /\ UNCHANGED <<status, paidBy, itemStatus, itemOrder, returned, perks, verified,
                 proofs, banned, overdue, stale, requests>>

setVerified(c, value) ==
  /\ verified' = IF value THEN verified \cup {c} ELSE verified \ {c}
  /\ UNCHANGED <<status, paidBy, goods, perks, supplied, proofs, banned, overdue, stale,
                 requests>>

-----------------------------------------------------------------------------
Customer(o) ==
  QuoteCheckout(o) \/ RequestCancel(o) \/ RequestUpload(o) \/ payOrder(o)

Staff(o) ==
  \/ \E to \in StaffTargets : StaffTransition(o, to)
  \/ \E restock \in BOOLEAN : refundOrder(o, restock) \/ RequestDelete(o, restock)

Serve(r) ==
  Checkout(r) \/ cancelByCustomer(r) \/ uploadProof(r) \/ BanCancel(r) \/ deleteOrder(r) \/ Drop(r)

Next ==
  \/ \E o \in Orders : Customer(o) \/ Staff(o) \/ credit(o) \/ GrowOld(o) \/ Expire(o)
  \/ \E r \in requests : Serve(r)
  \/ \E p \in Proofs : approve(p) \/ reject(p)
  \/ \E c \in Customers : unban(c)
  \/ \E c \in Suspects : ban(c)
  \/ \E c \in HandVerified, value \in BOOLEAN : setVerified(c, value)
  \/ \E i \in Items : disable(i) \/ bulkImport(i)
  \/ \E delta \in Deltas : adjustStock(delta)
  \/ \E list \in SUBSET Orders : ListStale(list)

\* Time passes; the job comes back every quarter of an hour and goes through the
\* list it made, whichever orders that has room for; and the database does not fail
\* the same order every time it is listed.
Fairness ==
  /\ WF_vars(\E list \in SUBSET Orders : ListStale(list))
  /\ \A o \in Orders :
       /\ WF_vars(GrowOld(o)) /\ WF_vars(Expire(o))
       /\ SF_vars(Cancel(o) /\ Expire(o))

Spec == Init /\ [][Next]_vars /\ Fairness

-----------------------------------------------------------------------------
(* Properties *)

\* The goods of an order follow it: while it is open they are reserved for it,
\* once it is paid for they are sold to it, always as many as were bought (staff
\* may have disabled some), and nothing is reserved for an order that is closed.
\* Reservation, release and sale are three updates in three services.
GoodsFollowOrder ==
  /\ \A o \in Orders :
       status[o] \in OpenStatuses \cup KeptStatuses => Cardinality(ItemsOf(o)) = Units[o]
  /\ \A i \in Items :
       /\ itemStatus[i] = "RESERVED" =>
            itemOrder[i] \in Orders /\ status[itemOrder[i]] \in OpenStatuses
       /\ itemStatus[i] = "SOLD" /\ itemOrder[i] \in Orders =>
            status[itemOrder[i]] \notin OpenStatuses
       /\ itemStatus[i] \in {"ABSENT", "AVAILABLE"} => itemOrder[i] = NoOrder

\* The units orders ever took and those ever put back for them, numbered within
\* each order.
Taken == UNION {{o} \X (1 .. Pieces[o]) : o \in {p \in Orders : status[p] # "NONE"}}
GivenBack == UNION {{o} \X (1 .. returned[o]) : o \in Orders}

\* Every unit staff supplied is on the shelf or was taken and not put back. An
\* order that is open or paid for has put back nothing, a cancelled one what it
\* took, exactly once, and a refunded one nothing or that. A deletion puts back what
\* it was asked to, whatever went before, so at worst everything a second time.
StockAccounted ==
  /\ supplied = stock + Cardinality(Taken) - Cardinality(GivenBack)
  /\ \A o \in Orders :
       /\ status[o] \in {"NONE"} \cup OpenStatuses \cup KeptStatuses => returned[o] = 0
       /\ status[o] = "CANCELLED" => returned[o] = Pieces[o]
       /\ status[o] = "REFUNDED" => returned[o] \in {0, Pieces[o]}
       /\ status[o] = "DELETED" => returned[o] \in {0, Pieces[o], 2 * Pieces[o]}

\* The coupon's counter is the number of live orders that used it, within both
\* of its limits: redemptions race in checkouts quoted at the same moment and
\* are handed back by cancellation and deletion, which race each other.
CouponCounterExact ==
  /\ timesRedeemed = Cardinality(redemptions)
  /\ timesRedeemed <= MaxRedemptions
  /\ \A o \in redemptions : Exists(o) /\ status[o] # "CANCELLED"
  /\ \A c \in Customers : Cardinality(UsesBy(c)) <= PerCustomerLimit

\* Every live order priced with the welcome gift is the one its customer's row
\* names, so a newcomer never has two discounted first orders.
GiftHeldByItsOrder ==
  /\ \A o \in gifted : Exists(o) /\ status[o] # "CANCELLED" /\ giftOrder[Owner[o]] = o
  /\ \A c \in Customers : giftOrder[c] # NoOrder => giftOrder[c] \in gifted

\* A proof staff approved is what paid its order: two proofs of one order are
\* never both approved, and none is approved for an order the wallet, a deposit
\* or staff had already settled.
ApprovedProofIsThePayment ==
  \A p \in Proofs :
    proofStatus[p] = "APPROVED" =>
      /\ paidBy[proofOrder[p]] = p
      /\ status[proofOrder[p]] \notin OpenStatuses

\* Staff took the item out of circulation: whatever becomes of the order that
\* held it, only deleting that order with restock brings it back.
DisabledStaysOut ==
  [][\A i \in Items :
       itemStatus[i] = "DISABLED" /\ itemStatus'[i] # "DISABLED" =>
         itemOrder[i] \in Orders /\ status'[itemOrder[i]] = "DELETED"]_vars

Phase(s) ==
  CASE s = "NONE"                       -> "none"
    [] s \in OpenStatuses               -> "open"
    [] s \in KeptStatuses               -> "paid"
    [] s \in {"CANCELLED", "REFUNDED"}  -> "closed"
    [] OTHER                            -> "erased"

Contract ==
  INSTANCE OrderContract
    WITH phase <- [o \in Orders |-> Phase(status[o])], payer <- paidBy

\* However proofs, wallet, deposits, staff, the cleanup job, bans and deletions
\* interleave, each order lives through the contract's life: opened once, paid
\* once and by one payment, never unpaid again.
ImplementsContract == Contract!Spec

\* No order is left in PENDING_PAYMENT: if nothing else moves it, the cleanup job
\* does, though its list may be too short for the backlog and keeps no order. It does
\* because an order that is listed leaves for good, sooner or later, and orders are
\* finitely many: new ones that filled every list for ever could crowd one out. An
\* order a customer sent a proof for is not the job's to list, and keeps its stock.
UnpaidOrdersLapse ==
  \A o \in Orders : status[o] = "PENDING_PAYMENT" ~> status[o] # "PENDING_PAYMENT"
=============================================================================
