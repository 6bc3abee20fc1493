--------------------------------- MODULE Gifts ---------------------------------
(***************************************************************************)
(* One product given away (apps/api/src/modules/gifts/gifts.service.ts)    *)
(* while the shop also sells it: instant claims, the checkouts they        *)
(* compete with for its stock, and the social rewards staff decide.        *)
(*                                                                         *)
(* A request stands for the order it makes.  A transaction is its          *)
(* statements, one action each, with the row locks PostgreSQL takes at     *)
(* READ COMMITTED: what it writes is seen when it commits, a statement     *)
(* that needs a locked row waits, and looks at the row again afterwards.   *)
(***************************************************************************)
EXTENDS Integers, FiniteSetsExt

CONSTANTS
  Claims, Checkouts, Reviews,  \* the requests; each is made at most once
  Rewards,             \* the social reward claims customers send
  Items,               \* its INDIVIDUAL items
  Products,            \* what the product may be: [giftType, inventoryMode]
  Customers, Owner,    \* who sends each claim, checkout and reward
  InitialStock,        \* Product.stock
  maxGiftClaims,       \* the most gifts to give
  NoOrder, NoItem, NoReward

Orders == Claims \cup Checkouts \cup Reviews

ASSUME RequestsAssumption ==
  /\ Claims \cap Checkouts = {} /\ Claims \cap Reviews = {} /\ Checkouts \cap Reviews = {}
ASSUME FiniteAssumption == IsFiniteSet(Orders)
ASSUME OwnerAssumption == Owner \in [Claims \cup Checkouts \cup Rewards -> Customers]
ASSUME ProductsAssumption ==
  Products \subseteq [giftType : {"INSTANT_FREE", "SOCIAL_REWARD"},
                      inventoryMode : {"INDIVIDUAL", "QUANTITY"}]
ASSUME CountsAssumption == InitialStock \in Nat /\ maxGiftClaims \in Nat
ASSUME NothingAssumption == NoOrder \notin Orders /\ NoItem \notin Items /\ NoReward \notin Rewards

VARIABLES
  product,         \* one of Products; never changes
  status,          \* Order.status; NONE before it is committed
  itemStatus,      \* InventoryItem.status
  itemOrder,       \* InventoryItem.orderId
  stock,           \* Product.stock
  giftClaimsCount, \* Product.giftClaimsCount
  productLock,     \* the open transaction that updated the product's row
  itemLock,        \* and the one that locked each item's
  request,         \* how far each request got, and what it read
  rewardStatus, rewardOrder  \* SocialRewardClaim.status and orderId

rows == <<status, itemStatus, itemOrder, stock, giftClaimsCount>>
locks == <<productLock, itemLock>>
rewards == <<rewardStatus, rewardOrder>>
vars == <<product, rows, locks, request, rewards>>

individual == product.inventoryMode = "INDIVIDUAL"
Idle == [at |-> "idle", stock |-> 0, item |-> NoItem, reward |-> NoReward]
Steps == {"idle", "check", "begin", "pick", "take", "commit", "decide", "done"}

TypeOK ==
  /\ product \in Products
  /\ status \in [Orders -> {"NONE", "PENDING_PAYMENT", "PAID", "CANCELLED"}]
  /\ itemStatus \in [Items -> {"AVAILABLE", "RESERVED", "SOLD", "DISABLED"}]
  /\ itemOrder \in [Items -> Orders \cup {NoOrder}]
  /\ stock \in Int /\ giftClaimsCount \in Nat
  /\ productLock \in Orders \cup {NoOrder}
  /\ itemLock \in [Items -> Orders \cup {NoOrder}]
  /\ request \in [Orders -> [at : Steps, stock : Int, item : Items \cup {NoItem},
                             reward : Rewards \cup {NoReward}]]
  /\ rewardStatus \in [Rewards -> {"NONE", "CHECKED", "PENDING", "APPROVED", "REJECTED"}]
  /\ rewardOrder \in [Rewards -> Orders \cup {NoOrder}]

Init ==
  /\ product \in Products
  /\ status = [o \in Orders |-> "NONE"]
  /\ itemStatus = [i \in Items |-> "AVAILABLE"] /\ itemOrder = [i \in Items |-> NoOrder]
  /\ stock = IF individual THEN 0 ELSE InitialStock
  /\ giftClaimsCount = 0
  /\ productLock = NoOrder /\ itemLock = [i \in Items |-> NoOrder]
  /\ request = [o \in Orders |-> Idle]
  /\ rewardStatus = [r \in Rewards |-> "NONE"] /\ rewardOrder = [r \in Rewards |-> NoOrder]

-----------------------------------------------------------------------------
(* Transactions *)

GoTo(o, step) == request' = [request EXCEPT ![o].at = step]

LockProduct(o) == productLock = NoOrder /\ productLock' = o
Unlock(o) ==
  /\ productLock' = IF productLock = o THEN NoOrder ELSE productLock
  /\ itemLock' = [i \in Items |-> IF itemLock[i] = o THEN NoOrder ELSE itemLock[i]]

\* Mutant: whatever fails takes the count back.
AbortAndUncount(o) ==
  /\ request[o].at \in {"check", "begin", "pick", "take", "commit", "decide"}
  /\ Unlock(o) /\ GoTo(o, "done")
  /\ giftClaimsCount' = giftClaimsCount - 1
  /\ UNCHANGED <<product, status, itemStatus, itemOrder, stock, rewards>>

\* It throws, or its process dies: nothing it wrote is ever seen.
Abort(o) ==
  /\ request[o].at \in {"check", "begin", "pick", "take", "commit", "decide"}
  /\ Unlock(o) /\ GoTo(o, "done")
  /\ UNCHANGED <<product, rows, rewards>>

-----------------------------------------------------------------------------
(* claimInstantGift *)

\* The product as it is now; its stock is not looked at again.
ReadProduct(o) ==
  /\ product.giftType = "INSTANT_FREE" /\ request[o].at = "idle"
  /\ giftClaimsCount < maxGiftClaims
  /\ request' = [request EXCEPT ![o].at = "check", ![o].stock = stock]
  /\ UNCHANGED <<product, rows, locks, rewards>>

\* No order of this customer for this product, bought or given; a read on its own.
CheckClaimed(o) ==
  /\ request[o].at = "check"
  /\ \A p \in Claims \cup Checkouts :
       Owner[p] = Owner[o] => status[p] \in {"NONE", "CANCELLED"}
  /\ GoTo(o, "begin")
  /\ UNCHANGED <<product, rows, locks, rewards>>

\* Mutant: the count is read, and written later without a condition.
CountWithoutLock(o) ==
  /\ request[o].at = "begin" /\ giftClaimsCount < maxGiftClaims
  /\ individual \/ request[o].stock > 0
  /\ GoTo(o, IF individual THEN "pick" ELSE "commit")
  /\ UNCHANGED <<product, rows, locks, rewards>>

\* The conditional increment opens the transaction and keeps the product's row; at
\* the limit, or without stock when it was read, it rolls back (Abort).
CountClaim(o) ==
  /\ request[o].at = "begin"
  /\ LockProduct(o)
  /\ giftClaimsCount < maxGiftClaims
  /\ individual \/ request[o].stock > 0
  /\ GoTo(o, IF individual THEN "pick" ELSE "commit")
  /\ UNCHANGED <<product, rows, itemLock, rewards>>

\* findFirst: a plain read, which sees through the locks of others.
PickItem(o, i) ==
  /\ request[o].at = "pick" /\ itemStatus[i] = "AVAILABLE"
  /\ request' = [request EXCEPT ![o].at = "take", ![o].item = i]
  /\ UNCHANGED <<product, rows, locks, rewards>>

\* The update names the item and no status: it waits for the row and then takes it.
TakeItem(o) ==
  LET i == request[o].item IN
  /\ request[o].at = "take" /\ itemLock[i] = NoOrder
  /\ itemLock' = [itemLock EXCEPT ![i] = o]
  /\ GoTo(o, "commit")
  /\ UNCHANGED <<product, rows, productLock, rewards>>

\* Mutant: the stock that was read, less one.
CommitStaleStock(o) ==
  /\ request[o].at = "commit"
  /\ giftClaimsCount' = giftClaimsCount + 1
  /\ IF individual
     THEN /\ itemStatus' = [itemStatus EXCEPT ![request[o].item] = "SOLD"]
          /\ itemOrder' = [itemOrder EXCEPT ![request[o].item] = o]
          /\ UNCHANGED stock
     ELSE stock' = request[o].stock - 1 /\ UNCHANGED <<itemStatus, itemOrder>>
  /\ status' = [status EXCEPT ![o] = "PAID"]
  /\ Unlock(o) /\ GoTo(o, "done")
  /\ UNCHANGED <<product, rewards>>

\* The order walks to PAID in the same transaction, which sells the item it took.
CommitClaim(o) ==
  /\ request[o].at = "commit"
  /\ giftClaimsCount' = giftClaimsCount + 1
  /\ IF individual
     THEN /\ itemStatus' = [itemStatus EXCEPT ![request[o].item] = "SOLD"]
          /\ itemOrder' = [itemOrder EXCEPT ![request[o].item] = o]
          /\ UNCHANGED stock
     ELSE stock' = stock - 1 /\ UNCHANGED <<itemStatus, itemOrder>>
  /\ status' = [status EXCEPT ![o] = "PAID"]
  /\ Unlock(o) /\ GoTo(o, "done")
  /\ UNCHANGED <<product, rewards>>

-----------------------------------------------------------------------------
(* The shop: what orders and inventory do to the same rows *)

\* reserveIndividualItems locks an available item nobody else has locked;
\* reserveQuantity is one guarded decrement.  Only the checkout of a product that is
\* also an instant gift is followed: of a social reward the module follows the claims.
BeginCheckout(o) ==
  /\ product.giftType = "INSTANT_FREE" /\ request[o].at = "idle"
  /\ IF individual
     THEN \E i \in Items :
            /\ itemStatus[i] = "AVAILABLE" /\ itemLock[i] = NoOrder
            /\ itemLock' = [itemLock EXCEPT ![i] = o]
            /\ request' = [request EXCEPT ![o].at = "commit", ![o].item = i]
            /\ UNCHANGED productLock
     ELSE stock >= 1 /\ LockProduct(o) /\ GoTo(o, "commit") /\ UNCHANGED itemLock
  /\ UNCHANGED <<product, rows, rewards>>

CommitCheckout(o) ==
  /\ request[o].at = "commit"
  /\ IF individual
     THEN /\ itemStatus' = [itemStatus EXCEPT ![request[o].item] = "RESERVED"]
          /\ itemOrder' = [itemOrder EXCEPT ![request[o].item] = o]
          /\ UNCHANGED stock
     ELSE stock' = stock - 1 /\ UNCHANGED <<itemStatus, itemOrder>>
  /\ status' = [status EXCEPT ![o] = "PENDING_PAYMENT"]
  /\ Unlock(o) /\ GoTo(o, "done")
  /\ UNCHANGED <<product, giftClaimsCount, rewards>>

ItemsOf(o) == {i \in Items : itemOrder[i] = o}

\* However it is paid, the items the order still holds are sold.
Pay(o) ==
  /\ status[o] = "PENDING_PAYMENT" /\ \A i \in ItemsOf(o) : itemLock[i] = NoOrder
  /\ status' = [status EXCEPT ![o] = "PAID"]
  /\ itemStatus' = [i \in Items |-> IF itemOrder[i] = o /\ itemStatus[i] = "RESERVED"
                                    THEN "SOLD" ELSE itemStatus[i]]
  /\ UNCHANGED <<product, itemOrder, stock, giftClaimsCount, locks, request, rewards>>

\* Reserved items and the unit go back: an unpaid order is called off, or a gift that
\* was disputed is.  The gift stays counted.
Cancel(o) ==
  /\ \/ status[o] = "PENDING_PAYMENT"
     \/ o \in Claims /\ status[o] = "PAID"
  /\ \A i \in ItemsOf(o) : itemLock[i] = NoOrder
  /\ IF individual THEN UNCHANGED stock ELSE productLock = NoOrder /\ stock' = stock + 1
  /\ status' = [status EXCEPT ![o] = "CANCELLED"]
  /\ itemStatus' = [i \in Items |-> IF itemOrder[i] = o /\ itemStatus[i] = "RESERVED"
                                    THEN "AVAILABLE" ELSE itemStatus[i]]
  /\ itemOrder' = [i \in Items |-> IF itemOrder[i] = o /\ itemStatus[i] = "RESERVED"
                                   THEN NoOrder ELSE itemOrder[i]]
  /\ UNCHANGED <<product, giftClaimsCount, locks, request, rewards>>

disable(i) ==
  /\ individual /\ itemStatus[i] # "DISABLED" /\ itemLock[i] = NoOrder
  /\ itemStatus' = [itemStatus EXCEPT ![i] = "DISABLED"]
  /\ UNCHANGED <<product, status, itemOrder, stock, giftClaimsCount, locks, request, rewards>>

-----------------------------------------------------------------------------
(* Social rewards: no transaction around a check and the write it allows *)

CheckReward(r) ==
  /\ product.giftType = "SOCIAL_REWARD" /\ rewardStatus[r] = "NONE"
  /\ \A q \in Rewards : Owner[q] = Owner[r] => rewardStatus[q] \notin {"PENDING", "APPROVED"}
  /\ rewardStatus' = [rewardStatus EXCEPT ![r] = "CHECKED"]
  /\ UNCHANGED <<product, rows, locks, request, rewardOrder>>

submitSocialReward(r) ==
  /\ rewardStatus[r] = "CHECKED"
  /\ rewardStatus' = [rewardStatus EXCEPT ![r] = "PENDING"]
  /\ UNCHANGED <<product, rows, locks, request, rewardOrder>>

ReadReward(o, r) ==
  /\ request[o].at = "idle" /\ rewardStatus[r] = "PENDING"
  /\ request' = [request EXCEPT ![o].at = "decide", ![o].reward = r]
  /\ UNCHANGED <<product, rows, locks, rewards>>

\* A paid order for the product; no item, no unit and no count of gifts is taken.
approveSocialReward(o) ==
  LET r == request[o].reward IN
  /\ request[o].at = "decide"
  /\ rewardStatus' = [rewardStatus EXCEPT ![r] = "APPROVED"]
  /\ rewardOrder' = [rewardOrder EXCEPT ![r] = o]
  /\ status' = [status EXCEPT ![o] = "PAID"]
  /\ GoTo(o, "done")
  /\ UNCHANGED <<product, itemStatus, itemOrder, stock, giftClaimsCount, locks>>

rejectSocialReward(o) ==
  /\ request[o].at = "decide"
  /\ rewardStatus' = [rewardStatus EXCEPT ![request[o].reward] = "REJECTED"]
  /\ GoTo(o, "done")
  /\ UNCHANGED <<product, rows, locks, rewardOrder>>

-----------------------------------------------------------------------------

Claiming(o) ==
  \/ ReadProduct(o) \/ CheckClaimed(o) \/ CountClaim(o)
  \/ \E i \in Items : PickItem(o, i)
  \/ TakeItem(o) \/ CommitClaim(o)

Next ==
  \/ \E o \in Claims : Claiming(o)
  \/ \E o \in Checkouts : BeginCheckout(o) \/ CommitCheckout(o) \/ Pay(o)
  \/ \E o \in Orders : Cancel(o) \/ Abort(o)
  \/ \E i \in Items : disable(i)
  \/ \E r \in Rewards : CheckReward(r) \/ submitSocialReward(r)
  \/ \E o \in Reviews :
       \/ \E r \in Rewards : ReadReward(o, r)
       \/ approveSocialReward(o) \/ rejectSocialReward(o)

Spec == Init /\ [][Next]_vars

-----------------------------------------------------------------------------
(* Properties *)

Given == {o \in Claims : status[o] # "NONE"}
Live(S) == {o \in S : status[o] \in {"PENDING_PAYMENT", "PAID"}}

\* The limit on gifts is kept whatever claims overlap, and a claim that failed half
\* way, for want of an item or stock, is not counted against it.
GiftsCounted == giftClaimsCount = Cardinality(Given) /\ giftClaimsCount <= maxGiftClaims

\* A gift that was given keeps its item: no other claim, checkout, payment or
\* cancellation ends up with it. (Staff may disable it.)
GiftKeepsItsItem ==
  individual => \A o \in Live(Claims) :
    \E i \in ItemsOf(o) : itemStatus[i] \in {"SOLD", "DISABLED"}

\* The units in stock and those of orders that stand are all there ever were, though
\* a gift decrements on the strength of an old read.
UnitsAddUp == ~individual => stock + Cardinality(Live(Claims \cup Checkouts)) = InitialStock

\* An item a checkout reserved is that order's until it is cancelled or the item is
\* disabled. (The code does not keep this: see the run.)
ReservationsAreKept ==
  individual => \A o \in Live(Checkouts) : ItemsOf(o) # {}
=============================================================================
