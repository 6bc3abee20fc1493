------------------------------ MODULE GiftsProofs ------------------------------
(***************************************************************************)
(* What Gifts keeps true whatever the constants are.                       *)
(***************************************************************************)
EXTENDS Gifts, FiniteSetTheorems, TLAPS

RequestRows ==
  [at : Steps, stock : Int, item : Items \cup {NoItem}, reward : Rewards \cup {NoReward}]

LEMMA InitType == Init => TypeOK
BY CountsAssumption DEF Init, TypeOK, Idle, Steps, individual

\* Giving locks back keeps their types.
LEMMA UnlockTyped ==
  ASSUME TypeOK, NEW o \in Orders, Unlock(o)
  PROVE  /\ productLock' \in Orders \cup {NoOrder}
         /\ itemLock' \in [Items -> Orders \cup {NoOrder}]
BY DEF TypeOK, Unlock

LEMMA GoToTyped ==
  ASSUME TypeOK, NEW o \in Orders, NEW step \in Steps, GoTo(o, step)
  PROVE  request' \in [Orders -> RequestRows]
BY DEF TypeOK, GoTo, RequestRows

LEMMA NextType == TypeOK /\ [Next]_vars => TypeOK'
<1> SUFFICES ASSUME TypeOK, [Next]_vars PROVE TypeOK'
  OBVIOUS
<1> USE DEF Steps, RequestRows
<1>1. ASSUME NEW o \in Claims, Claiming(o) PROVE TypeOK'
  <2>0. o \in Orders
    BY DEF Orders
  <2>1. CASE ReadProduct(o)
    <3>1. request \in [Orders -> RequestRows] /\ stock \in Int
      BY DEF TypeOK
    <3>2. [request[o] EXCEPT !.at = "check", !.stock = stock] \in RequestRows
      BY <2>0, <3>1
    <3>3. request' = [request EXCEPT ![o] = [request[o] EXCEPT !.at = "check", !.stock = stock]]
      BY <2>1 DEF ReadProduct
    <3>4. request' \in [Orders -> RequestRows]
      BY <2>0, <3>1, <3>2, <3>3
    <3> QED BY <2>1, <3>4 DEF ReadProduct, TypeOK, rows, locks, rewards
  <2>2. CASE CheckClaimed(o)
    BY <2>0, <2>2, GoToTyped DEF CheckClaimed, TypeOK, rows, locks, rewards
  <2>3. CASE CountClaim(o)
    <3>1. GoTo(o, "pick") \/ GoTo(o, "commit")
      BY <2>3 DEF CountClaim
    <3>2. request' \in [Orders -> RequestRows]
      BY <2>0, <3>1, GoToTyped
    <3> QED BY <2>0, <2>3, <3>2 DEF CountClaim, LockProduct, TypeOK, rows, rewards
  <2>4. ASSUME NEW i \in Items, PickItem(o, i) PROVE TypeOK'
    <3>1. request \in [Orders -> RequestRows]
      BY DEF TypeOK
    <3>2. [request[o] EXCEPT !.at = "take", !.item = i] \in RequestRows
      BY <2>0, <3>1
    <3>3. request' = [request EXCEPT ![o] = [request[o] EXCEPT !.at = "take", !.item = i]]
      BY <2>4 DEF PickItem
    <3>4. request' \in [Orders -> RequestRows]
      BY <2>0, <3>1, <3>2, <3>3
    <3> QED BY <2>4, <3>4 DEF PickItem, TypeOK, rows, locks, rewards
  <2>5. CASE TakeItem(o)
    BY <2>0, <2>5, GoToTyped DEF TakeItem, TypeOK, rows, rewards
  <2>6. CASE CommitClaim(o)
    <3>1. itemStatus' \in [Items -> {"AVAILABLE", "RESERVED", "SOLD", "DISABLED"}]
          /\ itemOrder' \in [Items -> Orders \cup {NoOrder}] /\ stock' \in Int
      BY <2>0, <2>6 DEF CommitClaim, TypeOK
    <3> QED BY <2>0, <2>6, <3>1, UnlockTyped, GoToTyped DEF CommitClaim, TypeOK, rewards
  <2> QED BY <1>1, <2>1, <2>2, <2>3, <2>4, <2>5, <2>6 DEF Claiming
<1>2. ASSUME NEW o \in Checkouts, BeginCheckout(o) \/ CommitCheckout(o) \/ Pay(o) PROVE TypeOK'
  <2>0. o \in Orders
    BY DEF Orders
  <2>1. CASE BeginCheckout(o)
    <3>1. CASE individual
      <4>1. PICK i \in Items :
              /\ itemLock' = [itemLock EXCEPT ![i] = o]
              /\ request' = [request EXCEPT ![o].at = "commit", ![o].item = i]
        BY <2>1, <3>1 DEF BeginCheckout
      <4>2. itemLock' \in [Items -> Orders \cup {NoOrder}]
        BY <2>0, <4>1 DEF TypeOK
      <4>3. request' \in [Orders -> RequestRows]
        <5>1. request \in [Orders -> RequestRows]
          BY DEF TypeOK
        <5>2. [request[o] EXCEPT !.at = "commit", !.item = i] \in RequestRows
          BY <2>0, <5>1
        <5> QED BY <2>0, <4>1, <5>1, <5>2
      <4>4. productLock' = productLock /\ UNCHANGED <<product, rows, rewards>>
        BY <2>1, <3>1 DEF BeginCheckout
      <4> QED BY <4>2, <4>3, <4>4 DEF TypeOK, rows, rewards
    <3>2. CASE ~individual
      BY <2>0, <2>1, <3>2, GoToTyped DEF BeginCheckout, LockProduct, TypeOK, rows, rewards
    <3> QED BY <3>1, <3>2
  <2>2. CASE CommitCheckout(o)
    <3>1. itemStatus' \in [Items -> {"AVAILABLE", "RESERVED", "SOLD", "DISABLED"}]
          /\ itemOrder' \in [Items -> Orders \cup {NoOrder}] /\ stock' \in Int
      BY <2>0, <2>2 DEF CommitCheckout, TypeOK
    <3> QED BY <2>0, <2>2, <3>1, UnlockTyped, GoToTyped DEF CommitCheckout, TypeOK, rewards
  <2>3. CASE Pay(o)
    BY <2>0, <2>3 DEF Pay, TypeOK, locks, rewards
  <2> QED BY <1>2, <2>1, <2>2, <2>3
<1>3. ASSUME NEW o \in Orders, Cancel(o) PROVE TypeOK'
  <2>1. /\ status' \in [Orders -> {"NONE", "PENDING_PAYMENT", "PAID", "CANCELLED"}]
        /\ itemStatus' \in [Items -> {"AVAILABLE", "RESERVED", "SOLD", "DISABLED"}]
        /\ itemOrder' \in [Items -> Orders \cup {NoOrder}]
    BY <1>3 DEF Cancel, TypeOK
  <2>2. stock' \in Int
    BY <1>3 DEF Cancel, TypeOK
  <2> QED BY <1>3, <2>1, <2>2 DEF Cancel, TypeOK, locks, rewards
<1>4. ASSUME NEW o \in Orders, Abort(o) PROVE TypeOK'
  BY <1>4, UnlockTyped, GoToTyped DEF Abort, TypeOK, rows, rewards
<1>5. ASSUME NEW i \in Items, disable(i) PROVE TypeOK'
  BY <1>5 DEF disable, TypeOK, locks, rewards
<1>6. ASSUME NEW r \in Rewards, CheckReward(r) \/ submitSocialReward(r) PROVE TypeOK'
  BY <1>6 DEF CheckReward, submitSocialReward, TypeOK, rows, locks
<1>7. ASSUME NEW o \in Reviews, NEW r \in Rewards, ReadReward(o, r) PROVE TypeOK'
  <2>0. o \in Orders /\ request \in [Orders -> RequestRows]
    BY DEF Orders, TypeOK
  <2>1. [request[o] EXCEPT !.at = "decide", !.reward = r] \in RequestRows
    BY <2>0
  <2>2. request' \in [Orders -> RequestRows]
    BY <1>7, <2>0, <2>1 DEF ReadReward
  <2> QED BY <1>7, <2>2 DEF ReadReward, TypeOK, rows, locks, rewards
<1>8. ASSUME NEW o \in Reviews, approveSocialReward(o) \/ rejectSocialReward(o) PROVE TypeOK'
  <2>0. o \in Orders
    BY DEF Orders
  <2>1. CASE approveSocialReward(o)
    BY <2>0, <2>1, GoToTyped DEF approveSocialReward, TypeOK, locks
  <2>2. CASE rejectSocialReward(o)
    BY <2>0, <2>2, GoToTyped DEF rejectSocialReward, TypeOK, rows, locks
  <2> QED BY <1>8, <2>1, <2>2
<1>9. CASE UNCHANGED vars
  BY <1>9 DEF vars, rows, locks, rewards, TypeOK
<1> QED
  BY <1>1, <1>2, <1>3, <1>4, <1>5, <1>6, <1>7, <1>8, <1>9 DEF Next

\* The types hold in every reachable state.
THEOREM TypeCorrect == Spec => []TypeOK
BY InitType, NextType, PTL DEF Spec

-----------------------------------------------------------------------------
(* The inductive invariant *)

\* A claim keeps the product's row from its count to its end, with room for it.
RowHeld ==
  \A o \in Claims : request[o].at \in {"pick", "take", "commit"} =>
    productLock = o /\ giftClaimsCount < maxGiftClaims

\* An order is there once its request is done, and only a checkout's waits for money.
Fresh == \A o \in Orders : request[o].at # "done" => status[o] = "NONE"
Kinds == \A o \in Orders : status[o] = "PENDING_PAYMENT" => o \in Checkouts

\* An item for sale is nobody's; one that is being taken is locked, and by a checkout
\* since it was for sale; no gift has it.
Free == \A i \in Items : itemStatus[i] = "AVAILABLE" => itemOrder[i] = NoOrder
Held ==
  individual => \A o \in Orders : request[o].at = "commit" =>
    /\ request[o].item \in Items /\ itemLock[request[o].item] = o
    /\ o \in Checkouts => itemStatus[request[o].item] = "AVAILABLE"
Taking ==
  individual => \A o \in Claims : request[o].at \in {"take", "commit"} =>
    request[o].item \in Items /\ itemOrder[request[o].item] \notin Claims

CountInv == RowHeld /\ Fresh /\ Kinds /\ GiftsCounted /\ UnitsAddUp
ItemInv == Free /\ Held /\ Taking /\ GiftKeepsItsItem

LEMMA RequestsApart ==
  /\ \A o \in Claims : o \in Orders /\ o \notin Checkouts /\ o \notin Reviews
  /\ \A o \in Checkouts : o \in Orders /\ o \notin Claims /\ o \notin Reviews
  /\ \A o \in Reviews : o \in Orders /\ o \notin Claims /\ o \notin Checkouts
BY RequestsAssumption DEF Orders

\* The steps that change neither an order, nor the count, nor the stock.
Reading(o) ==
  \/ o \in Claims /\ (ReadProduct(o) \/ CheckClaimed(o) \/ CountClaim(o) \/ TakeItem(o))
  \/ o \in Claims /\ \E i \in Items : PickItem(o, i)
  \/ o \in Checkouts /\ BeginCheckout(o)
  \/ o \in Reviews /\ (rejectSocialReward(o) \/ \E r \in Rewards : ReadReward(o, r))
  \/ Abort(o)

Beside == \/ \E i \in Items : disable(i)
          \/ \E r \in Rewards : CheckReward(r) \/ submitSocialReward(r)
          \/ UNCHANGED vars

LEMMA NextCases ==
  ASSUME [Next]_vars
  PROVE  \/ \E o \in Orders : Reading(o) \/ Cancel(o)
         \/ \E o \in Claims : CommitClaim(o)
         \/ \E o \in Checkouts : CommitCheckout(o) \/ Pay(o)
         \/ \E o \in Reviews : approveSocialReward(o)
         \/ Beside
BY RequestsApart DEF Next, Claiming, Reading, Beside

LEMMA ReadingKeeps ==
  ASSUME TypeOK, NEW o \in Orders, Reading(o)
  PROVE  /\ UNCHANGED <<product, rows>>
         /\ \A p \in Orders \ {o} : request'[p] = request[p]
         /\ request[o].at # "done"
<1> USE DEF Reading, rows
<1>1. request \in [Orders -> RequestRows]
  BY DEF TypeOK, RequestRows
<1>2. UNCHANGED <<product, rows>>
  BY DEF ReadProduct, CheckClaimed, CountClaim, TakeItem, PickItem, BeginCheckout,
         rejectSocialReward, ReadReward, Abort
<1>3. \A p \in Orders \ {o} : request'[p] = request[p]
  BY <1>1 DEF ReadProduct, CheckClaimed, CountClaim, TakeItem, PickItem, BeginCheckout,
              rejectSocialReward, ReadReward, Abort, GoTo
<1>4. request[o].at # "done"
  BY DEF ReadProduct, CheckClaimed, CountClaim, TakeItem, PickItem, BeginCheckout,
         rejectSocialReward, ReadReward, Abort
<1> QED BY <1>2, <1>3, <1>4

LEMMA BesideKeeps ==
  ASSUME Beside
  PROVE  UNCHANGED <<product, status, itemOrder, stock, giftClaimsCount, locks, request>>
BY DEF Beside, disable, CheckReward, submitSocialReward, vars, rows, locks

LEMMA FreshNext == TypeOK /\ Fresh /\ [Next]_vars => Fresh'
<1> SUFFICES ASSUME TypeOK, Fresh, [Next]_vars PROVE Fresh'
  OBVIOUS
<1>0. /\ request \in [Orders -> RequestRows]
      /\ status \in [Orders -> {"NONE", "PENDING_PAYMENT", "PAID", "CANCELLED"}]
  BY DEF TypeOK, RequestRows
<1>1. ASSUME NEW o \in Orders, Reading(o) PROVE Fresh'
  BY <1>1, ReadingKeeps DEF Fresh, rows
<1>2. ASSUME NEW o \in Orders, Cancel(o) PROVE Fresh'
  BY <1>0, <1>2 DEF Cancel, Fresh
<1>3. ASSUME NEW o \in Claims, CommitClaim(o) PROVE Fresh'
  BY <1>0, <1>3, RequestsApart DEF CommitClaim, GoTo, Fresh, RequestRows
<1>4. ASSUME NEW o \in Checkouts, CommitCheckout(o) PROVE Fresh'
  BY <1>0, <1>4, RequestsApart DEF CommitCheckout, GoTo, Fresh, RequestRows
<1>5. ASSUME NEW o \in Checkouts, Pay(o) PROVE Fresh'
  BY <1>0, <1>5 DEF Pay, Fresh
<1>6. ASSUME NEW o \in Reviews, approveSocialReward(o) PROVE Fresh'
  BY <1>0, <1>6, RequestsApart DEF approveSocialReward, GoTo, Fresh, RequestRows
<1>7. ASSUME Beside PROVE Fresh'
  BY <1>7, BesideKeeps DEF Fresh
<1> QED
  BY <1>1, <1>2, <1>3, <1>4, <1>5, <1>6, <1>7, NextCases

LEMMA KindsNext == TypeOK /\ Fresh /\ Kinds /\ [Next]_vars => Kinds'
<1> SUFFICES ASSUME TypeOK, Fresh, Kinds, [Next]_vars PROVE Kinds'
  OBVIOUS
<1>0. status \in [Orders -> {"NONE", "PENDING_PAYMENT", "PAID", "CANCELLED"}]
  BY DEF TypeOK
<1>1. ASSUME NEW o \in Orders, Reading(o) PROVE Kinds'
  BY <1>1, ReadingKeeps DEF Kinds, rows
<1>2. ASSUME NEW o \in Orders, Cancel(o) PROVE Kinds'
  BY <1>0, <1>2 DEF Cancel, Kinds
<1>3. ASSUME NEW o \in Claims, CommitClaim(o) PROVE Kinds'
  BY <1>0, <1>3, RequestsApart DEF CommitClaim, Kinds
<1>4. ASSUME NEW o \in Checkouts, CommitCheckout(o) PROVE Kinds'
  BY <1>0, <1>4, RequestsApart DEF CommitCheckout, Kinds
<1>5. ASSUME NEW o \in Checkouts, Pay(o) PROVE Kinds'
  BY <1>0, <1>5 DEF Pay, Kinds
<1>6. ASSUME NEW o \in Reviews, approveSocialReward(o) PROVE Kinds'
  BY <1>0, <1>6, RequestsApart DEF approveSocialReward, Kinds
<1>7. ASSUME Beside PROVE Kinds'
  BY <1>7, BesideKeeps DEF Kinds
<1> QED
  BY <1>1, <1>2, <1>3, <1>4, <1>5, <1>6, <1>7, NextCases

\* Giving up one's own locks takes nothing from a claim that has the product's row.
LEMMA RowHeldNext == TypeOK /\ RowHeld /\ [Next]_vars => RowHeld'
<1> SUFFICES ASSUME TypeOK, RowHeld, [Next]_vars PROVE RowHeld'
  OBVIOUS
<1> DEFINE In(p) == request[p].at \in {"pick", "take", "commit"}
<1>0. request \in [Orders -> RequestRows]
  BY DEF TypeOK, RequestRows
<1>1. ASSUME NEW o \in Orders, Reading(o) PROVE RowHeld'
  <2>1. giftClaimsCount' = giftClaimsCount /\ \A p \in Orders \ {o} : request'[p] = request[p]
    BY <1>1, ReadingKeeps DEF rows
  <2>2. ASSUME NEW p \in Claims, p # o, In(p) PROVE productLock' = p
    <3>1. productLock = p /\ p # NoOrder
      BY <2>2, NothingAssumption, RequestsApart DEF RowHeld
    <3> QED BY <1>1, <2>2, <3>1 DEF Reading, ReadProduct, CheckClaimed, CountClaim, TakeItem,
                 PickItem, BeginCheckout, rejectSocialReward, ReadReward, Abort, LockProduct,
                 Unlock, locks
  <2>3. ASSUME o \in Claims, In(o)' PROVE productLock' = o /\ giftClaimsCount < maxGiftClaims
    <3>1. CASE CountClaim(o)
      BY <3>1 DEF CountClaim, LockProduct
    <3>2. CASE TakeItem(o) \/ \E i \in Items : PickItem(o, i)
      BY <2>3, <3>2 DEF TakeItem, PickItem, RowHeld, locks
    <3>3. CASE ReadProduct(o) \/ CheckClaimed(o) \/ Abort(o)
      BY <1>0, <2>3, <3>3, RequestsApart DEF ReadProduct, CheckClaimed, Abort, GoTo, RequestRows
    <3> QED BY <1>1, <2>3, <3>1, <3>2, <3>3, RequestsApart DEF Reading
  <2> QED BY <2>1, <2>2, <2>3, RequestsApart DEF RowHeld
<1>2. ASSUME NEW o \in Orders, Cancel(o) PROVE RowHeld'
  BY <1>2 DEF Cancel, RowHeld, locks
<1>3. ASSUME NEW o \in Claims, CommitClaim(o) PROVE RowHeld'
  <2>1. productLock = o
    BY <1>3 DEF CommitClaim, RowHeld
  <2>2. \A p \in Claims \ {o} : ~In(p)
    BY <2>1 DEF RowHeld
  <2>3. \A p \in Claims : ~In(p)'
    BY <1>0, <1>3, <2>2, RequestsApart DEF CommitClaim, GoTo, RequestRows
  <2> QED BY <2>3 DEF RowHeld
<1>4. ASSUME NEW o \in Checkouts, CommitCheckout(o) PROVE RowHeld'
  <2>1. \A p \in Claims : p # o /\ request'[p] = request[p]
    BY <1>0, <1>4, RequestsApart DEF CommitCheckout, GoTo
  <2> QED BY <1>4, <2>1 DEF CommitCheckout, Unlock, RowHeld
<1>5. ASSUME NEW o \in Checkouts, Pay(o) PROVE RowHeld'
  BY <1>5 DEF Pay, RowHeld, locks
<1>6. ASSUME NEW o \in Reviews, approveSocialReward(o) PROVE RowHeld'
  <2>1. \A p \in Claims : request'[p] = request[p]
    BY <1>0, <1>6, RequestsApart DEF approveSocialReward, GoTo
  <2> QED BY <1>6, <2>1 DEF approveSocialReward, RowHeld, locks
<1>7. ASSUME Beside PROVE RowHeld'
  BY <1>7, BesideKeeps DEF RowHeld, locks
<1> QED
  BY <1>1, <1>2, <1>3, <1>4, <1>5, <1>6, <1>7, NextCases

-----------------------------------------------------------------------------
(* Counting *)

LEMMA OrdersFinite ==
  /\ IsFiniteSet(Given) /\ Cardinality(Given) \in Nat
  /\ IsFiniteSet(Live(Claims \cup Checkouts)) /\ Cardinality(Live(Claims \cup Checkouts)) \in Nat
<1>1. Given \subseteq Orders /\ Live(Claims \cup Checkouts) \subseteq Orders
  BY DEF Given, Live, Orders
<1> QED BY <1>1, FiniteAssumption, FS_Subset, FS_CardinalityType

LEMMA GiftsCountedNext ==
  TypeOK /\ RowHeld /\ Fresh /\ GiftsCounted /\ [Next]_vars => GiftsCounted'
<1> SUFFICES ASSUME TypeOK, RowHeld, Fresh, GiftsCounted, [Next]_vars PROVE GiftsCounted'
  OBVIOUS
<1>0. /\ status \in [Orders -> {"NONE", "PENDING_PAYMENT", "PAID", "CANCELLED"}]
      /\ giftClaimsCount \in Nat
  BY DEF TypeOK
<1>1. ASSUME UNCHANGED giftClaimsCount, \A p \in Claims : status'[p] = "NONE" <=> status[p] = "NONE"
      PROVE  GiftsCounted'
  <2>1. Given' = Given
    BY <1>1 DEF Given
  <2> QED BY <1>1, <2>1 DEF GiftsCounted
<1>2. ASSUME NEW o \in Orders, Reading(o) PROVE GiftsCounted'
  BY <1>1, <1>2, ReadingKeeps DEF rows
<1>3. ASSUME NEW o \in Orders, Cancel(o) PROVE GiftsCounted'
  BY <1>0, <1>1, <1>3, RequestsApart DEF Cancel
<1>4. ASSUME NEW o \in Claims, CommitClaim(o) PROVE GiftsCounted'
  <2>1. status[o] = "NONE" /\ giftClaimsCount < maxGiftClaims
    BY <1>4, RequestsApart DEF CommitClaim, Fresh, RowHeld
  <2>2. o \notin Given /\ Given' = Given \cup {o}
    BY <1>0, <1>4, <2>1, RequestsApart DEF CommitClaim, Given
  <2>3. Cardinality(Given') = Cardinality(Given) + 1
    BY <2>2, OrdersFinite, FS_AddElement
  <2> QED BY <1>0, <1>4, <2>1, <2>3, CountsAssumption DEF CommitClaim, GiftsCounted
<1>5. ASSUME NEW o \in Checkouts, CommitCheckout(o) PROVE GiftsCounted'
  BY <1>0, <1>1, <1>5, RequestsApart DEF CommitCheckout
<1>6. ASSUME NEW o \in Checkouts, Pay(o) PROVE GiftsCounted'
  BY <1>0, <1>1, <1>6, RequestsApart DEF Pay
<1>7. ASSUME NEW o \in Reviews, approveSocialReward(o) PROVE GiftsCounted'
  BY <1>0, <1>1, <1>7, RequestsApart DEF approveSocialReward
<1>8. ASSUME Beside PROVE GiftsCounted'
  BY <1>1, <1>8, BesideKeeps
<1> QED
  BY <1>2, <1>3, <1>4, <1>5, <1>6, <1>7, <1>8, NextCases

LEMMA UnitsNext ==
  TypeOK /\ Fresh /\ Kinds /\ UnitsAddUp /\ [Next]_vars => UnitsAddUp'
<1> SUFFICES ASSUME TypeOK, Fresh, Kinds, UnitsAddUp, [Next]_vars PROVE UnitsAddUp'
  OBVIOUS
<1> DEFINE U == Live(Claims \cup Checkouts)
<1>0. /\ status \in [Orders -> {"NONE", "PENDING_PAYMENT", "PAID", "CANCELLED"}]
      /\ stock \in Int /\ InitialStock \in Nat
      /\ IsFiniteSet(U) /\ Cardinality(U) \in Nat
  BY OrdersFinite, CountsAssumption DEF TypeOK
<1>1. ASSUME UNCHANGED <<product, stock>>, U' = U PROVE UnitsAddUp'
  BY <1>1 DEF UnitsAddUp, individual
<1>2. ASSUME NEW o \in Claims \cup Checkouts, status[o] = "NONE", UNCHANGED product,
             ~individual => stock' = stock - 1,
             status' = [status EXCEPT ![o] = "PAID"] \/ status' = [status EXCEPT ![o] = "PENDING_PAYMENT"]
      PROVE  UnitsAddUp'
  <2>1. o \notin U /\ U' = U \cup {o}
    BY <1>0, <1>2, RequestsApart DEF Live
  <2>2. Cardinality(U') = Cardinality(U) + 1
    BY <1>0, <2>1, FS_AddElement
  <2> QED BY <1>0, <1>2, <2>2 DEF UnitsAddUp, individual
<1>3. ASSUME NEW o \in Orders, Reading(o) PROVE UnitsAddUp'
  BY <1>1, <1>3, ReadingKeeps DEF rows, Live
<1>4. ASSUME NEW o \in Orders, Cancel(o) PROVE UnitsAddUp'
  <2>1. o \in U /\ U' = U \ {o}
    <3>1. o \in Claims \cup Checkouts /\ status[o] \in {"PENDING_PAYMENT", "PAID"}
      BY <1>4 DEF Cancel, Kinds
    <3>2. \A p \in Orders : status'[p] = IF p = o THEN "CANCELLED" ELSE status[p]
      BY <1>0, <1>4 DEF Cancel
    <3> QED BY <3>1, <3>2, RequestsApart DEF Live
  <2>2. Cardinality(U') = Cardinality(U) - 1
    BY <1>0, <2>1, FS_RemoveElement
  <2>3. individual' = individual /\ (~individual => stock' = stock + 1)
    BY <1>4 DEF Cancel, individual
  <2> HIDE DEF U
  <2>4. ~individual => stock + Cardinality(U) = InitialStock
    BY DEF UnitsAddUp, U
  <2>5. ~individual => stock' + Cardinality(U') = InitialStock
    BY <1>0, <2>2, <2>3, <2>4
  <2> QED BY <2>3, <2>5 DEF UnitsAddUp, U
<1>5. ASSUME NEW o \in Claims, CommitClaim(o) PROVE UnitsAddUp'
  BY <1>2, <1>5, RequestsApart DEF CommitClaim, Fresh
<1>6. ASSUME NEW o \in Checkouts, CommitCheckout(o) PROVE UnitsAddUp'
  BY <1>2, <1>6, RequestsApart DEF CommitCheckout, Fresh
<1>7. ASSUME NEW o \in Checkouts, Pay(o) PROVE UnitsAddUp'
  BY <1>0, <1>1, <1>7, RequestsApart DEF Pay, Live
<1>8. ASSUME NEW o \in Reviews, approveSocialReward(o) PROVE UnitsAddUp'
  BY <1>0, <1>1, <1>8, RequestsApart DEF approveSocialReward, Live
<1>9. ASSUME Beside PROVE UnitsAddUp'
  BY <1>1, <1>9, BesideKeeps DEF Live
<1> QED
  BY <1>3, <1>4, <1>5, <1>6, <1>7, <1>8, <1>9, NextCases

-----------------------------------------------------------------------------
(* Whose item it is *)

\* A step that leaves the items and the requests alone, but for one that is not taking.
LEMMA ItemsUntouched ==
  ASSUME ItemInv, UNCHANGED <<product, itemStatus, itemOrder, itemLock>>,
         \A p \in Orders : request'[p] = request[p] \/ request'[p].at \notin {"take", "commit"},
         \A p \in Claims : status'[p] \in {"PENDING_PAYMENT", "PAID"} => status'[p] = status[p]
  PROVE  ItemInv'
<1>1. Free' /\ Held' /\ Taking'
  BY RequestsApart DEF ItemInv, Free, Held, Taking, individual
<1>2. GiftKeepsItsItem'
  BY RequestsApart DEF ItemInv, GiftKeepsItsItem, individual, Live, ItemsOf
<1> QED BY <1>1, <1>2 DEF ItemInv

LEMMA ItemInvReading ==
  ASSUME TypeOK, ItemInv, NEW o \in Orders, Reading(o)
  PROVE  ItemInv'
<1>0. /\ request \in [Orders -> RequestRows] /\ itemLock \in [Items -> Orders \cup {NoOrder}]
      /\ NoOrder \notin Orders
  BY NothingAssumption DEF TypeOK, RequestRows
<1>1. /\ UNCHANGED <<product, status, itemStatus, itemOrder>>
      /\ \A p \in Orders \ {o} : request'[p] = request[p]
  BY ReadingKeeps DEF rows
<1>2. Free' /\ GiftKeepsItsItem'
  BY <1>1 DEF ItemInv, Free, GiftKeepsItsItem, individual, Live, ItemsOf
<1>3. CASE o \in Claims /\ (ReadProduct(o) \/ CheckClaimed(o) \/ CountClaim(o))
  <2>1. UNCHANGED itemLock
    BY <1>3 DEF ReadProduct, CheckClaimed, CountClaim, locks
  <2>2. individual => request'[o].at \notin {"take", "commit"}
    BY <1>0, <1>3, RequestsApart DEF ReadProduct, CheckClaimed, CountClaim, GoTo, RequestRows
  <2> QED BY <1>1, <1>2, <2>1, <2>2, RequestsApart DEF ItemInv, Held, Taking, individual
<1>4. CASE o \in Claims /\ \E i \in Items : PickItem(o, i)
  <2>1. PICK i \in Items : PickItem(o, i)
    BY <1>4
  <2>2. request'[o].at = "take" /\ request'[o].item = i /\ UNCHANGED itemLock
    BY <1>0, <2>1 DEF PickItem, RequestRows, locks
  <2>3. itemOrder[i] = NoOrder
    BY <2>1 DEF PickItem, ItemInv, Free
  <2> QED BY <1>0, <1>1, <1>2, <2>2, <2>3, RequestsApart DEF ItemInv, Held, Taking, individual
<1>5. CASE o \in Claims /\ TakeItem(o)
  <2>0. o \notin Checkouts
    BY <1>5, RequestsApart
  <2>1. /\ request'[o].at = "commit" /\ request'[o].item = request[o].item
        /\ request[o].at = "take" /\ itemLock[request[o].item] = NoOrder
        /\ itemLock' = [itemLock EXCEPT ![request[o].item] = o]
    BY <1>0, <1>5 DEF TakeItem, GoTo, RequestRows
  <2>2. individual => request[o].item \in Items /\ itemLock'[request[o].item] = o
    BY <1>0, <1>5, <2>1 DEF ItemInv, Taking
  <2>3. ASSUME individual, NEW p \in Orders \ {o}, request[p].at = "commit"
        PROVE  itemLock'[request[p].item] = p
    BY <1>0, <2>1, <2>3 DEF ItemInv, Held
  <2>4. Held'
    BY <1>1, <2>0, <2>1, <2>2, <2>3 DEF ItemInv, Held, individual
  <2>5. Taking'
    BY <1>1, <1>5, <2>1, RequestsApart DEF ItemInv, Taking, individual
  <2> QED BY <1>2, <2>4, <2>5 DEF ItemInv
<1>6. CASE o \in Checkouts /\ BeginCheckout(o)
  <2>1. CASE individual
    <3>1. PICK i \in Items :
            /\ itemStatus[i] = "AVAILABLE" /\ itemLock[i] = NoOrder
            /\ itemLock' = [itemLock EXCEPT ![i] = o]
            /\ request' = [request EXCEPT ![o].at = "commit", ![o].item = i]
      BY <1>6, <2>1 DEF BeginCheckout
    <3>2. request'[o].at = "commit" /\ request'[o].item = i /\ itemLock'[i] = o
      <4>1. request[o] \in RequestRows
        BY <1>0
      <4>2. request'[o] = [request[o] EXCEPT !.at = "commit", !.item = i]
        BY <1>0, <3>1
      <4>3. itemLock'[i] = o
        BY <1>0, <3>1
      <4> QED BY <4>1, <4>2, <4>3 DEF RequestRows
    <3>3. ASSUME NEW p \in Orders \ {o}, request[p].at = "commit"
          PROVE  itemLock'[request[p].item] = p
      BY <1>0, <2>1, <3>1, <3>3 DEF ItemInv, Held
    <3>4. ASSUME NEW p \in Orders, request'[p].at = "commit"
          PROVE  /\ request'[p].item \in Items /\ itemLock'[request'[p].item] = p
                 /\ p \in Checkouts => itemStatus'[request'[p].item] = "AVAILABLE"
      <4>1. CASE p = o
        BY <1>1, <3>1, <3>2, <4>1
      <4>2. CASE p # o
        <5>1. request'[p] = request[p] /\ itemStatus' = itemStatus
          BY <1>1, <4>2
        <5>2. itemLock'[request[p].item] = p
          BY <3>3, <3>4, <4>2, <5>1
        <5> QED BY <2>1, <3>4, <5>1, <5>2 DEF ItemInv, Held
      <4> QED BY <4>1, <4>2
    <3>5. Held'
      BY <3>4 DEF Held
    <3>6. Taking'
      BY <1>1, <1>6, <2>1, RequestsApart DEF ItemInv, Taking, individual
    <3> QED BY <1>2, <3>5, <3>6 DEF ItemInv
  <2>2. CASE ~individual
    BY <1>1, <1>2, <2>2 DEF ItemInv, Held, Taking, individual
  <2> QED BY <2>1, <2>2
<1>7. CASE o \in Reviews /\ (rejectSocialReward(o) \/ \E r \in Rewards : ReadReward(o, r))
  <2>1. UNCHANGED itemLock /\ request'[o].at \notin {"take", "commit"}
    BY <1>0, <1>7 DEF rejectSocialReward, ReadReward, GoTo, RequestRows, locks
  <2> QED BY <1>1, <2>1, ItemsUntouched
<1>8. CASE Abort(o)
  <2>1. request'[o].at = "done"
    BY <1>0, <1>8 DEF Abort, GoTo, RequestRows
  <2>2. ASSUME individual, NEW p \in Orders \ {o}, request[p].at = "commit"
        PROVE  itemLock'[request[p].item] = p
    BY <1>0, <1>8, <2>2 DEF Abort, Unlock, ItemInv, Held
  <2>3. Held'
    BY <1>1, <2>1, <2>2 DEF ItemInv, Held, individual
  <2>4. Taking'
    BY <1>1, <2>1, RequestsApart DEF ItemInv, Taking, individual
  <2> QED BY <1>2, <2>3, <2>4 DEF ItemInv
<1> QED
  BY <1>3, <1>4, <1>5, <1>6, <1>7, <1>8 DEF Reading

LEMMA ItemInvClaim ==
  ASSUME TypeOK, RowHeld, Fresh, ItemInv, NEW o \in Claims, CommitClaim(o)
  PROVE  ItemInv'
<1> DEFINE i == request[o].item
<1>0. /\ request \in [Orders -> RequestRows] /\ itemLock \in [Items -> Orders \cup {NoOrder}]
      /\ itemStatus \in [Items -> {"AVAILABLE", "RESERVED", "SOLD", "DISABLED"}]
      /\ itemOrder \in [Items -> Orders \cup {NoOrder}]
      /\ status \in [Orders -> {"NONE", "PENDING_PAYMENT", "PAID", "CANCELLED"}]
      /\ NoOrder \notin Orders /\ o \in Orders /\ o \notin Checkouts
  BY NothingAssumption, RequestsApart DEF TypeOK, RequestRows
<1>1. request'[o].at = "done" /\ \A p \in Orders \ {o} : request'[p] = request[p]
  BY <1>0 DEF CommitClaim, GoTo, RequestRows
<1>2. product' = product /\ request[o].at = "commit" /\ status[o] = "NONE"
  BY <1>0 DEF CommitClaim, Fresh
<1>3. CASE ~individual
  <2>1. UNCHANGED <<itemStatus, itemOrder>>
    BY <1>3 DEF CommitClaim
  <2> QED BY <1>2, <1>3, <2>1 DEF ItemInv, Free, Held, Taking, GiftKeepsItsItem, individual
<1>4. CASE individual
  <2>1. /\ i \in Items /\ itemLock[i] = o /\ itemOrder[i] \notin Claims
        /\ itemStatus' = [itemStatus EXCEPT ![i] = "SOLD"] /\ itemOrder' = [itemOrder EXCEPT ![i] = o]
    BY <1>0, <1>2, <1>4 DEF CommitClaim, ItemInv, Held, Taking
  <2> HIDE DEF i
  <2>2. Free'
    BY <1>0, <2>1 DEF ItemInv, Free
  <2>3. ASSUME NEW p \in Orders \ {o}, request[p].at = "commit"
        PROVE  /\ request[p].item \in Items /\ itemLock'[request[p].item] = p
               /\ p \in Checkouts => itemStatus'[request[p].item] = "AVAILABLE"
    <3>1. request[p].item \in Items /\ itemLock[request[p].item] = p /\ request[p].item # i
      BY <1>4, <2>1, <2>3 DEF ItemInv, Held
    <3>2. itemLock'[request[p].item] = p
      BY <1>0, <2>3, <3>1 DEF CommitClaim, Unlock
    <3> QED BY <1>0, <1>4, <2>1, <2>3, <3>1, <3>2 DEF ItemInv, Held
  <2>4. Held'
    BY <1>1, <1>4, <2>3 DEF Held
  <2>5. ASSUME NEW p \in Claims PROVE request'[p].at \notin {"take", "commit"}
    <3>1. p # o => request[p].at \notin {"take", "commit"}
      BY <1>2 DEF RowHeld
    <3> QED BY <1>1, <3>1, RequestsApart
  <2>6. ASSUME NEW p \in Live(Claims)'
        PROVE  \E j \in Items : itemOrder'[j] = p /\ itemStatus'[j] \in {"SOLD", "DISABLED"}
    <3>1. CASE p = o
      BY <1>0, <2>1, <3>1
    <3>2. CASE p # o
      <4>1. p \in Live(Claims)
        BY <1>0, <3>2, RequestsApart DEF CommitClaim, Live
      <4>2. PICK j \in Items : itemOrder[j] = p /\ itemStatus[j] \in {"SOLD", "DISABLED"}
        BY <1>4, <4>1 DEF ItemInv, GiftKeepsItsItem, ItemsOf
      <4>3. j # i
        BY <2>1, <4>1, <4>2 DEF Live
      <4> QED BY <1>0, <2>1, <4>2, <4>3
    <3> QED BY <3>1, <3>2
  <2>7. GiftKeepsItsItem'
    BY <2>6 DEF GiftKeepsItsItem, ItemsOf
  <2> QED BY <2>2, <2>4, <2>5, <2>7 DEF ItemInv, Taking
<1> QED BY <1>3, <1>4

LEMMA ItemInvCheckout ==
  ASSUME TypeOK, ItemInv, NEW o \in Checkouts, CommitCheckout(o)
  PROVE  ItemInv'
<1> DEFINE i == request[o].item
<1>0. /\ request \in [Orders -> RequestRows] /\ itemLock \in [Items -> Orders \cup {NoOrder}]
      /\ itemStatus \in [Items -> {"AVAILABLE", "RESERVED", "SOLD", "DISABLED"}]
      /\ itemOrder \in [Items -> Orders \cup {NoOrder}]
      /\ status \in [Orders -> {"NONE", "PENDING_PAYMENT", "PAID", "CANCELLED"}]
      /\ NoOrder \notin Orders /\ NoOrder \notin Claims /\ o \in Orders /\ o \notin Claims
  BY NothingAssumption, RequestsApart DEF TypeOK, RequestRows
<1>1. request'[o].at = "done" /\ \A p \in Orders \ {o} : request'[p] = request[p]
  BY <1>0 DEF CommitCheckout, GoTo, RequestRows
<1>2. product' = product /\ request[o].at = "commit" /\ Live(Claims)' = Live(Claims)
  BY <1>0, RequestsApart DEF CommitCheckout, Live
<1>3. CASE ~individual
  BY <1>2, <1>3 DEF CommitCheckout, ItemInv, Free, Held, Taking, GiftKeepsItsItem, individual
<1>4. CASE individual
  <2>1. /\ i \in Items /\ itemLock[i] = o /\ itemStatus[i] = "AVAILABLE" /\ itemOrder[i] = NoOrder
        /\ itemStatus' = [itemStatus EXCEPT ![i] = "RESERVED"] /\ itemOrder' = [itemOrder EXCEPT ![i] = o]
    BY <1>0, <1>2, <1>4 DEF CommitCheckout, ItemInv, Held, Free
  <2> HIDE DEF i
  <2>2. Free'
    BY <1>0, <2>1 DEF ItemInv, Free
  <2>3. ASSUME NEW p \in Orders \ {o}, request[p].at = "commit"
        PROVE  /\ request[p].item \in Items /\ itemLock'[request[p].item] = p
               /\ p \in Checkouts => itemStatus'[request[p].item] = "AVAILABLE"
    <3>1. request[p].item \in Items /\ itemLock[request[p].item] = p /\ request[p].item # i
      BY <1>4, <2>1, <2>3 DEF ItemInv, Held
    <3>2. itemLock'[request[p].item] = p
      BY <1>0, <2>3, <3>1 DEF CommitCheckout, Unlock
    <3> QED BY <1>0, <1>4, <2>1, <2>3, <3>1, <3>2 DEF ItemInv, Held
  <2>4. Held'
    BY <1>1, <1>4, <2>3 DEF Held
  <2>5. Taking'
    BY <1>0, <1>1, <1>4, <2>1, RequestsApart DEF ItemInv, Taking
  <2>6. GiftKeepsItsItem'
    <3>1. ASSUME NEW p \in Live(Claims), NEW j \in ItemsOf(p)
          PROVE  itemOrder'[j] = p /\ itemStatus'[j] = itemStatus[j]
      <4>1. j \in Items /\ itemOrder[j] = p /\ j # i
        BY <1>0, <2>1, <3>1 DEF Live, ItemsOf
      <4> QED BY <1>0, <2>1, <4>1
    <3> QED BY <1>2, <1>4, <3>1 DEF ItemInv, GiftKeepsItsItem, ItemsOf
  <2> QED BY <2>2, <2>4, <2>5, <2>6 DEF ItemInv
<1> QED BY <1>3, <1>4

\* Paying and cancelling move an order's reserved items only, and no gift's is.
LEMMA ItemInvSettled ==
  ASSUME TypeOK, Fresh, Kinds, ItemInv, NEW o \in Orders,
         (o \in Checkouts /\ Pay(o)) \/ Cancel(o)
  PROVE  ItemInv'
<1>0. /\ itemStatus \in [Items -> {"AVAILABLE", "RESERVED", "SOLD", "DISABLED"}]
      /\ itemOrder \in [Items -> Orders \cup {NoOrder}]
      /\ status \in [Orders -> {"NONE", "PENDING_PAYMENT", "PAID", "CANCELLED"}]
      /\ NoOrder \notin Orders /\ NoOrder \notin Claims
  BY NothingAssumption, RequestsApart DEF TypeOK
<1>1. UNCHANGED <<product, itemLock, request>>
  BY DEF Pay, Cancel, locks
<1>2. \A p \in Live(Claims)' : p \in Live(Claims)
  BY <1>0, RequestsApart DEF Pay, Cancel, Live
<1>3. ASSUME NEW i \in Items
      PROVE  /\ itemStatus[i] # "RESERVED" => itemStatus'[i] = itemStatus[i] /\ itemOrder'[i] = itemOrder[i]
             /\ itemOrder'[i] \in {itemOrder[i], NoOrder}
             /\ itemStatus'[i] = "AVAILABLE" => itemStatus[i] = "AVAILABLE" \/ itemOrder'[i] = NoOrder
  BY <1>0 DEF Pay, Cancel
<1>4. Free'
  BY <1>3 DEF ItemInv, Free
<1>5. Held'
  <2>1. ASSUME individual, NEW p \in Orders, request[p].at = "commit"
        PROVE  /\ request[p].item \in Items /\ itemLock[request[p].item] = p
               /\ p \in Checkouts => itemStatus'[request[p].item] = "AVAILABLE"
    BY <1>3, <2>1 DEF ItemInv, Held
  <2> QED BY <1>1, <2>1 DEF Held, individual
<1>6. Taking'
  <2>1. ASSUME individual, NEW p \in Claims, request[p].at \in {"take", "commit"}
        PROVE  request[p].item \in Items /\ itemOrder'[request[p].item] \notin Claims
    BY <1>0, <1>3, <2>1 DEF ItemInv, Taking
  <2> QED BY <1>1, <2>1 DEF Taking, individual
<1>7. GiftKeepsItsItem'
  <2>1. ASSUME individual, NEW p \in Live(Claims)'
        PROVE  \E j \in Items : itemOrder'[j] = p /\ itemStatus'[j] \in {"SOLD", "DISABLED"}
    <3>1. PICK j \in Items : itemOrder[j] = p /\ itemStatus[j] \in {"SOLD", "DISABLED"}
      BY <1>2, <2>1 DEF ItemInv, GiftKeepsItsItem, ItemsOf
    <3> QED BY <1>3, <3>1
  <2> QED BY <1>1, <2>1 DEF GiftKeepsItsItem, ItemsOf, individual
<1> QED BY <1>4, <1>5, <1>6, <1>7 DEF ItemInv

LEMMA ItemInvDisable ==
  ASSUME TypeOK, ItemInv, NEW i \in Items, disable(i)
  PROVE  ItemInv'
<1>0. itemStatus \in [Items -> {"AVAILABLE", "RESERVED", "SOLD", "DISABLED"}]
  BY DEF TypeOK
<1>1. UNCHANGED <<product, status, itemOrder, itemLock, request>> /\ individual /\ itemLock[i] = NoOrder
  BY DEF disable, locks
<1>2. \A j \in Items : itemStatus'[j] = IF j = i THEN "DISABLED" ELSE itemStatus[j]
  BY <1>0 DEF disable
<1>3. Free' /\ Taking' /\ GiftKeepsItsItem'
  BY <1>1, <1>2 DEF ItemInv, Free, Taking, GiftKeepsItsItem, Live, ItemsOf, individual
<1>4. ASSUME NEW p \in Orders, request[p].at = "commit"
      PROVE  /\ request[p].item \in Items /\ itemLock[request[p].item] = p
             /\ p \in Checkouts => itemStatus'[request[p].item] = "AVAILABLE"
  BY <1>1, <1>2, <1>4, NothingAssumption DEF ItemInv, Held
<1>5. Held'
  BY <1>1, <1>4 DEF Held
<1> QED BY <1>3, <1>5 DEF ItemInv

Inv == TypeOK /\ CountInv /\ ItemInv

LEMMA InitInv == Init => Inv
<1> SUFFICES ASSUME Init PROVE Inv
  OBVIOUS
<1>1. Given = {} /\ Live(Claims \cup Checkouts) = {} /\ Live(Claims) = {}
  BY DEF Init, Given, Live, Orders
<1>2. Cardinality(Given) = 0 /\ Cardinality(Live(Claims \cup Checkouts)) = 0
  BY <1>1, FS_EmptySet
<1>3. GiftsCounted /\ UnitsAddUp
  BY <1>2, CountsAssumption DEF Init, GiftsCounted, UnitsAddUp
<1>4. RowHeld /\ Fresh /\ Kinds
  BY RequestsApart DEF Init, Idle, RowHeld, Fresh, Kinds
<1>5. ItemInv
  BY <1>1, RequestsApart DEF Init, Idle, ItemInv, Free, Held, Taking, GiftKeepsItsItem
<1> QED BY <1>3, <1>4, <1>5, InitType DEF Inv, CountInv

LEMMA NextInv == Inv /\ [Next]_vars => Inv'
<1> SUFFICES ASSUME Inv, [Next]_vars PROVE Inv'
  OBVIOUS
<1> USE DEF Inv, CountInv
<1>1. TypeOK' /\ CountInv'
  BY NextType, RowHeldNext, FreshNext, KindsNext, GiftsCountedNext, UnitsNext
<1>2. ASSUME NEW o \in Orders, Reading(o) \/ Cancel(o) PROVE ItemInv'
  BY <1>2, ItemInvReading, ItemInvSettled
<1>3. ASSUME NEW o \in Claims, CommitClaim(o) PROVE ItemInv'
  BY <1>3, ItemInvClaim
<1>4. ASSUME NEW o \in Checkouts, CommitCheckout(o) \/ Pay(o) PROVE ItemInv'
  BY <1>4, ItemInvCheckout, ItemInvSettled, RequestsApart
<1>5. ASSUME NEW o \in Reviews, approveSocialReward(o) PROVE ItemInv'
  <2>1. request'[o].at = "done" /\ \A p \in Orders \ {o} : request'[p] = request[p]
    BY <1>5, RequestsApart DEF TypeOK, approveSocialReward, GoTo
  <2>2. \A p \in Claims : status'[p] = status[p]
    BY <1>5, RequestsApart DEF TypeOK, approveSocialReward
  <2>3. UNCHANGED <<product, itemStatus, itemOrder, itemLock>>
    BY <1>5 DEF approveSocialReward, locks
  <2> QED BY <2>1, <2>2, <2>3, ItemsUntouched
<1>6. ASSUME Beside PROVE ItemInv'
  <2>1. CASE \E i \in Items : disable(i)
    BY <2>1, ItemInvDisable
  <2>2. CASE UNCHANGED itemStatus
    BY <1>6, <2>2, BesideKeeps, ItemsUntouched DEF locks
  <2> QED BY <1>6, <2>1, <2>2 DEF Beside, CheckReward, submitSocialReward, vars, rows
<1> QED
  BY <1>1, <1>2, <1>3, <1>4, <1>5, <1>6, NextCases

LEMMA InvHolds == Spec => []Inv
BY InitInv, NextInv, PTL DEF Spec

\* However many claims, checkouts and refusals overlap, the counter of gifts is the
\* number that were given and stays within the limit.
THEOREM GiftLimitKept == Spec => []GiftsCounted
<1>1. Inv => GiftsCounted
  BY DEF Inv, CountInv
<1> QED BY <1>1, InvHolds, PTL

\* No step of anybody takes from a customer the item of a gift that was given.
THEOREM GiftsStayGiven == Spec => []GiftKeepsItsItem
<1>1. Inv => GiftKeepsItsItem
  BY DEF Inv, ItemInv
<1> QED BY <1>1, InvHolds, PTL

\* Units are neither lost nor made, whatever stock a claim read.
THEOREM UnitsConserved == Spec => []UnitsAddUp
<1>1. Inv => UnitsAddUp
  BY DEF Inv, CountInv
<1> QED BY <1>1, InvHolds, PTL
-----------------------------------------------------------------------------
(* How far a gift can reach into the shop *)

\* The checkouts that stand and have lost their item (the code does not prevent it).
Robbed == {o \in Live(Checkouts) : ItemsOf(o) = {}}

\* A gift commits, with the item that was this checkout's.
TakenFrom(o) == \E c \in Claims : CommitClaim(c) /\ itemOrder[request[c].item] = o

\* Nothing but a gift, picked before the checkout committed, takes the item of a
\* checkout: no payment, cancellation, refused claim or other checkout does.
OnlyGiftsRob ==
  [][individual => \A o \in Robbed' : o \in Robbed \/ TakenFrom(o)]_vars

\* And each gift takes one at most.
FewRobbed == individual => Cardinality(Robbed) <= giftClaimsCount

LEMMA NobodyElseRobs ==
  ASSUME Inv, [Next]_vars, individual, ~\E c \in Claims : CommitClaim(c)
  PROVE  Robbed' \subseteq Robbed /\ UNCHANGED giftClaimsCount
<1>0. /\ itemOrder \in [Items -> Orders \cup {NoOrder}] /\ NoOrder \notin Orders
      /\ status \in [Orders -> {"NONE", "PENDING_PAYMENT", "PAID", "CANCELLED"}]
      /\ Checkouts \subseteq Orders /\ Free /\ Held
  BY NothingAssumption DEF Inv, ItemInv, TypeOK, Orders
<1>1. ASSUME UNCHANGED itemOrder,
             \A o \in Checkouts : status'[o] \in {"PENDING_PAYMENT", "PAID"} =>
                                    status[o] \in {"PENDING_PAYMENT", "PAID"}
      PROVE  Robbed' \subseteq Robbed
  BY <1>1 DEF Robbed, Live, ItemsOf
<1>2. ASSUME NEW o \in Orders, Reading(o)
      PROVE  Robbed' \subseteq Robbed /\ UNCHANGED giftClaimsCount
  BY <1>1, <1>2, ReadingKeeps DEF Inv, rows
<1>3. ASSUME NEW o \in Orders, Cancel(o)
      PROVE  Robbed' \subseteq Robbed /\ UNCHANGED giftClaimsCount
  <2>1. ASSUME NEW p \in Robbed' PROVE p \in Robbed
    <3>1. p \in Checkouts /\ p # o /\ status[p] \in {"PENDING_PAYMENT", "PAID"}
      BY <1>0, <1>3 DEF Cancel, Robbed, Live
    <3>2. \A i \in Items : itemOrder[i] = p => itemOrder'[i] = p
      BY <1>0, <1>3, <3>1 DEF Cancel
    <3> QED BY <3>1, <3>2 DEF Robbed, Live, ItemsOf
  <2> QED BY <1>3, <2>1 DEF Cancel
<1>4. ASSUME NEW o \in Checkouts, CommitCheckout(o)
      PROVE  Robbed' \subseteq Robbed /\ UNCHANGED giftClaimsCount
  <2> DEFINE i == request[o].item
  <2>1. i \in Items /\ itemOrder[i] = NoOrder /\ itemOrder' = [itemOrder EXCEPT ![i] = o]
    BY <1>0, <1>4 DEF CommitCheckout, Held, Free
  <2> HIDE DEF i
  <2>2. ASSUME NEW p \in Robbed' PROVE p \in Robbed
    <3>1. p \in Checkouts /\ p # o
      BY <1>0, <2>1 DEF Robbed, Live, ItemsOf
    <3>2. status[p] \in {"PENDING_PAYMENT", "PAID"}
      BY <1>0, <1>4, <3>1 DEF CommitCheckout, Robbed, Live
    <3>3. \A j \in Items : itemOrder[j] = p => itemOrder'[j] = p
      BY <1>0, <2>1, <3>1
    <3> QED BY <3>1, <3>2, <3>3 DEF Robbed, Live, ItemsOf
  <2> QED BY <1>4, <2>2 DEF CommitCheckout
<1>5. ASSUME NEW o \in Checkouts, Pay(o)
      PROVE  Robbed' \subseteq Robbed /\ UNCHANGED giftClaimsCount
  BY <1>0, <1>1, <1>5 DEF Pay
<1>6. ASSUME NEW o \in Reviews, approveSocialReward(o)
      PROVE  Robbed' \subseteq Robbed /\ UNCHANGED giftClaimsCount
  BY <1>0, <1>1, <1>6, RequestsApart DEF approveSocialReward
<1>7. ASSUME Beside
      PROVE  Robbed' \subseteq Robbed /\ UNCHANGED giftClaimsCount
  BY <1>1, <1>7, BesideKeeps
<1> QED BY <1>2, <1>3, <1>4, <1>5, <1>6, <1>7, NextCases

LEMMA GiftRobsOne ==
  ASSUME Inv, individual, NEW c \in Claims, CommitClaim(c)
  PROVE  /\ Robbed' \subseteq Robbed \cup {itemOrder[request[c].item]}
         /\ giftClaimsCount' = giftClaimsCount + 1
<1> DEFINE i == request[c].item
<1>0. /\ itemOrder \in [Items -> Orders \cup {NoOrder}] /\ c \in Orders /\ c \notin Checkouts
      /\ status \in [Orders -> {"NONE", "PENDING_PAYMENT", "PAID", "CANCELLED"}]
      /\ Checkouts \subseteq Orders
  BY RequestsApart DEF Inv, TypeOK, Orders
<1>1. /\ itemOrder' = [itemOrder EXCEPT ![i] = c] /\ status' = [status EXCEPT ![c] = "PAID"]
      /\ giftClaimsCount' = giftClaimsCount + 1
  BY DEF CommitClaim
<1> HIDE DEF i
<1>2. ASSUME NEW p \in Robbed', p # itemOrder[i] PROVE p \in Robbed
  <2>1. p \in Checkouts /\ p # c /\ status[p] \in {"PENDING_PAYMENT", "PAID"}
    BY <1>0, <1>1 DEF Robbed, Live
  <2>2. \A j \in Items : itemOrder[j] = p => itemOrder'[j] = p
    BY <1>0, <1>1, <1>2
  <2> QED BY <2>1, <2>2 DEF Robbed, Live, ItemsOf
<1> QED BY <1>1, <1>2 DEF i

LEMMA FewRobbedNext == Inv /\ FewRobbed /\ [Next]_vars => FewRobbed'
<1> SUFFICES ASSUME Inv, FewRobbed, [Next]_vars, individual' PROVE FewRobbed'
  BY DEF FewRobbed
<1>0. /\ IsFiniteSet(Robbed) /\ Cardinality(Robbed) \in Nat /\ giftClaimsCount \in Nat
      /\ Cardinality(Robbed) <= giftClaimsCount /\ individual
  <2>1. product' = product
    <3>1. \A o \in Orders : Reading(o) => product' = product
      BY ReadingKeeps DEF Inv
    <3>2. Beside => product' = product
      BY BesideKeeps
    <3> QED BY <3>1, <3>2, NextCases
            DEF Cancel, CommitClaim, CommitCheckout, Pay, approveSocialReward
  <2>2. Robbed \subseteq Orders
    BY DEF Robbed, Live, Orders
  <2>3. IsFiniteSet(Robbed) /\ Cardinality(Robbed) \in Nat
    BY <2>2, FiniteAssumption, FS_Subset, FS_CardinalityType
  <2> QED BY <2>1, <2>3 DEF individual, FewRobbed, Inv, TypeOK
<1>1. ASSUME NEW c \in Claims, CommitClaim(c) PROVE FewRobbed'
  <2> DEFINE o == itemOrder[request[c].item]
  <2>1. Robbed' \subseteq Robbed \cup {o} /\ giftClaimsCount' = giftClaimsCount + 1
    BY <1>0, <1>1, GiftRobsOne
  <2> HIDE DEF o
  <2>2. /\ IsFiniteSet(Robbed \cup {o}) /\ Cardinality(Robbed \cup {o}) <= Cardinality(Robbed) + 1
        /\ Cardinality(Robbed \cup {o}) \in Nat
    <3>1. /\ IsFiniteSet(Robbed \cup {o})
          /\ Cardinality(Robbed \cup {o}) = IF o \in Robbed THEN Cardinality(Robbed)
                                                            ELSE Cardinality(Robbed) + 1
      BY <1>0, FS_AddElement
    <3> QED BY <1>0, <3>1
  <2> DEFINE S == Robbed \cup {o}
             T == Robbed'
  <2>3. IsFiniteSet(T) /\ Cardinality(T) <= Cardinality(S) /\ Cardinality(T) \in Nat
    <3>1. IsFiniteSet(S) /\ T \subseteq S
      BY <2>1, <2>2
    <3> HIDE DEF S, T
    <3> QED BY <3>1, FS_Subset, FS_CardinalityType
  <2> QED BY <1>0, <2>1, <2>2, <2>3 DEF FewRobbed
<1>2. CASE ~\E c \in Claims : CommitClaim(c)
  <2>1. Robbed' \subseteq Robbed /\ giftClaimsCount' = giftClaimsCount
    BY <1>0, <1>2, NobodyElseRobs
  <2>2. Cardinality(Robbed') <= Cardinality(Robbed) /\ Cardinality(Robbed') \in Nat
    BY <1>0, <2>1, FS_Subset, FS_CardinalityType
  <2> QED BY <1>0, <2>1, <2>2 DEF FewRobbed
<1> QED BY <1>1, <1>2

\* No more checkouts ever stand without their item than gifts were given, whatever
\* requests overlap: what ReservationsAreKept loses is within the limit on gifts.
THEOREM LossesBounded == Spec => [](FewRobbed /\ giftClaimsCount <= maxGiftClaims)
<1>1. Init => FewRobbed
  <2> SUFFICES ASSUME Init PROVE FewRobbed
    OBVIOUS
  <2>1. Robbed = {}
    BY DEF Init, Robbed, Live, Orders
  <2> QED BY <2>1, FS_EmptySet DEF Init, FewRobbed
<1>2. Inv => giftClaimsCount <= maxGiftClaims
  BY DEF Inv, CountInv, GiftsCounted
<1> QED BY <1>1, <1>2, FewRobbedNext, InvHolds, PTL DEF Spec

\* A checkout that has its item loses it to a gift or to nobody.
THEOREM RobbedByGifts == Spec => OnlyGiftsRob
<1>1. Inv /\ [Next]_vars => [individual => \A o \in Robbed' : o \in Robbed \/ TakenFrom(o)]_vars
  <2> SUFFICES ASSUME Inv, [Next]_vars, individual, NEW o \in Robbed'
               PROVE  o \in Robbed \/ TakenFrom(o)
    OBVIOUS
  <2>1. ASSUME NEW c \in Claims, CommitClaim(c) PROVE o \in Robbed \/ TakenFrom(o)
    BY <2>1, GiftRobsOne DEF TakenFrom
  <2>2. CASE ~\E c \in Claims : CommitClaim(c)
    BY <2>2, NobodyElseRobs
  <2> QED BY <2>1, <2>2
<1> QED BY <1>1, InvHolds, PTL DEF Spec, OnlyGiftsRob
=============================================================================
