-------------------------------- MODULE Wallet --------------------------------
(***************************************************************************)
(* The merchant wallet (apps/api/src/modules/wallet) and the orders it     *)
(* pays: top-ups that staff review, corrections by hand, purchases at the  *)
(* checkout or later.  Every movement writes the balance and a ledger line *)
(* in the transaction of whatever it is made for, so one action is one     *)
(* transaction.  Customers here are approved wholesale members, and orders *)
(* are priced in the wallet's currency.                                    *)
(***************************************************************************)
EXTENDS OrderStates, Integers, FiniteSets

CONSTANTS
  Customers, Orders, TopUps, Receipts,
  Owner,                \* the customer of each order
  Total,                \* what each order costs
  TopUpAmounts,         \* amounts asked for, and amounts staff accept instead
  Adjustments,          \* amounts of corrections by hand, either way
  Targets,              \* bound: the statuses others move an order to
  MAX_PENDING_TOPUPS,   \* open requests a merchant may have (3)
  MaxRequests,          \* bound: top-up requests being handled
  MaxLines,             \* bound: ledger lines after which staff stop adjusting
  NoOrder, NoTopUp, Nobody, NoReceipt

ASSUME OwnerAssumption == Owner \in [Orders -> Customers]
ASSUME AmountsAssumption ==
  Total \in [Orders -> Nat] /\ TopUpAmounts \subseteq Nat \ {0} /\ Adjustments \subseteq Nat \ {0}
ASSUME LimitsAssumption ==
  MAX_PENDING_TOPUPS \in Nat /\ MaxRequests \in Nat /\ MaxLines \in Nat
ASSUME TargetsAssumption == Targets \subseteq Statuses
ASSUME NothingAssumption ==
  /\ NoOrder \notin Orders /\ NoTopUp \notin TopUps
  /\ Nobody \notin Customers /\ NoReceipt \notin Receipts

VARIABLES
  balance,       \* Customer.walletBalance
  ledger,        \* the WalletEntry rows of each customer, in the order written
  status,        \* Order.status; NONE before it exists, DELETED after
  walletPaid,    \* Order.walletPaid
  topUpStatus, topUpOwner, topUpAmount, contentHash,  \* WalletTopUp; NONE before
  requests       \* createTopUp between its checks and its insert

topUps == <<topUpStatus, topUpOwner, topUpAmount, contentHash>>
money == <<balance, ledger>>
vars == <<money, status, walletPaid, topUps, requests>>

Lines ==
  [type : {"TOPUP", "PURCHASE", "ADJUSTMENT", "REFUND"}, amount : Int, after : Nat,
   order : Orders \cup {NoOrder}, topUp : TopUps \cup {NoTopUp}]

Requests == [topUp : TopUps, customer : Customers, amount : TopUpAmounts, receipt : Receipts]

TypeOK ==
  /\ balance \in [Customers -> Nat]
  /\ ledger \in [Customers -> Seq(Lines)]
  /\ status \in [Orders -> Statuses \cup {"NONE", "DELETED"}]
  /\ walletPaid \in [Orders -> BOOLEAN]
  /\ topUpStatus \in [TopUps -> {"NONE", "PENDING", "APPROVED", "REJECTED"}]
  /\ topUpOwner \in [TopUps -> Customers \cup {Nobody}]
  /\ topUpAmount \in [TopUps -> Nat]
  /\ contentHash \in [TopUps -> Receipts \cup {NoReceipt}]
  /\ requests \subseteq Requests

Init ==
  /\ balance = [c \in Customers |-> 0]
  /\ ledger = [c \in Customers |-> <<>>]
  /\ status = [o \in Orders |-> "NONE"]
  /\ walletPaid = [o \in Orders |-> FALSE]
  /\ topUpStatus = [t \in TopUps |-> "NONE"]
  /\ topUpOwner = [t \in TopUps |-> Nobody]
  /\ topUpAmount = [t \in TopUps |-> 0]
  /\ contentHash = [t \in TopUps |-> NoReceipt]
  /\ requests = {}

-----------------------------------------------------------------------------
(* The ledger: the only writes to a balance *)

\* Mutant: the balance of the line is read before the update.
WriteEntryFirst(c, type, signed, o, t) ==
  ledger' = [ledger EXCEPT ![c] =
    Append(@, [type |-> type, amount |-> signed, after |-> balance[c], order |-> o, topUp |-> t])]

\* The balance of the line is read back inside the transaction.
writeEntry(c, type, signed, o, t) ==
  ledger' = [ledger EXCEPT ![c] =
    Append(@, [type |-> type, amount |-> signed, after |-> balance'[c], order |-> o, topUp |-> t])]

\* Mutant: the balance was checked before the transaction and not in it.
DebitUnchecked(c, type, amount, o) ==
  /\ amount > 0
  /\ balance' = [balance EXCEPT ![c] = @ - amount]
  /\ writeEntry(c, type, -amount, o, NoTopUp)

\* One conditional update. Too small a balance, or an amount of zero, throws and
\* rolls the caller's transaction back.
debitWallet(c, type, amount, o) ==
  /\ amount > 0 /\ balance[c] >= amount
  /\ balance' = [balance EXCEPT ![c] = @ - amount]
  /\ writeEntry(c, type, -amount, o, NoTopUp)

creditWallet(c, type, amount, o, t) ==
  /\ amount > 0
  /\ balance' = [balance EXCEPT ![c] = @ + amount]
  /\ writeEntry(c, type, amount, o, t)

-----------------------------------------------------------------------------
(* Top-ups *)

PendingOf(c) == {t \in TopUps : topUpOwner[t] = c /\ topUpStatus[t] = "PENDING"}

\* Anyone's request with the same bytes, but one of this merchant's own that was
\* rejected.
CopyOf(c, r) ==
  \E t \in TopUps : contentHash[t] = r /\ ~(topUpOwner[t] = c /\ topUpStatus[t] = "REJECTED")

\* The checks, each a read of its own; the receipt is uploaded after them.
RequestTopUp(t, c, a, r) ==
  /\ Cardinality(requests) < MaxRequests
  /\ topUpStatus[t] = "NONE" /\ \A q \in requests : q.topUp # t
  /\ Cardinality(PendingOf(c)) < MAX_PENDING_TOPUPS
  /\ ~CopyOf(c, r)
  /\ requests' = requests \cup {[topUp |-> t, customer |-> c, amount |-> a, receipt |-> r]}
  /\ UNCHANGED <<money, status, walletPaid, topUps>>

createTopUp(q) ==
  /\ requests' = requests \ {q}
  /\ topUpStatus' = [topUpStatus EXCEPT ![q.topUp] = "PENDING"]
  /\ topUpOwner' = [topUpOwner EXCEPT ![q.topUp] = q.customer]
  /\ topUpAmount' = [topUpAmount EXCEPT ![q.topUp] = q.amount]
  /\ contentHash' = [contentHash EXCEPT ![q.topUp] = q.receipt]
  /\ UNCHANGED <<money, status, walletPaid>>

\* Mutant: the flip is not guarded on PENDING.
ApproveAgain(t, a) ==
  /\ topUpStatus[t] # "NONE"
  /\ topUpStatus' = [topUpStatus EXCEPT ![t] = "APPROVED"]
  /\ topUpAmount' = [topUpAmount EXCEPT ![t] = a]
  /\ creditWallet(topUpOwner[t], "TOPUP", a, NoOrder, t)
  /\ UNCHANGED <<status, walletPaid, topUpOwner, contentHash, requests>>

\* review() with approve, for the amount asked or another one.
ApproveTopUp(t, a) ==
  /\ topUpStatus[t] = "PENDING"
  /\ topUpStatus' = [topUpStatus EXCEPT ![t] = "APPROVED"]
  /\ topUpAmount' = [topUpAmount EXCEPT ![t] = a]
  /\ creditWallet(topUpOwner[t], "TOPUP", a, NoOrder, t)
  /\ UNCHANGED <<status, walletPaid, topUpOwner, contentHash, requests>>

RejectTopUp(t) ==
  /\ topUpStatus[t] = "PENDING"
  /\ topUpStatus' = [topUpStatus EXCEPT ![t] = "REJECTED"]
  /\ UNCHANGED <<money, status, walletPaid, topUpOwner, topUpAmount, contentHash, requests>>

-----------------------------------------------------------------------------
(* Purchases and corrections *)

\* Mutant: the order settles whatever its status is by now.
SettleAnyway(o) ==
  /\ status[o] \in Statuses
  /\ walletPaid' = [walletPaid EXCEPT ![o] = TRUE]
  /\ status' = [status EXCEPT ![o] = "PAID"]

\* PENDING_PAYMENT, PAYMENT_SUBMITTED, PAYMENT_REVIEW and PAID in one transaction,
\* rolled back with the debit when the order has moved on.
settleFromWallet(o) ==
  /\ CanWalk(status[o], <<"PAYMENT_SUBMITTED", "PAYMENT_REVIEW", "PAID">>)
  /\ walletPaid' = [walletPaid EXCEPT ![o] = TRUE]
  /\ status' = [status EXCEPT ![o] = "PAID"]

payOrder(o) ==
  /\ debitWallet(Owner[o], "PURCHASE", Total[o], o)
  /\ settleFromWallet(o)
  /\ UNCHANGED <<topUps, requests>>

\* The order is created, charged and settled in one transaction; a second request
\* with the same idempotency key finds it and changes nothing.
CheckoutWithWallet(o) ==
  /\ status[o] = "NONE"
  /\ debitWallet(Owner[o], "PURCHASE", Total[o], o)
  /\ status' = [status EXCEPT ![o] = "PAID"]
  /\ walletPaid' = [walletPaid EXCEPT ![o] = TRUE]
  /\ UNCHANGED <<topUps, requests>>

checkout(o) ==
  /\ status[o] = "NONE"
  /\ status' = [status EXCEPT ![o] = "PENDING_PAYMENT"]
  /\ UNCHANGED <<money, walletPaid, topUps, requests>>

\* Proofs, deposits, staff, cancellations and expiry. A refund is only a status:
\* the money is given back by hand, or not.
transition(o, to) ==
  /\ Allowed(status[o], to)
  /\ status' = [status EXCEPT ![o] = to]
  /\ UNCHANGED <<money, walletPaid, topUps, requests>>

\* Mutant: the ledger lines of the order go with it.
DeleteWithLines(o) ==
  /\ status[o] \in Statuses
  /\ status' = [status EXCEPT ![o] = "DELETED"]
  /\ walletPaid' = [walletPaid EXCEPT ![o] = FALSE]
  /\ ledger' = [c \in Customers |-> SelectSeq(ledger[c], LAMBDA l : l.order # o)]
  /\ UNCHANGED <<balance, topUps, requests>>

\* The lines stay and no longer point at the order.
deleteOrder(o) ==
  /\ status[o] \in Statuses
  /\ status' = [status EXCEPT ![o] = "DELETED"]
  /\ walletPaid' = [walletPaid EXCEPT ![o] = FALSE]
  /\ ledger' = [c \in Customers |->
       [k \in 1 .. Len(ledger[c]) |->
         [ledger[c][k] EXCEPT !.order = IF @ = o THEN NoOrder ELSE @]]]
  /\ UNCHANGED <<balance, topUps, requests>>

\* By hand, either way, naming any order or none.
adjust(c, a, type, o) ==
  /\ Len(ledger[c]) < MaxLines
  /\ o \in {NoOrder} \cup {p \in Orders : status[p] \in Statuses}
  /\ creditWallet(c, type, a, o, NoTopUp) \/ debitWallet(c, type, a, o)
  /\ UNCHANGED <<status, walletPaid, topUps, requests>>

-----------------------------------------------------------------------------
Next ==
  \/ \E t \in TopUps, c \in Customers, a \in TopUpAmounts, r \in Receipts : RequestTopUp(t, c, a, r)
  \/ \E q \in requests : createTopUp(q)
  \/ \E t \in TopUps, a \in TopUpAmounts : ApproveTopUp(t, a)
  \/ \E t \in TopUps : RejectTopUp(t)
  \/ \E o \in Orders : checkout(o) \/ CheckoutWithWallet(o) \/ payOrder(o) \/ deleteOrder(o)
  \/ \E o \in Orders, to \in Targets : transition(o, to)
  \/ \E c \in Customers, a \in Adjustments, type \in {"ADJUSTMENT", "REFUND"},
        o \in Orders \cup {NoOrder} : adjust(c, a, type, o)

Spec == Init /\ [][Next]_vars

-----------------------------------------------------------------------------
(* Properties *)

BalanceAfter(c, k) == IF k = 0 THEN 0 ELSE ledger[c][k].after

\* The ledger explains the balance to the last cent: each line continues the one
\* before it, the last one is the balance, and none was ever below zero, whatever
\* purchases, reviews and corrections raced for the same money.
LedgerAgrees ==
  \A c \in Customers :
    /\ balance[c] = BalanceAfter(c, Len(ledger[c]))
    /\ \A k \in 1 .. Len(ledger[c]) :
         ledger[c][k].after = BalanceAfter(c, k - 1) + ledger[c][k].amount

Charges(c, o) == {k \in 1 .. Len(ledger[c]) : ledger[c][k].type = "PURCHASE" /\ ledger[c][k].order = o}

\* An order is charged exactly when the wallet paid it: once, in full, to its own
\* customer; one paid, cancelled or refused elsewhere in the same moment is not.
ChargedWhenPaid ==
  \A o \in Orders, c \in Customers :
    IF walletPaid[o] /\ c = Owner[o]
    THEN \E k \in Charges(c, o) :
           /\ Charges(c, o) = {k} /\ ledger[c][k].amount = -Total[o]
           /\ status[o] \in Statuses \ (OpenStatuses \cup {"NONE", "DELETED"})
    ELSE Charges(c, o) = {}

Credits(c, t) == {k \in 1 .. Len(ledger[c]) : ledger[c][k].topUp = t}

\* A top-up is credited exactly when it is approved: once, to whoever asked, for
\* the amount accepted, however many reviewers press the button.
CreditedWhenApproved ==
  \A t \in TopUps, c \in Customers :
    IF topUpStatus[t] = "APPROVED" /\ c = topUpOwner[t]
    THEN \E k \in Credits(c, t) : Credits(c, t) = {k} /\ ledger[c][k].amount = topUpAmount[t]
    ELSE Credits(c, t) = {}

\* The ledger only grows: no step, the deletion of an order included, drops a line
\* or changes what it says of the money.
LedgerOnlyGrows ==
  [][\A c \in Customers :
       /\ Len(ledger'[c]) >= Len(ledger[c])
       /\ \A k \in 1 .. Len(ledger[c]) :
            /\ ledger'[c][k].amount = ledger[c][k].amount
            /\ ledger'[c][k].after = ledger[c][k].after
            /\ ledger'[c][k].topUp = ledger[c][k].topUp]_vars
=============================================================================
