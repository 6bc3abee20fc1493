----------------------------- MODULE WalletProofs -----------------------------
(***************************************************************************)
(* What Wallet keeps true of every merchant, order and top-up, whatever    *)
(* the constants are.                                                      *)
(***************************************************************************)
EXTENDS Wallet, FiniteSetTheorems, TLAPS

\* Any write to a balance: a signed amount the balance can bear, and its line.
Move(c, type, signed, o, t) ==
  /\ balance[c] + signed >= 0
  /\ balance' = [balance EXCEPT ![c] = @ + signed]
  /\ writeEntry(c, type, signed, o, t)

LineTypes == {"TOPUP", "PURCHASE", "ADJUSTMENT", "REFUND"}

LEMMA DebitMoves ==
  ASSUME TypeOK, NEW c \in Customers, NEW type, NEW amount \in Nat, NEW o,
         debitWallet(c, type, amount, o)
  PROVE  amount > 0 /\ Move(c, type, -amount, o, NoTopUp)
<1>1. balance[c] \in Nat
  BY DEF TypeOK
<1>2. balance[c] - amount = balance[c] + (-amount)
  BY <1>1
<1>3. balance[c] + (-amount) >= 0
  BY <1>1 DEF debitWallet
<1>4. balance' = [balance EXCEPT ![c] = @ + (-amount)]
  BY <1>2 DEF debitWallet
<1> QED
  BY <1>3, <1>4 DEF debitWallet, Move

LEMMA CreditMoves ==
  ASSUME TypeOK, NEW c \in Customers, NEW type, NEW amount \in Nat, NEW o, NEW t,
         creditWallet(c, type, amount, o, t)
  PROVE  amount > 0 /\ Move(c, type, amount, o, t)
<1>1. balance[c] \in Nat
  BY DEF TypeOK
<1> QED
  BY <1>1 DEF creditWallet, Move

\* A move keeps the types of the money.
LEMMA MoveTyped ==
  ASSUME TypeOK, NEW c \in Customers, NEW type \in LineTypes, NEW signed \in Int,
         NEW o \in Orders \cup {NoOrder}, NEW t \in TopUps \cup {NoTopUp},
         Move(c, type, signed, o, t)
  PROVE  /\ balance' \in [Customers -> Nat]
         /\ ledger' \in [Customers -> Seq(Lines)]
<1> DEFINE line == [type |-> type, amount |-> signed, after |-> balance'[c], order |-> o, topUp |-> t]
<1>1. balance \in [Customers -> Nat] /\ ledger \in [Customers -> Seq(Lines)]
  BY DEF TypeOK
<1>2. balance' \in [Customers -> Nat]
  BY <1>1 DEF Move
<1>3. line \in Lines
  BY <1>2 DEF Lines, LineTypes
<1>4. Append(ledger[c], line) \in Seq(Lines)
  BY <1>1, <1>3
<1>5. ledger' = [ledger EXCEPT ![c] = Append(@, line)]
  BY DEF Move, writeEntry
<1> QED
  BY <1>1, <1>2, <1>4, <1>5

\* What the ledgers look like after a move: one more line on one of them.
LEMMA MoveAppends ==
  ASSUME TypeOK, NEW c \in Customers, NEW type, NEW signed, NEW o, NEW t,
         Move(c, type, signed, o, t)
  PROVE  /\ Len(ledger'[c]) = Len(ledger[c]) + 1
         /\ \A k \in 1 .. Len(ledger[c]) : ledger'[c][k] = ledger[c][k]
         /\ ledger'[c][Len(ledger[c]) + 1].amount = signed
         /\ ledger'[c][Len(ledger[c]) + 1].after = balance'[c]
         /\ ledger'[c][Len(ledger[c]) + 1].type = type
         /\ ledger'[c][Len(ledger[c]) + 1].order = o
         /\ ledger'[c][Len(ledger[c]) + 1].topUp = t
         /\ \A d \in Customers \ {c} : ledger'[d] = ledger[d] /\ balance'[d] = balance[d]
         /\ balance'[c] = balance[c] + signed
<1> DEFINE line == [type |-> type, amount |-> signed, after |-> balance'[c], order |-> o, topUp |-> t]
<1>1. ledger[c] \in Seq(Lines) /\ c \in DOMAIN ledger /\ c \in DOMAIN balance
      /\ Customers = DOMAIN ledger /\ Customers = DOMAIN balance
  BY DEF TypeOK
<1>2. ledger' = [ledger EXCEPT ![c] = Append(@, line)]
  BY DEF Move, writeEntry
<1>3. ledger'[c] = Append(ledger[c], line)
  BY <1>1, <1>2
<1> HIDE DEF line
<1>4. /\ Len(ledger'[c]) = Len(ledger[c]) + 1
      /\ \A k \in 1 .. Len(ledger[c]) : ledger'[c][k] = ledger[c][k]
      /\ ledger'[c][Len(ledger[c]) + 1] = line
  BY <1>1, <1>3
<1>5. \A d \in Customers \ {c} : ledger'[d] = ledger[d] /\ balance'[d] = balance[d]
  BY <1>1, <1>2 DEF Move
<1>6. balance'[c] = balance[c] + signed
  BY <1>1 DEF Move
<1>7. /\ line.amount = signed /\ line.after = balance'[c]
      /\ line.type = type /\ line.order = o /\ line.topUp = t
  BY DEF line
<1> QED
  BY <1>4, <1>5, <1>6, <1>7

-----------------------------------------------------------------------------
(* Types *)

\* A top-up number is taken by one request at most, and by a row only after that;
\* a row has an owner.
SlotsFree ==
  /\ \A q \in requests : topUpStatus[q.topUp] = "NONE"
  /\ \A p, q \in requests : p.topUp = q.topUp => p = q
  /\ \A t \in TopUps : topUpStatus[t] # "NONE" => topUpOwner[t] \in Customers

TypeInv == TypeOK /\ SlotsFree

LEMMA InitType == Init => TypeInv
<1> SUFFICES ASSUME Init PROVE TypeInv
  OBVIOUS
<1>1. <<>> \in Seq(Lines)
  OBVIOUS
<1>2. TypeOK
  BY <1>1 DEF Init, TypeOK, Requests
<1>3. SlotsFree
  BY DEF Init, SlotsFree
<1> QED
  BY <1>2, <1>3 DEF TypeInv

LEMMA DeleteTyped ==
  ASSUME TypeOK, NEW o \in Orders, deleteOrder(o)
  PROVE  ledger' \in [Customers -> Seq(Lines)]
<1> DEFINE kept(c) == [k \in 1 .. Len(ledger[c]) |->
                        [ledger[c][k] EXCEPT !.order = IF @ = o THEN NoOrder ELSE @]]
<1>1. ASSUME NEW c \in Customers PROVE kept(c) \in Seq(Lines)
  <2>1. ledger[c] \in Seq(Lines) /\ Len(ledger[c]) \in Nat
    BY DEF TypeOK
  <2>2. ASSUME NEW k \in 1 .. Len(ledger[c])
        PROVE  [ledger[c][k] EXCEPT !.order = IF @ = o THEN NoOrder ELSE @] \in Lines
    <3>1. ledger[c][k] \in Lines
      BY <2>1
    <3> QED BY <3>1 DEF Lines
  <2> QED BY <2>1, <2>2
<1>2. ledger' = [c \in Customers |-> kept(c)]
  BY DEF deleteOrder
<1> HIDE DEF kept
<1> QED BY <1>1, <1>2

LEMMA NextType == TypeInv /\ [Next]_vars => TypeInv'
<1> SUFFICES ASSUME TypeInv, [Next]_vars PROVE TypeInv'
  OBVIOUS
<1> USE DEF TypeInv
<1>1. ASSUME NEW t \in TopUps, NEW c \in Customers, NEW a \in TopUpAmounts, NEW r \in Receipts,
             RequestTopUp(t, c, a, r)
      PROVE  TypeInv'
  <2>1. [topUp |-> t, customer |-> c, amount |-> a, receipt |-> r] \in Requests
    BY DEF Requests
  <2>2. TypeOK'
    BY <1>1, <2>1 DEF TypeOK, RequestTopUp, money, topUps
  <2>3. SlotsFree'
    BY <1>1 DEF SlotsFree, RequestTopUp, topUps
  <2> QED BY <2>2, <2>3
<1>2. ASSUME NEW q \in requests, createTopUp(q)
      PROVE  TypeInv'
  <2>1. /\ q.topUp \in TopUps /\ q.customer \in Customers /\ q.receipt \in Receipts
        /\ q.amount \in Nat
    BY AmountsAssumption DEF TypeOK, Requests
  <2>2. TypeOK'
    BY <1>2, <2>1 DEF TypeOK, createTopUp, money
  <2>3. SlotsFree'
    BY <1>2, <2>1 DEF TypeOK, SlotsFree, createTopUp
  <2> QED BY <2>2, <2>3
<1>3. ASSUME NEW t \in TopUps, NEW a \in TopUpAmounts, ApproveTopUp(t, a)
      PROVE  TypeInv'
  <2>1. topUpOwner[t] \in Customers /\ a \in Nat /\ a \in Int
    BY <1>3, AmountsAssumption DEF SlotsFree, ApproveTopUp
  <2>2. Move(topUpOwner[t], "TOPUP", a, NoOrder, t)
    BY <1>3, <2>1, CreditMoves DEF ApproveTopUp
  <2>3. balance' \in [Customers -> Nat] /\ ledger' \in [Customers -> Seq(Lines)]
    BY <2>1, <2>2, MoveTyped DEF LineTypes
  <2>4. TypeOK'
    BY <1>3, <2>1, <2>3 DEF TypeOK, ApproveTopUp
  <2>5. SlotsFree'
    BY <1>3 DEF TypeOK, SlotsFree, ApproveTopUp
  <2> QED BY <2>4, <2>5
<1>4. ASSUME NEW t \in TopUps, RejectTopUp(t)
      PROVE  TypeInv'
  BY <1>4 DEF TypeOK, SlotsFree, RejectTopUp, money
<1>5. ASSUME NEW o \in Orders, checkout(o)
      PROVE  TypeInv'
  BY <1>5 DEF TypeOK, SlotsFree, checkout, money, topUps, Statuses
<1>6. ASSUME NEW o \in Orders, CheckoutWithWallet(o) \/ payOrder(o)
      PROVE  TypeInv'
  <2>1. Owner[o] \in Customers /\ Total[o] \in Nat /\ -Total[o] \in Int
    BY OwnerAssumption, AmountsAssumption
  <2>2. Move(Owner[o], "PURCHASE", -Total[o], o, NoTopUp)
    BY <1>6, <2>1, DebitMoves DEF CheckoutWithWallet, payOrder
  <2>3. balance' \in [Customers -> Nat] /\ ledger' \in [Customers -> Seq(Lines)]
    BY <2>1, <2>2, MoveTyped DEF LineTypes
  <2>4. UNCHANGED <<topUps, requests>>
    BY <1>6 DEF CheckoutWithWallet, payOrder
  <2>5. status' = [status EXCEPT ![o] = "PAID"] /\ walletPaid' = [walletPaid EXCEPT ![o] = TRUE]
    BY <1>6 DEF CheckoutWithWallet, payOrder, settleFromWallet
  <2> QED
    BY <2>3, <2>4, <2>5 DEF TypeOK, SlotsFree, topUps, Statuses
<1>7. ASSUME NEW o \in Orders, deleteOrder(o)
      PROVE  TypeInv'
  <2>1. ledger' \in [Customers -> Seq(Lines)]
    BY <1>7, DeleteTyped
  <2> QED
    BY <1>7, <2>1 DEF TypeOK, SlotsFree, deleteOrder, topUps
<1>8. ASSUME NEW o \in Orders, NEW to \in Targets, transition(o, to)
      PROVE  TypeInv'
  BY <1>8, TargetsAssumption DEF TypeOK, SlotsFree, transition, money, topUps
<1>9. ASSUME NEW c \in Customers, NEW a \in Adjustments, NEW type \in {"ADJUSTMENT", "REFUND"},
             NEW o \in Orders \cup {NoOrder}, adjust(c, a, type, o)
      PROVE  TypeInv'
  <2>1. a \in Nat /\ a \in Int /\ -a \in Int
    BY AmountsAssumption
  <2>2. Move(c, type, a, o, NoTopUp) \/ Move(c, type, -a, o, NoTopUp)
    BY <1>9, <2>1, CreditMoves, DebitMoves DEF adjust
  <2>3. balance' \in [Customers -> Nat] /\ ledger' \in [Customers -> Seq(Lines)]
    BY <2>1, <2>2, MoveTyped DEF LineTypes
  <2> QED
    BY <1>9, <2>3 DEF TypeOK, SlotsFree, adjust, topUps
<1>10. CASE UNCHANGED vars
  BY <1>10 DEF TypeOK, SlotsFree, vars, money, topUps
<1> QED
  BY <1>1, <1>2, <1>3, <1>4, <1>5, <1>6, <1>7, <1>8, <1>9, <1>10 DEF Next

\* The variables of the wallet always hold what their columns may hold; a balance
\* is never negative.
THEOREM TypeCorrect == Spec => []TypeOK
<1>1. TypeInv => TypeOK
  BY DEF TypeInv
<1> QED
  BY InitType, NextType, <1>1, PTL DEF Spec
-----------------------------------------------------------------------------
(* The ledger *)

\* What deleting an order leaves of every line.
LEMMA DeleteKeeps ==
  ASSUME TypeOK, NEW o \in Orders, deleteOrder(o), NEW c \in Customers
  PROVE  /\ Len(ledger'[c]) = Len(ledger[c])
         /\ \A k \in 1 .. Len(ledger[c]) :
              /\ ledger'[c][k].amount = ledger[c][k].amount
              /\ ledger'[c][k].after = ledger[c][k].after
              /\ ledger'[c][k].type = ledger[c][k].type
              /\ ledger'[c][k].topUp = ledger[c][k].topUp
              /\ ledger'[c][k].order = IF ledger[c][k].order = o THEN NoOrder ELSE ledger[c][k].order
<1>1. ledger[c] \in Seq(Lines) /\ Len(ledger[c]) \in Nat
  BY DEF TypeOK
<1>2. ledger'[c] = [k \in 1 .. Len(ledger[c]) |->
                     [ledger[c][k] EXCEPT !.order = IF @ = o THEN NoOrder ELSE @]]
  BY DEF deleteOrder
<1>3. Len(ledger'[c]) = Len(ledger[c])
  BY <1>1, <1>2
<1>4. ASSUME NEW k \in 1 .. Len(ledger[c])
      PROVE  /\ ledger'[c][k].amount = ledger[c][k].amount
             /\ ledger'[c][k].after = ledger[c][k].after
             /\ ledger'[c][k].type = ledger[c][k].type
             /\ ledger'[c][k].topUp = ledger[c][k].topUp
             /\ ledger'[c][k].order = IF ledger[c][k].order = o THEN NoOrder ELSE ledger[c][k].order
  <2>1. ledger[c][k] \in Lines
    BY <1>1
  <2>2. ledger'[c][k] = [ledger[c][k] EXCEPT !.order = IF @ = o THEN NoOrder ELSE @]
    BY <1>2
  <2> QED BY <2>1, <2>2 DEF Lines
<1> QED BY <1>3, <1>4

\* Every step leaves the money alone, is one move, or deletes an order.
LEMMA MoneySteps ==
  ASSUME TypeInv, [Next]_vars
  PROVE  \/ UNCHANGED money
         \/ \E c \in Customers, type \in LineTypes, signed \in Int,
               o \in Orders \cup {NoOrder}, t \in TopUps \cup {NoTopUp} : Move(c, type, signed, o, t)
         \/ \E o \in Orders : deleteOrder(o)
<1> USE DEF TypeInv
<1>1. ASSUME NEW t \in TopUps, NEW a \in TopUpAmounts, ApproveTopUp(t, a)
      PROVE  Move(topUpOwner[t], "TOPUP", a, NoOrder, t) /\ topUpOwner[t] \in Customers /\ a \in Int
  BY <1>1, AmountsAssumption, CreditMoves DEF SlotsFree, ApproveTopUp
<1>2. ASSUME NEW o \in Orders, CheckoutWithWallet(o) \/ payOrder(o)
      PROVE  /\ Move(Owner[o], "PURCHASE", -Total[o], o, NoTopUp)
             /\ Owner[o] \in Customers /\ -Total[o] \in Int
  BY <1>2, OwnerAssumption, AmountsAssumption, DebitMoves DEF CheckoutWithWallet, payOrder
<1>3. ASSUME NEW c \in Customers, NEW a \in Adjustments, NEW type \in {"ADJUSTMENT", "REFUND"},
             NEW o \in Orders \cup {NoOrder}, adjust(c, a, type, o)
      PROVE  \E signed \in Int : Move(c, type, signed, o, NoTopUp)
  <2>1. a \in Nat /\ a \in Int /\ -a \in Int
    BY AmountsAssumption
  <2> QED BY <1>3, <2>1, CreditMoves, DebitMoves DEF adjust
<1>4. ASSUME Next
      PROVE  \/ UNCHANGED money
             \/ \E t \in TopUps, a \in TopUpAmounts : ApproveTopUp(t, a)
             \/ \E o \in Orders : CheckoutWithWallet(o) \/ payOrder(o) \/ deleteOrder(o)
             \/ \E c \in Customers, a \in Adjustments, type \in {"ADJUSTMENT", "REFUND"},
                   o \in Orders \cup {NoOrder} : adjust(c, a, type, o)
  BY <1>4 DEF Next, RequestTopUp, createTopUp, RejectTopUp, checkout, transition, money
<1>5. UNCHANGED vars => UNCHANGED money
  BY DEF vars
<1> QED
  BY <1>1, <1>2, <1>3, <1>4, <1>5, AmountsAssumption DEF LineTypes

LEMMA MoveAgrees ==
  ASSUME TypeInv, LedgerAgrees, NEW c \in Customers, NEW type \in LineTypes, NEW signed \in Int,
         NEW o \in Orders \cup {NoOrder}, NEW t \in TopUps \cup {NoTopUp}, Move(c, type, signed, o, t)
  PROVE  LedgerAgrees'
<1> SUFFICES ASSUME NEW d \in Customers
             PROVE  /\ balance'[d] = BalanceAfter(d, Len(ledger[d]))'
                    /\ \A k \in 1 .. Len(ledger'[d]) :
                         ledger'[d][k].after = BalanceAfter(d, k - 1)' + ledger'[d][k].amount
  BY DEF LedgerAgrees, BalanceAfter
<1>0. TypeOK
  BY DEF TypeInv
<1>n. PICK n \in Nat : n = Len(ledger[c])
  BY <1>0 DEF TypeOK
<1>1. n \in Nat /\ Len(ledger[d]) \in Nat
  BY <1>0 DEF TypeOK
<1>2. /\ Len(ledger'[c]) = n + 1
      /\ \A k \in 1 .. n : ledger'[c][k] = ledger[c][k]
      /\ ledger'[c][n + 1].amount = signed
      /\ ledger'[c][n + 1].after = balance'[c]
      /\ balance'[c] = balance[c] + signed
      /\ d # c => ledger'[d] = ledger[d] /\ balance'[d] = balance[d]
  BY <1>0, <1>n, MoveAppends
<1>3. /\ balance[d] = BalanceAfter(d, Len(ledger[d]))
      /\ \A k \in 1 .. Len(ledger[d]) :
           ledger[d][k].after = BalanceAfter(d, k - 1) + ledger[d][k].amount
  BY DEF LedgerAgrees
<1>4. CASE d # c
  BY <1>2, <1>3, <1>4 DEF BalanceAfter
<1>5. CASE d = c
  <2>1. \A k \in 0 .. n : BalanceAfter(c, k)' = BalanceAfter(c, k)
    BY <1>1, <1>2 DEF BalanceAfter
  <2>2. balance'[c] = BalanceAfter(c, n + 1)'
    BY <1>1, <1>2 DEF BalanceAfter
  <2>3. n = Len(ledger[c])
    BY <1>n
  <2>4. \A k \in 1 .. n : ledger'[c][k].after = BalanceAfter(c, k - 1)' + ledger'[c][k].amount
    BY <1>1, <1>2, <1>3, <1>5, <2>1, <2>3
  <2>5. ledger'[c][n + 1].after = BalanceAfter(c, n)' + ledger'[c][n + 1].amount
    <3>1. balance[c] = BalanceAfter(c, n)'
      BY <1>1, <1>3, <1>5, <2>1, <2>3
    <3> QED BY <1>2, <3>1
  <2>6. \A k \in 1 .. n + 1 : ledger'[c][k].after = BalanceAfter(c, k - 1)' + ledger'[c][k].amount
    BY <1>1, <2>4, <2>5
  <2>7. BalanceAfter(d, Len(ledger[d]))' = BalanceAfter(c, n + 1)'
    BY <1>2, <1>5 DEF BalanceAfter
  <2> QED BY <1>2, <1>5, <2>2, <2>6, <2>7
<1> QED BY <1>4, <1>5

LEMMA DeleteAgrees ==
  ASSUME TypeInv, LedgerAgrees, NEW o \in Orders, deleteOrder(o)
  PROVE  LedgerAgrees'
<1> SUFFICES ASSUME NEW d \in Customers
             PROVE  /\ balance'[d] = BalanceAfter(d, Len(ledger[d]))'
                    /\ \A k \in 1 .. Len(ledger'[d]) :
                         ledger'[d][k].after = BalanceAfter(d, k - 1)' + ledger'[d][k].amount
  BY DEF LedgerAgrees, BalanceAfter
<1>1. Len(ledger[d]) \in Nat
  BY DEF TypeInv, TypeOK
<1>2. /\ Len(ledger'[d]) = Len(ledger[d]) /\ balance'[d] = balance[d]
      /\ \A k \in 1 .. Len(ledger[d]) :
           ledger'[d][k].amount = ledger[d][k].amount /\ ledger'[d][k].after = ledger[d][k].after
  BY DeleteKeeps DEF TypeInv, deleteOrder
<1>3. \A k \in 0 .. Len(ledger[d]) : BalanceAfter(d, k)' = BalanceAfter(d, k)
  BY <1>1, <1>2 DEF BalanceAfter
<1>4. BalanceAfter(d, Len(ledger[d]))' = BalanceAfter(d, Len(ledger[d]))
  BY <1>1, <1>2, <1>3 DEF BalanceAfter
<1>5. \A k \in 1 .. Len(ledger[d]) : k - 1 \in 0 .. Len(ledger[d])
  BY <1>1
<1> QED
  BY <1>1, <1>2, <1>3, <1>4, <1>5, SMTT(30) DEF LedgerAgrees

\* The ledger of every merchant explains the balance, line by line, whatever
\* purchases, reviews, corrections and deletions come together.
THEOREM LedgerCorrect == Spec => []LedgerAgrees
<1>1. Init => LedgerAgrees
  BY DEF Init, LedgerAgrees, BalanceAfter
<1>2. TypeInv /\ LedgerAgrees /\ [Next]_vars => LedgerAgrees'
  <2> SUFFICES ASSUME TypeInv, LedgerAgrees, [Next]_vars PROVE LedgerAgrees'
    OBVIOUS
  <2>1. CASE UNCHANGED money
    BY <2>1 DEF LedgerAgrees, BalanceAfter, money
  <2> QED BY <2>1, MoneySteps, MoveAgrees, DeleteAgrees
<1> QED
  BY InitType, NextType, <1>1, <1>2, PTL DEF Spec

Grows ==
  \A c \in Customers :
    /\ Len(ledger'[c]) >= Len(ledger[c])
    /\ \A k \in 1 .. Len(ledger[c]) :
         /\ ledger'[c][k].amount = ledger[c][k].amount
         /\ ledger'[c][k].after = ledger[c][k].after
         /\ ledger'[c][k].topUp = ledger[c][k].topUp

\* No step drops a ledger line or changes what it says of the money.
THEOREM LedgerKept == Spec => LedgerOnlyGrows
<1>1. TypeInv /\ [Next]_vars => Grows
  <2> SUFFICES ASSUME TypeInv, [Next]_vars, NEW c \in Customers
               PROVE  /\ Len(ledger'[c]) >= Len(ledger[c])
                      /\ \A k \in 1 .. Len(ledger[c]) :
                           /\ ledger'[c][k].amount = ledger[c][k].amount
                           /\ ledger'[c][k].after = ledger[c][k].after
                           /\ ledger'[c][k].topUp = ledger[c][k].topUp
    BY DEF Grows
  <2>0. Len(ledger[c]) \in Nat /\ TypeOK
    BY DEF TypeInv, TypeOK
  <2>1. CASE UNCHANGED money
    BY <2>0, <2>1 DEF money
  <2>2. ASSUME NEW b \in Customers, NEW type \in LineTypes, NEW signed \in Int,
               NEW o \in Orders \cup {NoOrder}, NEW t \in TopUps \cup {NoTopUp},
               Move(b, type, signed, o, t)
        PROVE  /\ Len(ledger'[c]) >= Len(ledger[c])
               /\ \A k \in 1 .. Len(ledger[c]) : ledger'[c][k] = ledger[c][k]
    BY <2>0, <2>2, MoveAppends
  <2>3. ASSUME NEW o \in Orders, deleteOrder(o)
        PROVE  /\ Len(ledger'[c]) >= Len(ledger[c])
               /\ \A k \in 1 .. Len(ledger[c]) :
                    /\ ledger'[c][k].amount = ledger[c][k].amount
                    /\ ledger'[c][k].after = ledger[c][k].after
                    /\ ledger'[c][k].topUp = ledger[c][k].topUp
    BY <2>0, <2>3, DeleteKeeps
  <2> QED BY <2>1, <2>2, <2>3, MoneySteps
<1>2. Grows => [\A c \in Customers :
                  /\ Len(ledger'[c]) >= Len(ledger[c])
                  /\ \A k \in 1 .. Len(ledger[c]) :
                       /\ ledger'[c][k].amount = ledger[c][k].amount
                       /\ ledger'[c][k].after = ledger[c][k].after
                       /\ ledger'[c][k].topUp = ledger[c][k].topUp]_vars
  BY DEF Grows
<1> QED
  BY InitType, NextType, <1>1, <1>2, PTL DEF Spec, LedgerOnlyGrows
-----------------------------------------------------------------------------
(* Top-ups *)

\* A move adds one line to what the ledger says of its top-up and nothing to what
\* it says of another, on this ledger or any other.
LEMMA MoveCredits ==
  ASSUME TypeOK, NEW c \in Customers, NEW type \in LineTypes, NEW signed \in Int,
         NEW o \in Orders \cup {NoOrder}, NEW u \in TopUps \cup {NoTopUp},
         Move(c, type, signed, o, u),
         NEW d \in Customers, NEW t \in TopUps
  PROVE  /\ Credits(d, t)' = IF d = c /\ t = u THEN Credits(d, t) \cup {Len(ledger[c]) + 1}
                                               ELSE Credits(d, t)
         /\ \A k \in Credits(d, t) : ledger'[d][k].amount = ledger[d][k].amount
<1>1. /\ Len(ledger'[c]) = Len(ledger[c]) + 1
      /\ \A k \in 1 .. Len(ledger[c]) : ledger'[c][k] = ledger[c][k]
      /\ ledger'[c][Len(ledger[c]) + 1].topUp = u
      /\ d # c => ledger'[d] = ledger[d]
  BY MoveAppends
<1>2. Len(ledger[c]) \in Nat
  BY DEF TypeOK
<1>3. CASE d # c
  BY <1>1, <1>3 DEF Credits
<1>4. CASE d = c
  <2>1. 1 .. Len(ledger'[c]) = 1 .. Len(ledger[c]) \cup {Len(ledger[c]) + 1}
    BY <1>1, <1>2
  <2> QED BY <1>1, <1>4, <2>1 DEF Credits
<1> QED BY <1>3, <1>4

LEMMA DeleteCredits ==
  ASSUME TypeOK, NEW o \in Orders, deleteOrder(o), NEW d \in Customers, NEW t \in TopUps
  PROVE  /\ Credits(d, t)' = Credits(d, t)
         /\ \A k \in Credits(d, t) : ledger'[d][k].amount = ledger[d][k].amount
BY DeleteKeeps DEF Credits

\* Steps that leave the top-ups and what the ledgers say of them alone.
LEMMA CreditsFrame ==
  ASSUME CreditedWhenApproved, UNCHANGED topUps,
         \A d \in Customers, t \in TopUps :
           /\ Credits(d, t)' = Credits(d, t)
           /\ \A k \in Credits(d, t) : ledger'[d][k].amount = ledger[d][k].amount
  PROVE  CreditedWhenApproved'
BY DEF CreditedWhenApproved, topUps

LEMMA CreditedNext == TypeInv /\ CreditedWhenApproved /\ [Next]_vars => CreditedWhenApproved'
<1> SUFFICES ASSUME TypeInv, CreditedWhenApproved, [Next]_vars PROVE CreditedWhenApproved'
  OBVIOUS
<1>0. TypeOK /\ SlotsFree
  BY DEF TypeInv
<1>1. ASSUME NEW q \in requests, createTopUp(q)
      PROVE  CreditedWhenApproved'
  <2>1. q.topUp \in TopUps /\ topUpStatus[q.topUp] = "NONE"
    BY <1>0 DEF TypeOK, SlotsFree, Requests
  <2>2. \A d \in Customers : Credits(d, q.topUp) = {}
    BY <2>1 DEF CreditedWhenApproved
  <2>3. \A d \in Customers, t \in TopUps : Credits(d, t)' = Credits(d, t)
    BY <1>1 DEF createTopUp, money, Credits
  <2>4. /\ topUpStatus'[q.topUp] = "PENDING" /\ ledger' = ledger
        /\ \A t \in TopUps \ {q.topUp} :
             /\ topUpStatus'[t] = topUpStatus[t] /\ topUpOwner'[t] = topUpOwner[t]
             /\ topUpAmount'[t] = topUpAmount[t]
    BY <1>0, <1>1, <2>1 DEF TypeOK, createTopUp, money
  <2> SUFFICES ASSUME NEW t \in TopUps, NEW d \in Customers
               PROVE  IF topUpStatus'[t] = "APPROVED" /\ d = topUpOwner'[t]
                      THEN \E k \in Credits(d, t)' :
                             Credits(d, t)' = {k} /\ ledger'[d][k].amount = topUpAmount'[t]
                      ELSE Credits(d, t)' = {}
    BY DEF CreditedWhenApproved
  <2>5. CASE t = q.topUp
    BY <2>2, <2>3, <2>4, <2>5
  <2>6. CASE t # q.topUp
    BY <2>3, <2>4, <2>6 DEF CreditedWhenApproved
  <2> QED BY <2>5, <2>6
<1>2. ASSUME NEW t \in TopUps, NEW a \in TopUpAmounts, ApproveTopUp(t, a)
      PROVE  CreditedWhenApproved'
  <2>1. topUpOwner[t] \in Customers /\ a \in Nat /\ a \in Int
    BY <1>0, <1>2, AmountsAssumption DEF SlotsFree, ApproveTopUp
  <2>c. PICK c \in Customers : c = topUpOwner[t]
    BY <2>1
  <2>2. Move(c, "TOPUP", a, NoOrder, t)
    BY <1>0, <1>2, <2>1, <2>c, CreditMoves DEF ApproveTopUp
  <2>3. \A d \in Customers : Credits(d, t) = {}
    BY <1>2 DEF CreditedWhenApproved, ApproveTopUp
  <2>4. \A d \in Customers, u \in TopUps :
          /\ Credits(d, u)' = IF d = c /\ u = t THEN Credits(d, u) \cup {Len(ledger[c]) + 1}
                                                ELSE Credits(d, u)
          /\ \A k \in Credits(d, u) : ledger'[d][k].amount = ledger[d][k].amount
    <3> SUFFICES ASSUME NEW d \in Customers, NEW u \in TopUps
                 PROVE  /\ Credits(d, u)' = IF d = c /\ u = t
                                            THEN Credits(d, u) \cup {Len(ledger[c]) + 1}
                                            ELSE Credits(d, u)
                        /\ \A k \in Credits(d, u) : ledger'[d][k].amount = ledger[d][k].amount
      OBVIOUS
    <3>1. "TOPUP" \in LineTypes /\ NoOrder \in Orders \cup {NoOrder} /\ t \in TopUps \cup {NoTopUp}
      BY DEF LineTypes
    <3> QED BY <1>0, <2>1, <2>2, <3>1, MoveCredits
  <2>5. ledger'[c][Len(ledger[c]) + 1].amount = a
    BY <1>0, <2>1, <2>2, MoveAppends
  <2>6. /\ topUpStatus' = [topUpStatus EXCEPT ![t] = "APPROVED"]
        /\ topUpAmount' = [topUpAmount EXCEPT ![t] = a]
        /\ topUpOwner' = topUpOwner
        /\ t \in DOMAIN topUpStatus /\ t \in DOMAIN topUpAmount
    BY <1>0, <1>2 DEF ApproveTopUp, TypeOK
  <2>7. SUFFICES ASSUME NEW u \in TopUps, NEW d \in Customers
                 PROVE  IF topUpStatus'[u] = "APPROVED" /\ d = topUpOwner'[u]
                        THEN \E k \in Credits(d, u)' :
                               Credits(d, u)' = {k} /\ ledger'[d][k].amount = topUpAmount'[u]
                        ELSE Credits(d, u)' = {}
    BY DEF CreditedWhenApproved
  <2>8. CASE u = t /\ d = c
    <3>1. Credits(d, u)' = {Len(ledger[c]) + 1}
      BY <2>3, <2>4, <2>8
    <3>2. topUpAmount'[u] = a
      BY <2>6, <2>8
    <3> QED BY <2>c, <2>5, <2>6, <2>8, <3>1, <3>2
  <2>9. CASE u = t /\ d # c
    BY <2>c, <2>3, <2>4, <2>6, <2>9
  <2>10. CASE u # t
    <3>1. Credits(d, u)' = Credits(d, u) /\ topUpStatus'[u] = topUpStatus[u]
          /\ topUpAmount'[u] = topUpAmount[u]
      BY <1>0, <2>4, <2>6, <2>10 DEF TypeOK
    <3> QED BY <2>4, <2>6, <3>1 DEF CreditedWhenApproved
  <2> QED BY <2>8, <2>9, <2>10
<1>3. ASSUME NEW t \in TopUps, RejectTopUp(t)
      PROVE  CreditedWhenApproved'
  <2>1. \A d \in Customers : Credits(d, t) = {}
    BY <1>3 DEF CreditedWhenApproved, RejectTopUp
  <2>2. \A d \in Customers, u \in TopUps : Credits(d, u)' = Credits(d, u)
    BY <1>3 DEF RejectTopUp, money, Credits
  <2> QED
    BY <1>0, <1>3, <2>1, <2>2 DEF CreditedWhenApproved, TypeOK, RejectTopUp, money
<1>4. ASSUME NEW c \in Customers, NEW type \in LineTypes, NEW signed \in Int,
             NEW o \in Orders \cup {NoOrder}, Move(c, type, signed, o, NoTopUp), UNCHANGED topUps
      PROVE  CreditedWhenApproved'
  BY <1>0, <1>4, MoveCredits, CreditsFrame, NothingAssumption
<1>5. ASSUME NEW o \in Orders, CheckoutWithWallet(o) \/ payOrder(o)
      PROVE  CreditedWhenApproved'
  <2>1. Owner[o] \in Customers /\ Total[o] \in Nat /\ -Total[o] \in Int
    BY OwnerAssumption, AmountsAssumption
  <2>2. Move(Owner[o], "PURCHASE", -Total[o], o, NoTopUp) /\ UNCHANGED topUps
    BY <1>0, <1>5, <2>1, DebitMoves DEF CheckoutWithWallet, payOrder
  <2> QED BY <1>4, <2>1, <2>2 DEF LineTypes
<1>6. ASSUME NEW c \in Customers, NEW a \in Adjustments, NEW type \in {"ADJUSTMENT", "REFUND"},
             NEW o \in Orders \cup {NoOrder}, adjust(c, a, type, o)
      PROVE  CreditedWhenApproved'
  <2>1. a \in Nat /\ a \in Int /\ -a \in Int
    BY AmountsAssumption
  <2>2. (Move(c, type, a, o, NoTopUp) \/ Move(c, type, -a, o, NoTopUp)) /\ UNCHANGED topUps
    BY <1>0, <1>6, <2>1, CreditMoves, DebitMoves DEF adjust
  <2> QED BY <1>4, <2>1, <2>2 DEF LineTypes
<1>7. ASSUME NEW o \in Orders, deleteOrder(o)
      PROVE  CreditedWhenApproved'
  BY <1>0, <1>7, DeleteCredits, CreditsFrame DEF deleteOrder
<1>8. ASSUME UNCHANGED <<money, topUps>>
      PROVE  CreditedWhenApproved'
  BY <1>8 DEF CreditedWhenApproved, Credits, money, topUps
<1>9. ASSUME NEW t \in TopUps, NEW c \in Customers, NEW a \in TopUpAmounts, NEW r \in Receipts,
             RequestTopUp(t, c, a, r)
      PROVE  UNCHANGED <<money, topUps>>
  BY <1>9 DEF RequestTopUp
<1>10. ASSUME NEW o \in Orders, checkout(o) \/ \E to \in Targets : transition(o, to)
       PROVE  UNCHANGED <<money, topUps>>
  BY <1>10 DEF checkout, transition
<1>11. UNCHANGED vars => UNCHANGED <<money, topUps>>
  BY DEF vars
<1> QED
  BY <1>1, <1>2, <1>3, <1>5, <1>6, <1>7, <1>8, <1>9, <1>10, <1>11 DEF Next

\* However many reviewers handle a top-up at once, its money is credited exactly
\* when it is approved, once, to whoever asked for it and for the accepted amount.
THEOREM TopUpsCreditedOnce == Spec => []CreditedWhenApproved
<1>1. Init => CreditedWhenApproved
  BY DEF Init, CreditedWhenApproved, Credits
<1> QED
  BY InitType, NextType, <1>1, CreditedNext, PTL DEF Spec
-----------------------------------------------------------------------------
(* Purchases *)

SettledStatuses == Statuses \ (OpenStatuses \cup {"NONE", "DELETED"})

\* Only an order that waits for payment can be walked to PAID, and a settled one
\* never reopens.
LEMMA PendingWalks ==
  ASSUME NEW s, CanWalk(s, <<"PAYMENT_SUBMITTED", "PAYMENT_REVIEW", "PAID">>)
  PROVE  s = "PENDING_PAYMENT"
<1>1. Allowed(s, "PAYMENT_SUBMITTED")
  BY DEF CanWalk
<1> QED
  BY <1>1 DEF Allowed, ORDER_TRANSITIONS, Statuses

LEMMA SettledNeverReopens ==
  ASSUME NEW s \in SettledStatuses, NEW to, Allowed(s, to)
  PROVE  to \in SettledStatuses
BY DEF Allowed, ORDER_TRANSITIONS, Statuses, SettledStatuses, OpenStatuses

LEMMA MoveCharges ==
  ASSUME TypeOK, NEW c \in Customers, NEW type \in LineTypes, NEW signed \in Int,
         NEW o \in Orders \cup {NoOrder}, NEW u \in TopUps \cup {NoTopUp},
         Move(c, type, signed, o, u),
         NEW d \in Customers, NEW p \in Orders
  PROVE  /\ Charges(d, p)' = IF d = c /\ p = o /\ type = "PURCHASE"
                             THEN Charges(d, p) \cup {Len(ledger[c]) + 1}
                             ELSE Charges(d, p)
         /\ \A k \in Charges(d, p) : ledger'[d][k].amount = ledger[d][k].amount
<1>1. /\ Len(ledger'[c]) = Len(ledger[c]) + 1
      /\ \A k \in 1 .. Len(ledger[c]) : ledger'[c][k] = ledger[c][k]
      /\ ledger'[c][Len(ledger[c]) + 1].order = o
      /\ ledger'[c][Len(ledger[c]) + 1].type = type
      /\ d # c => ledger'[d] = ledger[d]
  BY MoveAppends
<1>2. Len(ledger[c]) \in Nat
  BY DEF TypeOK
<1>3. CASE d # c
  BY <1>1, <1>3 DEF Charges
<1>4. CASE d = c
  <2>1. 1 .. Len(ledger'[c]) = 1 .. Len(ledger[c]) \cup {Len(ledger[c]) + 1}
    BY <1>1, <1>2
  <2> QED BY <1>1, <1>4, <2>1 DEF Charges
<1> QED BY <1>3, <1>4

LEMMA DeleteCharges ==
  ASSUME TypeOK, NEW o \in Orders, deleteOrder(o), NEW d \in Customers, NEW p \in Orders
  PROVE  /\ Charges(d, p)' = IF p = o THEN {} ELSE Charges(d, p)
         /\ \A k \in Charges(d, p) : ledger'[d][k].amount = ledger[d][k].amount
BY DeleteKeeps, NothingAssumption DEF Charges

LEMMA ChargedNext == TypeInv /\ ChargedWhenPaid /\ [Next]_vars => ChargedWhenPaid'
<1> SUFFICES ASSUME TypeInv, ChargedWhenPaid, [Next]_vars PROVE ChargedWhenPaid'
  OBVIOUS
<1>0. TypeOK
  BY DEF TypeInv
<1>1. ASSUME NEW o \in Orders, CheckoutWithWallet(o) \/ payOrder(o)
      PROVE  ChargedWhenPaid'
  <2>1. Owner[o] \in Customers /\ Total[o] \in Nat /\ -Total[o] \in Int
    BY OwnerAssumption, AmountsAssumption
  <2>c. PICK c \in Customers : c = Owner[o]
    BY <2>1
  <2>2. Move(c, "PURCHASE", -Total[o], o, NoTopUp)
    BY <1>0, <1>1, <2>1, <2>c, DebitMoves DEF CheckoutWithWallet, payOrder
  <2>3. status[o] \notin SettledStatuses
    <3>1. CASE CheckoutWithWallet(o)
      BY <3>1 DEF CheckoutWithWallet, SettledStatuses
    <3>2. CASE payOrder(o)
      BY <3>2, PendingWalks DEF payOrder, settleFromWallet, SettledStatuses, OpenStatuses
    <3> QED BY <1>1, <3>1, <3>2
  <2>4. \A d \in Customers : Charges(d, o) = {}
    BY <2>3 DEF ChargedWhenPaid, SettledStatuses
  <2>5. \A d \in Customers, p \in Orders :
          /\ Charges(d, p)' = IF d = c /\ p = o THEN Charges(d, p) \cup {Len(ledger[c]) + 1}
                                                ELSE Charges(d, p)
          /\ \A k \in Charges(d, p) : ledger'[d][k].amount = ledger[d][k].amount
    <3> SUFFICES ASSUME NEW d \in Customers, NEW p \in Orders
                 PROVE  /\ Charges(d, p)' = IF d = c /\ p = o
                                            THEN Charges(d, p) \cup {Len(ledger[c]) + 1}
                                            ELSE Charges(d, p)
                        /\ \A k \in Charges(d, p) : ledger'[d][k].amount = ledger[d][k].amount
      OBVIOUS
    <3>1. "PURCHASE" \in LineTypes /\ o \in Orders \cup {NoOrder} /\ NoTopUp \in TopUps \cup {NoTopUp}
      BY DEF LineTypes
    <3> QED BY <1>0, <2>1, <2>2, <3>1, MoveCharges
  <2>6. ledger'[c][Len(ledger[c]) + 1].amount = -Total[o]
    BY <1>0, <2>1, <2>2, MoveAppends
  <2>7. /\ status' = [status EXCEPT ![o] = "PAID"]
        /\ walletPaid' = [walletPaid EXCEPT ![o] = TRUE]
        /\ o \in DOMAIN status /\ o \in DOMAIN walletPaid
    BY <1>0, <1>1 DEF CheckoutWithWallet, payOrder, settleFromWallet, TypeOK
  <2> SUFFICES ASSUME NEW p \in Orders, NEW d \in Customers
               PROVE  IF walletPaid'[p] /\ d = Owner[p]
                      THEN \E k \in Charges(d, p)' :
                             /\ Charges(d, p)' = {k} /\ ledger'[d][k].amount = -Total[p]
                             /\ status'[p] \in SettledStatuses
                      ELSE Charges(d, p)' = {}
    BY DEF ChargedWhenPaid, SettledStatuses
  <2>8. CASE p = o /\ d = c
    <3>1. Charges(d, p)' = {Len(ledger[c]) + 1}
      BY <2>4, <2>5, <2>8
    <3>2. status'[p] \in SettledStatuses /\ walletPaid'[p]
      BY <2>7, <2>8 DEF SettledStatuses, Statuses, OpenStatuses
    <3> QED BY <2>c, <2>6, <2>8, <3>1, <3>2
  <2>9. CASE p = o /\ d # c
    BY <2>c, <2>4, <2>5, <2>9
  <2>10. CASE p # o
    <3>1. /\ Charges(d, p)' = Charges(d, p)
          /\ status'[p] = status[p] /\ walletPaid'[p] = walletPaid[p]
      BY <1>0, <2>5, <2>7, <2>10 DEF TypeOK
    <3> QED BY <2>5, <3>1 DEF ChargedWhenPaid, SettledStatuses
  <2> QED BY <2>8, <2>9, <2>10
<1>2. ASSUME UNCHANGED <<status, walletPaid>>,
             \A d \in Customers, p \in Orders :
               /\ Charges(d, p)' = Charges(d, p)
               /\ \A k \in Charges(d, p) : ledger'[d][k].amount = ledger[d][k].amount
      PROVE  ChargedWhenPaid'
  BY <1>2 DEF ChargedWhenPaid
<1>3. ASSUME NEW c \in Customers, NEW type \in LineTypes \ {"PURCHASE"}, NEW signed \in Int,
             NEW o \in Orders \cup {NoOrder}, NEW t \in TopUps \cup {NoTopUp},
             Move(c, type, signed, o, t), UNCHANGED <<status, walletPaid>>
      PROVE  ChargedWhenPaid'
  <2>1. \A d \in Customers, p \in Orders :
          /\ Charges(d, p)' = Charges(d, p)
          /\ \A k \in Charges(d, p) : ledger'[d][k].amount = ledger[d][k].amount
    <3> SUFFICES ASSUME NEW d \in Customers, NEW p \in Orders
                 PROVE  /\ Charges(d, p)' = Charges(d, p)
                        /\ \A k \in Charges(d, p) : ledger'[d][k].amount = ledger[d][k].amount
      OBVIOUS
    <3>1. type \in LineTypes /\ type # "PURCHASE" /\ Move(c, type, signed, o, t)
      BY <1>3
    <3>2. /\ Charges(d, p)' = IF d = c /\ p = o /\ type = "PURCHASE"
                              THEN Charges(d, p) \cup {Len(ledger[c]) + 1}
                              ELSE Charges(d, p)
          /\ \A k \in Charges(d, p) : ledger'[d][k].amount = ledger[d][k].amount
      BY <1>0, <3>1, MoveCharges
    <3> QED BY <3>1, <3>2
  <2> QED BY <1>2, <1>3, <2>1
<1>4. ASSUME NEW t \in TopUps, NEW a \in TopUpAmounts, ApproveTopUp(t, a)
      PROVE  ChargedWhenPaid'
  <2>1. topUpOwner[t] \in Customers /\ a \in Nat /\ a \in Int
    BY <1>4, AmountsAssumption DEF TypeInv, SlotsFree, ApproveTopUp
  <2>2. Move(topUpOwner[t], "TOPUP", a, NoOrder, t) /\ UNCHANGED <<status, walletPaid>>
    BY <1>0, <1>4, <2>1, CreditMoves DEF ApproveTopUp
  <2> QED BY <1>3, <2>1, <2>2 DEF LineTypes
<1>5. ASSUME NEW c \in Customers, NEW a \in Adjustments, NEW type \in {"ADJUSTMENT", "REFUND"},
             NEW o \in Orders \cup {NoOrder}, adjust(c, a, type, o)
      PROVE  ChargedWhenPaid'
  <2>1. a \in Nat /\ a \in Int /\ -a \in Int
    BY AmountsAssumption
  <2>2. /\ Move(c, type, a, o, NoTopUp) \/ Move(c, type, -a, o, NoTopUp)
        /\ UNCHANGED <<status, walletPaid>>
    BY <1>0, <1>5, <2>1, CreditMoves, DebitMoves DEF adjust
  <2> QED BY <1>3, <2>1, <2>2 DEF LineTypes
<1>6. ASSUME NEW o \in Orders, deleteOrder(o)
      PROVE  ChargedWhenPaid'
  <2>1. \A d \in Customers, p \in Orders :
          /\ Charges(d, p)' = IF p = o THEN {} ELSE Charges(d, p)
          /\ \A k \in Charges(d, p) : ledger'[d][k].amount = ledger[d][k].amount
    BY <1>0, <1>6, DeleteCharges
  <2>2. /\ ~walletPaid'[o]
        /\ \A p \in Orders \ {o} : walletPaid'[p] = walletPaid[p] /\ status'[p] = status[p]
    BY <1>0, <1>6 DEF deleteOrder, TypeOK
  <2> SUFFICES ASSUME NEW p \in Orders, NEW d \in Customers
               PROVE  IF walletPaid'[p] /\ d = Owner[p]
                      THEN \E k \in Charges(d, p)' :
                             /\ Charges(d, p)' = {k} /\ ledger'[d][k].amount = -Total[p]
                             /\ status'[p] \in SettledStatuses
                      ELSE Charges(d, p)' = {}
    BY DEF ChargedWhenPaid, SettledStatuses
  <2>3. CASE p = o
    BY <2>1, <2>2, <2>3
  <2>4. CASE p # o
    <3>1. Charges(d, p)' = Charges(d, p) /\ walletPaid'[p] = walletPaid[p] /\ status'[p] = status[p]
      BY <2>1, <2>2, <2>4
    <3> QED BY <2>1, <3>1 DEF ChargedWhenPaid, SettledStatuses
  <2> QED BY <2>3, <2>4
<1>7. ASSUME NEW o \in Orders, \/ checkout(o)
                               \/ \E to \in Targets : transition(o, to)
      PROVE  ChargedWhenPaid'
  <2>1. /\ \A d \in Customers, p \in Orders : Charges(d, p)' = Charges(d, p)
        /\ ledger' = ledger /\ walletPaid' = walletPaid
    BY <1>7 DEF checkout, transition, money, Charges
  <2>2. \A p \in Orders : status[p] \in SettledStatuses => status'[p] \in SettledStatuses
    <3>1. CASE checkout(o)
      BY <1>0, <3>1 DEF checkout, TypeOK, SettledStatuses
    <3>2. ASSUME NEW to \in Targets, transition(o, to)
          PROVE  \A p \in Orders : status[p] \in SettledStatuses => status'[p] \in SettledStatuses
      BY <1>0, <3>2, SettledNeverReopens DEF transition, TypeOK
    <3> QED BY <1>7, <3>1, <3>2
  <2> QED
    BY <2>1, <2>2 DEF ChargedWhenPaid, SettledStatuses
<1>8. ASSUME UNCHANGED <<money, status, walletPaid>>
      PROVE  ChargedWhenPaid'
  BY <1>8 DEF ChargedWhenPaid, Charges, money
<1>9. \/ \E t \in TopUps, c \in Customers, a \in TopUpAmounts, r \in Receipts : RequestTopUp(t, c, a, r)
      \/ \E q \in requests : createTopUp(q)
      \/ \E t \in TopUps : RejectTopUp(t)
      \/ UNCHANGED vars
      => UNCHANGED <<money, status, walletPaid>>
  BY DEF RequestTopUp, createTopUp, RejectTopUp, vars
<1> QED
  BY <1>1, <1>4, <1>5, <1>6, <1>7, <1>8, <1>9 DEF Next

\* An order is charged to the wallet exactly when the wallet paid it: once, in
\* full, to its own customer, whoever else pays, cancels or deletes it meanwhile.
THEOREM OrdersChargedOnce == Spec => []ChargedWhenPaid
<1>1. Init => ChargedWhenPaid
  BY DEF Init, ChargedWhenPaid, Charges
<1> QED
  BY InitType, NextType, <1>1, ChargedNext, PTL DEF Spec
-----------------------------------------------------------------------------
(* How far top-up requests that overlap can get past their checks *)

RequestsOf(c) == {q \in requests : q.customer = c}

\* A merchant never has more top-ups waiting than the limit, but one more for each
\* other request that was being handled while one of them was checked.
PendingNearLimit ==
  \A c \in Customers :
    PendingOf(c) # {} => Cardinality(PendingOf(c)) < MAX_PENDING_TOPUPS + MaxRequests

\* What is waiting and what is about to be inserted, together.
Load(c) == Cardinality(PendingOf(c)) + Cardinality(RequestsOf(c))

Within(c) ==
  /\ IsFiniteSet(PendingOf(c)) /\ IsFiniteSet(RequestsOf(c))
  /\ Load(c) > 0 => Load(c) < MAX_PENDING_TOPUPS + MaxRequests

LimitInv ==
  /\ IsFiniteSet(requests) /\ Cardinality(requests) <= MaxRequests
  /\ \A c \in Customers : Within(c)

LEMMA RequestsOfFinite ==
  ASSUME IsFiniteSet(requests), Cardinality(requests) <= MaxRequests, NEW c
  PROVE  /\ IsFiniteSet(RequestsOf(c)) /\ Cardinality(RequestsOf(c)) \in Nat
         /\ Cardinality(RequestsOf(c)) <= MaxRequests /\ Cardinality(requests) \in Nat
<1>1. RequestsOf(c) \subseteq requests
  BY DEF RequestsOf
<1>2. /\ IsFiniteSet(RequestsOf(c)) /\ Cardinality(RequestsOf(c)) <= Cardinality(requests)
  BY <1>1, FS_Subset
<1>3. Cardinality(RequestsOf(c)) \in Nat /\ Cardinality(requests) \in Nat
  BY <1>2, FS_CardinalityType
<1> QED BY <1>2, <1>3, LimitsAssumption

\* Fewer waiting top-ups and no more requests keep within the limit.
LEMMA WithinLess ==
  ASSUME NEW c, Within(c), PendingOf(c)' \subseteq PendingOf(c), UNCHANGED requests
  PROVE  Within(c)'
<1> DEFINE P == PendingOf(c)
           Q == PendingOf(c)'
           R == RequestsOf(c)
<1>1. IsFiniteSet(P) /\ Q \subseteq P /\ RequestsOf(c)' = R /\ IsFiniteSet(R)
  BY DEF Within, RequestsOf
<1>2. Load(c) = Cardinality(P) + Cardinality(R) /\ Load(c)' = Cardinality(Q) + Cardinality(R)
  BY <1>1 DEF Load
<1>3. Load(c) > 0 => Load(c) < MAX_PENDING_TOPUPS + MaxRequests
  BY DEF Within
<1> HIDE DEF P, Q, R
<1>4. /\ IsFiniteSet(Q) /\ Cardinality(Q) <= Cardinality(P)
      /\ Cardinality(P) \in Nat /\ Cardinality(Q) \in Nat /\ Cardinality(R) \in Nat
  BY <1>1, FS_Subset, FS_CardinalityType
<1>5. Load(c)' > 0 => Load(c)' < MAX_PENDING_TOPUPS + MaxRequests
  BY <1>2, <1>3, <1>4, LimitsAssumption
<1> QED BY <1>1, <1>4, <1>5 DEF Within, P, Q, R

LEMMA LimitRequest ==
  ASSUME TypeInv, LimitInv, NEW t \in TopUps, NEW d \in Customers, NEW a \in TopUpAmounts,
         NEW r \in Receipts, RequestTopUp(t, d, a, r)
  PROVE  LimitInv'
<1> DEFINE q == [topUp |-> t, customer |-> d, amount |-> a, receipt |-> r]
<1>1. /\ requests' = requests \cup {q} /\ q.customer = d
      /\ Cardinality(requests) < MaxRequests /\ Cardinality(PendingOf(d)) < MAX_PENDING_TOPUPS
      /\ \A c : PendingOf(c)' = PendingOf(c)
  BY DEF RequestTopUp, PendingOf, topUps
<1> HIDE DEF q
<1>2. IsFiniteSet(requests') /\ Cardinality(requests') <= MaxRequests
  <2>1. /\ IsFiniteSet(requests \cup {q})
        /\ Cardinality(requests \cup {q}) = IF q \in requests THEN Cardinality(requests)
                                                              ELSE Cardinality(requests) + 1
    BY FS_AddElement DEF LimitInv
  <2>2. Cardinality(requests) \in Nat
    BY FS_CardinalityType DEF LimitInv
  <2> QED BY <1>1, <2>1, <2>2, LimitsAssumption
<1>3. ASSUME NEW c \in Customers, c # d PROVE Within(c)'
  <2>1. RequestsOf(c)' = RequestsOf(c) /\ PendingOf(c)' = PendingOf(c) /\ Within(c)
    BY <1>1, <1>3 DEF RequestsOf, LimitInv
  <2> QED BY <2>1 DEF Within, Load
<1>4. Within(d)'
  <2>1. /\ IsFiniteSet(RequestsOf(d)') /\ Cardinality(RequestsOf(d)') \in Nat
        /\ Cardinality(RequestsOf(d)') <= MaxRequests
    <3> DEFINE S == RequestsOf(d)'
    <3>1. S \subseteq requests'
      BY DEF RequestsOf
    <3> HIDE DEF S
    <3>2. /\ IsFiniteSet(S) /\ Cardinality(S) <= Cardinality(requests')
          /\ Cardinality(S) \in Nat /\ Cardinality(requests') \in Nat
      BY <1>2, <3>1, FS_Subset, FS_CardinalityType
    <3>3. IsFiniteSet(S) /\ Cardinality(S) \in Nat /\ Cardinality(S) <= MaxRequests
      BY <1>2, <3>2, LimitsAssumption
    <3> QED BY <3>3 DEF S
  <2>2. IsFiniteSet(PendingOf(d)) /\ Cardinality(PendingOf(d)) \in Nat
    BY FS_CardinalityType DEF LimitInv, Within
  <2>3. Load(d)' = Cardinality(PendingOf(d)) + Cardinality(RequestsOf(d)')
    BY <1>1 DEF Load
  <2>4. Load(d)' < MAX_PENDING_TOPUPS + MaxRequests
    BY <1>1, <2>1, <2>2, <2>3, LimitsAssumption
  <2> QED BY <1>1, <2>1, <2>2, <2>4 DEF Within
<1> QED BY <1>2, <1>3, <1>4 DEF LimitInv

LEMMA LimitInsert ==
  ASSUME TypeInv, LimitInv, NEW q \in requests, createTopUp(q)
  PROVE  LimitInv'
<1> DEFINE d == q.customer
<1>1. /\ requests' = requests \ {q} /\ q.topUp \in TopUps /\ d \in Customers
      /\ topUpStatus[q.topUp] = "NONE"
      /\ topUpStatus' = [topUpStatus EXCEPT ![q.topUp] = "PENDING"]
      /\ topUpOwner' = [topUpOwner EXCEPT ![q.topUp] = d]
      /\ topUpStatus \in [TopUps -> {"NONE", "PENDING", "APPROVED", "REJECTED"}]
      /\ topUpOwner \in [TopUps -> Customers \cup {Nobody}]
  BY DEF createTopUp, TypeInv, TypeOK, SlotsFree, Requests
<1>2. IsFiniteSet(requests') /\ Cardinality(requests') <= MaxRequests
  <2>1. IsFiniteSet(requests \ {q}) /\ Cardinality(requests \ {q}) <= Cardinality(requests)
        /\ Cardinality(requests) \in Nat /\ Cardinality(requests \ {q}) \in Nat
    BY FS_Subset, FS_CardinalityType DEF LimitInv
  <2> QED BY <1>1, <2>1, LimitsAssumption DEF LimitInv
<1> HIDE DEF d
<1>3. ASSUME NEW c \in Customers, c # d PROVE Within(c)'
  <2>1. RequestsOf(c)' = RequestsOf(c)
    BY <1>1, <1>3 DEF RequestsOf, d
  <2>2. PendingOf(c)' = PendingOf(c)
    BY <1>1, <1>3 DEF PendingOf
  <2> QED BY <2>1, <2>2 DEF Within, Load, LimitInv
<1>4. Within(d)'
  <2> DEFINE P == PendingOf(d)
             R == RequestsOf(d)
  <2>1. IsFiniteSet(P) /\ IsFiniteSet(R) /\ q \in R /\ q.topUp \notin P
    BY <1>1 DEF LimitInv, Within, PendingOf, RequestsOf, d
  <2>2. PendingOf(d)' = P \cup {q.topUp} /\ RequestsOf(d)' = R \ {q}
    BY <1>1 DEF PendingOf, RequestsOf, d
  <2>3. Load(d) = Cardinality(P) + Cardinality(R) /\ (Load(d) > 0 => Load(d) < MAX_PENDING_TOPUPS + MaxRequests)
    BY <1>1 DEF Load, LimitInv, Within
  <2> HIDE DEF P, R
  <2>4. /\ IsFiniteSet(P \cup {q.topUp}) /\ Cardinality(P \cup {q.topUp}) = Cardinality(P) + 1
        /\ IsFiniteSet(R \ {q}) /\ Cardinality(R \ {q}) = Cardinality(R) - 1
        /\ Cardinality(P) \in Nat /\ Cardinality(R) \in Nat
    BY <2>1, FS_AddElement, FS_RemoveElement, FS_CardinalityType
  <2>5. Load(d)' = Load(d)
    BY <2>2, <2>3, <2>4 DEF Load
  <2> QED BY <1>1, <2>2, <2>3, <2>4, <2>5 DEF Within
<1> QED BY <1>2, <1>3, <1>4 DEF LimitInv

LEMMA LimitNext == TypeInv /\ LimitInv /\ [Next]_vars => LimitInv'
<1> SUFFICES ASSUME TypeInv, LimitInv, [Next]_vars PROVE LimitInv'
  OBVIOUS
<1>1. ASSUME UNCHANGED requests, \A c \in Customers : PendingOf(c)' \subseteq PendingOf(c)
      PROVE  LimitInv'
  BY <1>1, WithinLess DEF LimitInv
<1>2. ASSUME NEW t \in TopUps, RejectTopUp(t) \/ \E a \in TopUpAmounts : ApproveTopUp(t, a)
      PROVE  LimitInv'
  BY <1>1, <1>2 DEF RejectTopUp, ApproveTopUp, PendingOf, TypeInv, TypeOK
<1>3. ASSUME UNCHANGED <<topUps, requests>> PROVE LimitInv'
  BY <1>1, <1>3 DEF topUps, PendingOf
<1>4. ASSUME \/ \E o \in Orders : checkout(o) \/ CheckoutWithWallet(o) \/ payOrder(o) \/ deleteOrder(o)
             \/ \E o \in Orders, to \in Targets : transition(o, to)
             \/ \E c \in Customers, a \in Adjustments, type \in {"ADJUSTMENT", "REFUND"},
                   o \in Orders \cup {NoOrder} : adjust(c, a, type, o)
             \/ UNCHANGED vars
      PROVE  UNCHANGED <<topUps, requests>>
  BY <1>4 DEF checkout, CheckoutWithWallet, payOrder, deleteOrder, transition, adjust, vars
<1> QED BY <1>2, <1>3, <1>4, LimitRequest, LimitInsert DEF Next

\* However many forms are sent at once, the checks made before the insert let in no
\* more than the requests that overlap beyond the limit.
THEOREM OverlapsBoundPending == Spec => []PendingNearLimit
<1>1. Init => LimitInv
  <2> SUFFICES ASSUME Init PROVE LimitInv
    OBVIOUS
  <2>1. requests = {} /\ \A d : PendingOf(d) = {} /\ RequestsOf(d) = {}
    BY DEF Init, PendingOf, RequestsOf
  <2> QED BY <2>1, FS_EmptySet, LimitsAssumption DEF LimitInv, Within, Load
<1>2. LimitInv => PendingNearLimit
  <2> SUFFICES ASSUME LimitInv, NEW c \in Customers, PendingOf(c) # {}
               PROVE  Cardinality(PendingOf(c)) < MAX_PENDING_TOPUPS + MaxRequests
    BY DEF PendingNearLimit
  <2>1. /\ Cardinality(PendingOf(c)) \in Nat /\ Cardinality(PendingOf(c)) # 0
        /\ Cardinality(RequestsOf(c)) \in Nat
    BY FS_CardinalityType, FS_EmptySet DEF LimitInv, Within
  <2> QED BY <2>1, LimitsAssumption DEF LimitInv, Within, Load
<1> QED BY <1>1, <1>2, InitType, NextType, LimitNext, PTL DEF Spec

\* Two top-ups with the same receipt are the same merchant's, and one was rejected.
ReceiptsUsedOnce ==
  \A t, u \in TopUps :
    t # u /\ contentHash[t] = contentHash[u] /\ contentHash[t] # NoReceipt =>
      /\ topUpOwner[t] = topUpOwner[u]
      /\ "REJECTED" \in {topUpStatus[t], topUpStatus[u]}

\* What was checked for the request that is handled still holds.
ReceiptInv ==
  /\ ReceiptsUsedOnce
  /\ \A p, q \in requests : p = q
  /\ \A q \in requests : ~CopyOf(q.customer, q.receipt)

LEMMA ReceiptNext ==
  ASSUME MaxRequests <= 1, TypeInv, LimitInv, ReceiptInv, [Next]_vars
  PROVE  ReceiptInv'
<1>0. /\ topUpStatus \in [TopUps -> {"NONE", "PENDING", "APPROVED", "REJECTED"}]
      /\ topUpOwner \in [TopUps -> Customers \cup {Nobody}]
      /\ contentHash \in [TopUps -> Receipts \cup {NoReceipt}]
  BY DEF TypeInv, TypeOK
<1>1. ASSUME NEW t \in TopUps, NEW c \in Customers, NEW a \in TopUpAmounts, NEW r \in Receipts,
             RequestTopUp(t, c, a, r)
      PROVE  ReceiptInv'
  <2>1. requests = {}
    <3>1. Cardinality(requests) \in Nat /\ Cardinality(requests) < MaxRequests /\ IsFiniteSet(requests)
      BY <1>1, FS_CardinalityType DEF LimitInv, RequestTopUp
    <3> QED BY <3>1, FS_EmptySet, LimitsAssumption
  <2>2. requests' = {[topUp |-> t, customer |-> c, amount |-> a, receipt |-> r]} /\ ~CopyOf(c, r)
        /\ UNCHANGED topUps
    BY <1>1, <2>1 DEF RequestTopUp
  <2> QED BY <2>2 DEF ReceiptInv, ReceiptsUsedOnce, CopyOf, topUps
<1>2. ASSUME NEW q \in requests, createTopUp(q)
      PROVE  ReceiptInv'
  <2>1. requests' = {}
    BY <1>2 DEF createTopUp, ReceiptInv
  <2>2. /\ q.topUp \in TopUps /\ topUpStatus[q.topUp] = "NONE" /\ ~CopyOf(q.customer, q.receipt)
    BY DEF TypeInv, TypeOK, SlotsFree, Requests, ReceiptInv
  <2>3. \A u \in TopUps \ {q.topUp} :
          /\ topUpStatus'[u] = topUpStatus[u] /\ topUpOwner'[u] = topUpOwner[u]
          /\ contentHash'[u] = contentHash[u]
    BY <1>0, <1>2 DEF createTopUp
  <2>4. contentHash'[q.topUp] = q.receipt /\ topUpOwner'[q.topUp] = q.customer
    BY <1>0, <1>2, <2>2 DEF createTopUp
  <2>5. \A u \in TopUps \ {q.topUp} :
          contentHash'[u] = q.receipt => topUpOwner'[u] = q.customer /\ topUpStatus'[u] = "REJECTED"
    BY <2>2, <2>3 DEF CopyOf
  <2>6. ReceiptsUsedOnce'
    BY <2>3, <2>4, <2>5 DEF ReceiptInv, ReceiptsUsedOnce
  <2> QED BY <2>1, <2>6 DEF ReceiptInv
<1>3. ASSUME NEW t \in TopUps, RejectTopUp(t) \/ \E a \in TopUpAmounts : ApproveTopUp(t, a)
      PROVE  ReceiptInv'
  <2>1. UNCHANGED <<topUpOwner, contentHash, requests>>
    BY <1>3 DEF RejectTopUp, ApproveTopUp
  <2>2. \A u \in TopUps : topUpStatus[u] = "REJECTED" => topUpStatus'[u] = "REJECTED"
    BY <1>0, <1>3 DEF RejectTopUp, ApproveTopUp
  <2> QED BY <2>1, <2>2 DEF ReceiptInv, ReceiptsUsedOnce, CopyOf
<1>4. ASSUME UNCHANGED <<topUps, requests>> PROVE ReceiptInv'
  BY <1>4 DEF ReceiptInv, ReceiptsUsedOnce, CopyOf, topUps
<1>5. ASSUME \/ \E o \in Orders : checkout(o) \/ CheckoutWithWallet(o) \/ payOrder(o) \/ deleteOrder(o)
             \/ \E o \in Orders, to \in Targets : transition(o, to)
             \/ \E c \in Customers, a \in Adjustments, type \in {"ADJUSTMENT", "REFUND"},
                   o \in Orders \cup {NoOrder} : adjust(c, a, type, o)
             \/ UNCHANGED vars
      PROVE  UNCHANGED <<topUps, requests>>
  BY <1>5 DEF checkout, CheckoutWithWallet, payOrder, deleteOrder, transition, adjust, vars
<1> QED BY <1>1, <1>2, <1>3, <1>4, <1>5 DEF Next

\* When requests are handled one after the other, a receipt is never accepted twice:
\* only forms sent at the same moment can slip a copy past the check.
THEOREM CopiesNeedOverlap ==
  ASSUME MaxRequests <= 1
  PROVE  Spec => []ReceiptsUsedOnce
<1>1. Init => ReceiptInv /\ LimitInv
  <2> SUFFICES ASSUME Init PROVE ReceiptInv /\ LimitInv
    OBVIOUS
  <2>1. requests = {} /\ \A d : PendingOf(d) = {} /\ RequestsOf(d) = {}
    BY DEF Init, PendingOf, RequestsOf
  <2>2. LimitInv
    BY <2>1, FS_EmptySet, LimitsAssumption DEF LimitInv, Within, Load
  <2>3. ReceiptInv
    BY <2>1 DEF Init, ReceiptInv, ReceiptsUsedOnce
  <2> QED BY <2>2, <2>3
<1>2. TypeInv /\ LimitInv /\ ReceiptInv /\ [Next]_vars => ReceiptInv'
  BY ReceiptNext
<1>3. ReceiptInv => ReceiptsUsedOnce
  BY DEF ReceiptInv
<1> QED BY <1>1, <1>2, <1>3, InitType, NextType, LimitNext, PTL DEF Spec
=============================================================================
