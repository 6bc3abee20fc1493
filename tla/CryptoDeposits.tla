---------------------------- MODULE CryptoDeposits ----------------------------
(***************************************************************************)
(* Deposits on the store's own exchange account become paid orders         *)
(* (apps/api/src/modules/crypto-payments).  A deposit names no order: the  *)
(* amount is the only link, so every waiting watch claims an amount of its *)
(* own.                                                                    *)
(*                                                                         *)
(* A sweep (pollOnce) is a sequence of separate database calls.  The queue *)
(* runs one, the "sweep now" button another, staff match deposits by hand, *)
(* and customers open, extend and give up watches all the while.           *)
(***************************************************************************)
EXTENDS OrderStates, SequencesExt

CONSTANTS
  Orders,            \* the orders of one base price, so drawing from one pool
  Amounts,           \* that pool: the base plus each delta, one provider and asset
  Deposits,          \* the transaction ids the exchange may report
  Sweepers,          \* those who run pollOnce
  Job,               \* the sweeper that is the repeated queue job
  Reviewers,         \* staff who match by hand
  Mortal,            \* bound: the sweepers and reviewers whose process may die
  Targets,           \* bound: the statuses others move an order to
  MAX_EXTENSIONS,    \* extensions of one watch (2)
  Batch,             \* deposits one settling pass reads (200)
  AlertBatch,        \* deposits one alerting pass reads (50)
  Elsewhere,         \* payer: a proof, the wallet, staff
  Nobody, NoAmount, NoOrder, NoDeposit

ASSUME LimitsAssumption ==
  MAX_EXTENSIONS \in Nat /\ Batch \in Nat \ {0} /\ AlertBatch \in Nat \ {0}
ASSUME DepositsAssumption == IsFiniteSet(Deposits)
ASSUME TargetsAssumption == Targets \subseteq OpenStatuses \cup {"PAID", "CANCELLED"}
ASSUME ActorsAssumption ==
  /\ Job \in Sweepers /\ Sweepers \cap Reviewers = {}
  /\ Mortal \subseteq Sweepers \cup Reviewers
ASSUME NothingAssumption ==
  /\ Elsewhere \notin Deposits /\ Nobody \notin Deposits \cup {Elsewhere}
  /\ NoAmount \notin Amounts /\ NoOrder \notin Orders /\ NoDeposit \notin Deposits

VARIABLES
  status,      \* Order.status
  payer,       \* history: what moved the order to PAID
  watch,       \* CryptoPaymentWatch.status, NONE while there is no row
  expected,    \* CryptoPaymentWatch.expectedAmount
  claimKey,    \* CryptoPaymentWatch.claimKey
  extensions,  \* CryptoPaymentWatch.extensionsUsed
  due,         \* expiresAt of a WAITING watch has passed
  ledger,      \* the CryptoDeposit rows, oldest first
  amount,      \* CryptoDeposit.amount
  creditedTo,  \* CryptoDeposit.orderId; NoOrder while creditedAt is null
  byStaff,     \* the deposits with a matchedByStaffId
  old,         \* the deposits seen more than STRANDED_AFTER_MS ago
  alerted,     \* the deposits with an alertedAt
  act          \* where each sweep and each reviewer is

watches == <<watch, expected, claimKey, extensions, due>>
deposits == <<ledger, amount, creditedTo, byStaff, old, alerted>>
vars == <<status, payer, watches, deposits, act>>

Actors == Sweepers \cup Reviewers

Idle == [pc |-> "idle", todo |-> {}, deposit |-> NoDeposit, order |-> NoOrder,
         watched |-> FALSE, stale |-> {}]

Activities ==
  [pc : {"idle", "list", "settle", "credit", "expire", "alert", "match"},
   todo : SUBSET Deposits, deposit : Deposits \cup {NoDeposit},
   order : Orders \cup {NoOrder}, watched : BOOLEAN, stale : SUBSET Orders]

TypeOK ==
  /\ status \in [Orders -> Statuses]
  /\ payer \in [Orders -> Deposits \cup {Elsewhere, Nobody}]
  /\ watch \in [Orders -> {"NONE", "WAITING", "MATCHED", "EXPIRED", "CANCELLED"}]
  /\ expected \in [Orders -> Amounts \cup {NoAmount}]
  /\ claimKey \in [Orders -> Amounts \cup {NoAmount}]
  /\ extensions \in [Orders -> 0 .. MAX_EXTENSIONS]
  /\ due \in [Orders -> BOOLEAN]
  /\ ledger \in Seq(Deposits) /\ IsInjective(ledger)
  /\ amount \in [Deposits -> Amounts \cup {NoAmount}]
  /\ creditedTo \in [Deposits -> Orders \cup {NoOrder}]
  /\ byStaff \subseteq Deposits /\ old \subseteq Deposits /\ alerted \subseteq Deposits
  /\ act \in [Actors -> Activities]

Init ==
  /\ status = [o \in Orders |-> "PENDING_PAYMENT"]
  /\ payer = [o \in Orders |-> Nobody]
  /\ watch = [o \in Orders |-> "NONE"]
  /\ expected = [o \in Orders |-> NoAmount]
  /\ claimKey = [o \in Orders |-> NoAmount]
  /\ extensions = [o \in Orders |-> 0]
  /\ due = [o \in Orders |-> FALSE]
  /\ ledger = <<>>
  /\ amount = [d \in Deposits |-> NoAmount]
  /\ creditedTo = [d \in Deposits |-> NoOrder]
  /\ byStaff = {} /\ old = {} /\ alerted = {}
  /\ act = [x \in Actors |-> Idle]

-----------------------------------------------------------------------------
(* Watches *)

\* Mutant: the amount is drawn without the unique index.
OpenOnAnyAmount(o) ==
  /\ watch[o] = "NONE"
  /\ \E a \in Amounts :
       /\ expected' = [expected EXCEPT ![o] = a]
       /\ claimKey' = [claimKey EXCEPT ![o] = a]
  /\ watch' = [watch EXCEPT ![o] = "WAITING"]
  /\ UNCHANGED <<status, payer, extensions, due, deposits, act>>

\* At checkout, or by whoever opens the payment page of an order without one,
\* whatever the order's status is by then. An amount that is claimed is drawn
\* again; a draw that never succeeds leaves no watch.
openWatch(o) ==
  /\ watch[o] = "NONE"
  /\ \E a \in Amounts \ Range(claimKey) :
       /\ expected' = [expected EXCEPT ![o] = a]
       /\ claimKey' = [claimKey EXCEPT ![o] = a]
  /\ watch' = [watch EXCEPT ![o] = "WAITING"]
  /\ UNCHANGED <<status, payer, extensions, due, deposits, act>>

Elapse(o) ==
  /\ watch[o] = "WAITING" /\ ~due[o]
  /\ due' = [due EXCEPT ![o] = TRUE]
  /\ UNCHANGED <<status, payer, watch, expected, claimKey, extensions, deposits, act>>

\* Mutant: one extension too many.
ExtendOnceMore(o) ==
  /\ watch[o] = "WAITING" /\ extensions[o] <= MAX_EXTENSIONS
  /\ due' = [due EXCEPT ![o] = FALSE]
  /\ extensions' = [extensions EXCEPT ![o] = @ + 1]
  /\ UNCHANGED <<status, payer, watch, expected, claimKey, deposits, act>>

\* A full window from now, even one that has just elapsed.
extendForOrder(o) ==
  /\ watch[o] = "WAITING" /\ extensions[o] < MAX_EXTENSIONS
  /\ due' = [due EXCEPT ![o] = FALSE]
  /\ extensions' = [extensions EXCEPT ![o] = @ + 1]
  /\ UNCHANGED <<status, payer, watch, expected, claimKey, deposits, act>>

\* A WAITING watch leaves that state and its amount returns to the pool.
Release(o, to) ==
  /\ watch[o] = "WAITING"
  /\ watch' = [watch EXCEPT ![o] = to]
  /\ claimKey' = [claimKey EXCEPT ![o] = NoAmount]
  /\ due' = [due EXCEPT ![o] = FALSE]
  /\ UNCHANGED <<expected, extensions>>

\* By the customer who cancels, a ban, or a wallet payment just committed. Each
\* looked at the order before, and the move they make it for may still fail.
cancelForOrder(o) ==
  /\ Release(o, "CANCELLED")
  /\ UNCHANGED <<status, payer, deposits, act>>

\* Everyone else who moves an order not yet paid: proofs and their review, the
\* wallet (which walks to PAID in one transaction), cancellations and the expiry
\* of unpaid orders. None looks at the watch.
transition(o, to) ==
  /\ status[o] \in OpenStatuses
  /\ Allowed(status[o], to) \/ (to = "PAID" /\ status[o] = "PENDING_PAYMENT")
  /\ status' = [status EXCEPT ![o] = to]
  /\ payer' = [payer EXCEPT ![o] = IF to = "PAID" THEN Elsewhere ELSE @]
  /\ UNCHANGED <<watches, deposits, act>>

-----------------------------------------------------------------------------
(* Crediting *)

\* The watch claim of credit(): a matched watch is taken, and by the matcher only
\* a waiting one is free.
Claimable(o, requireWatchWaiting) ==
  IF requireWatchWaiting THEN watch[o] = "WAITING" ELSE watch[o] # "MATCHED"

Settle(d, o, watched) ==
  /\ status' = [status EXCEPT ![o] = "PAID"]
  /\ payer' = [payer EXCEPT ![o] = d]
  /\ IF watched
     THEN /\ watch' = [watch EXCEPT ![o] = "MATCHED"]
          /\ claimKey' = [claimKey EXCEPT ![o] = NoAmount]
          /\ due' = [due EXCEPT ![o] = FALSE]
          /\ UNCHANGED <<expected, extensions>>
     ELSE UNCHANGED watches

\* Mutant: the deposit row is not claimed first.
CreditUnclaimed(d, o, watched, staff) ==
  IF (watched /\ ~Claimable(o, ~staff)) \/ status[o] \notin OpenStatuses
  THEN UNCHANGED <<status, payer, watches, creditedTo, byStaff>>
  ELSE /\ creditedTo' = [creditedTo EXCEPT ![d] = o]
       /\ byStaff' = IF staff THEN byStaff \cup {d} ELSE byStaff
       /\ Settle(d, o, watched)

\* Mutant: the claims stay when the order refuses to move.
CreditPiecemeal(d, o, watched, staff) ==
  IF creditedTo[d] # NoOrder
  THEN UNCHANGED <<status, payer, watches, creditedTo, byStaff>>
  ELSE /\ creditedTo' = [creditedTo EXCEPT ![d] = o]
       /\ byStaff' = IF staff THEN byStaff \cup {d} ELSE byStaff
       /\ CASE watched /\ ~Claimable(o, ~staff) -> UNCHANGED <<status, payer, watches>>
            [] ~(watched /\ ~Claimable(o, ~staff)) /\ status[o] \in OpenStatuses
                 -> Settle(d, o, watched)
            [] OTHER -> /\ watch' = [watch EXCEPT ![o] = "MATCHED"]
                        /\ claimKey' = [claimKey EXCEPT ![o] = NoAmount]
                        /\ UNCHANGED <<status, payer, expected, extensions, due>>

\* One transaction. It does nothing when the deposit is credited already, and is
\* rolled back when the order cannot walk to PAID; when the watch cannot be
\* claimed it returns early, and so commits the claim of the deposit alone.
credit(d, o, watched, staff) ==
  LET claim ==
        /\ creditedTo' = [creditedTo EXCEPT ![d] = o]
        /\ byStaff' = IF staff THEN byStaff \cup {d} ELSE byStaff
  IN CASE creditedTo[d] # NoOrder
            -> UNCHANGED <<status, payer, watches, creditedTo, byStaff>>
       [] creditedTo[d] = NoOrder /\ watched /\ ~Claimable(o, ~staff)
            -> claim /\ UNCHANGED <<status, payer, watches>>
       [] OTHER
            -> IF status[o] \in OpenStatuses
               THEN claim /\ Settle(d, o, watched)
               ELSE UNCHANGED <<status, payer, watches, creditedTo, byStaff>>

-----------------------------------------------------------------------------
(* One sweep *)

Goto(x, r) == act' = [act EXCEPT ![x] = r]

\* The deposits the exchange reports and the ledger lacks, none when it cannot be
\* reached. A row has the moment of its insertion, so rows of one sweep tie.
ingest(s) ==
  /\ act[s].pc = "idle"
  /\ \E new \in SUBSET (Deposits \ ToSet(ledger)) :
       /\ \E q \in SetToSeqs(new) : ledger' = ledger \o q
       /\ \E f \in [new -> Amounts] :
            amount' = [d \in Deposits |-> IF d \in new THEN f[d] ELSE amount[d]]
  /\ Goto(s, [Idle EXCEPT !.pc = "list"])
  /\ UNCHANGED <<status, payer, watches, creditedTo, byStaff, old, alerted>>

Older(d, e) == \E i, j \in DOMAIN ledger : i < j /\ ledger[i] = d /\ ledger[j] = e

\* A page of a list sorted by seenAt.
Oldest(rows, limit) == {d \in rows : Cardinality({e \in rows : Older(e, d)}) < limit}

\* Mutant: only recent rows are settled.
ListFresh(s) ==
  /\ act[s].pc = "list"
  /\ LET uncredited == {d \in ToSet(ledger) \ old : creditedTo[d] = NoOrder}
     IN Goto(s, [Idle EXCEPT !.pc = "settle", !.todo = Oldest(uncredited, Batch)])
  /\ UNCHANGED <<status, payer, watches, deposits>>

ListPending(s) ==
  /\ act[s].pc = "list"
  /\ LET uncredited == {d \in ToSet(ledger) : creditedTo[d] = NoOrder}
     IN Goto(s, [Idle EXCEPT !.pc = "settle", !.todo = Oldest(uncredited, Batch)])
  /\ UNCHANGED <<status, payer, watches, deposits>>

\* Mutant: any waiting watch will do.
SettleNearest(s) ==
  /\ act[s].pc = "settle"
  /\ \E d \in Oldest(act[s].todo, 1) :
       LET found == {o \in Orders : watch[o] = "WAITING"}
       IN IF found = {}
          THEN Goto(s, [act[s] EXCEPT !.todo = @ \ {d}])
          ELSE \E o \in found :
                 Goto(s, [act[s] EXCEPT !.pc = "credit", !.todo = @ \ {d},
                                        !.deposit = d, !.order = o])
  /\ UNCHANGED <<status, payer, watches, deposits>>

settleOne(s) ==
  /\ act[s].pc = "settle"
  /\ \E d \in Oldest(act[s].todo, 1) :
       LET found == {o \in Orders : watch[o] = "WAITING" /\ expected[o] = amount[d]}
       IN IF found = {}
          THEN Goto(s, [act[s] EXCEPT !.todo = @ \ {d}])
          ELSE \E o \in found :
                 Goto(s, [act[s] EXCEPT !.pc = "credit", !.todo = @ \ {d},
                                        !.deposit = d, !.order = o])
  /\ UNCHANGED <<status, payer, watches, deposits>>

\* A failure is logged and the sweep goes on with the next deposit.
CreditFound(s) ==
  /\ act[s].pc = "credit"
  /\ credit(act[s].deposit, act[s].order, TRUE, FALSE)
  /\ Goto(s, [act[s] EXCEPT !.pc = "settle", !.deposit = NoDeposit, !.order = NoOrder])
  /\ UNCHANGED <<ledger, amount, old, alerted>>

ListStale(s) ==
  /\ act[s].pc = "settle" /\ act[s].todo = {}
  /\ Goto(s, [Idle EXCEPT !.pc = "expire",
                          !.stale = {o \in Orders : watch[o] = "WAITING" /\ due[o]}])
  /\ UNCHANGED <<status, payer, watches, deposits>>

\* Mutant: the update is not guarded on WAITING.
ExpireAnyway(s) ==
  /\ act[s].pc = "expire"
  /\ \E o \in act[s].stale :
       /\ watch' = [watch EXCEPT ![o] = "EXPIRED"]
       /\ claimKey' = [claimKey EXCEPT ![o] = NoAmount]
       /\ due' = [due EXCEPT ![o] = FALSE]
       /\ UNCHANGED <<expected, extensions>>
       /\ Goto(s, [act[s] EXCEPT !.stale = @ \ {o}])
  /\ UNCHANGED <<status, payer, deposits>>

\* Guarded on the status and not on the deadline, which may have moved.
expireStale(s) ==
  /\ act[s].pc = "expire"
  /\ \E o \in act[s].stale :
       /\ Release(o, "EXPIRED") \/ (watch[o] # "WAITING" /\ UNCHANGED watches)
       /\ Goto(s, [act[s] EXCEPT !.stale = @ \ {o}])
  /\ UNCHANGED <<status, payer, deposits>>

\* Mutant: the cutoff is compared the wrong way round.
ListRecent(s) ==
  /\ act[s].pc = "expire" /\ act[s].stale = {}
  /\ LET stranded == {d \in ToSet(ledger) \ (alerted \cup old) : creditedTo[d] = NoOrder}
     IN Goto(s, [Idle EXCEPT !.pc = "alert", !.todo = Oldest(stranded, AlertBatch)])
  /\ UNCHANGED <<status, payer, watches, deposits>>

ListStranded(s) ==
  /\ act[s].pc = "expire" /\ act[s].stale = {}
  /\ LET stranded == {d \in old \ alerted : creditedTo[d] = NoOrder}
     IN Goto(s, [Idle EXCEPT !.pc = "alert", !.todo = Oldest(stranded, AlertBatch)])
  /\ UNCHANGED <<status, payer, watches, deposits>>

\* The row is claimed before staff are told.
alertStranded(s) ==
  /\ act[s].pc = "alert"
  /\ \E d \in Oldest(act[s].todo, 1) :
       /\ alerted' = IF creditedTo[d] = NoOrder THEN alerted \cup {d} ELSE alerted
       /\ Goto(s, [act[s] EXCEPT !.todo = @ \ {d}])
  /\ UNCHANGED <<status, payer, watches, ledger, amount, creditedTo, byStaff, old>>

EndSweep(s) ==
  /\ act[s].pc = "alert" /\ act[s].todo = {}
  /\ Goto(s, Idle)
  /\ UNCHANGED <<status, payer, watches, deposits>>

pollOnce(s) ==
  \/ ingest(s) \/ ListPending(s) \/ settleOne(s) \/ CreditFound(s)
  \/ ListStale(s) \/ expireStale(s) \/ ListStranded(s) \/ alertStranded(s) \/ EndSweep(s)

\* STRANDED_AFTER_MS pass.
Age(d) ==
  /\ d \in ToSet(ledger) \ old
  /\ old' = old \cup {d}
  /\ UNCHANGED <<status, payer, watches, ledger, amount, creditedTo, byStaff, alerted, act>>

-----------------------------------------------------------------------------
(* Matching by hand *)

\* The reads and checks before credit().
matchManually(x, d, o) ==
  /\ act[x].pc = "idle"
  /\ d \in ToSet(ledger) /\ creditedTo[d] = NoOrder
  /\ status[o] \in OpenStatuses
  /\ Goto(x, [Idle EXCEPT !.pc = "match", !.deposit = d, !.order = o,
                          !.watched = watch[o] # "NONE"])
  /\ UNCHANGED <<status, payer, watches, deposits>>

CreditMatched(x) ==
  /\ act[x].pc = "match"
  /\ credit(act[x].deposit, act[x].order, act[x].watched, TRUE)
  /\ Goto(x, Idle)
  /\ UNCHANGED <<ledger, amount, old, alerted>>

\* A process dies between two calls and forgets what it was doing.
Crash(x) ==
  /\ act[x].pc # "idle"
  /\ Goto(x, Idle)
  /\ UNCHANGED <<status, payer, watches, deposits>>

-----------------------------------------------------------------------------
Next ==
  \/ \E o \in Orders : openWatch(o) \/ Elapse(o) \/ extendForOrder(o) \/ cancelForOrder(o)
  \/ \E o \in Orders, to \in Targets : transition(o, to)
  \/ \E s \in Sweepers : pollOnce(s)
  \/ \E d \in Deposits : Age(d)
  \/ \E x \in Reviewers, d \in Deposits, o \in Orders : matchManually(x, d, o)
  \/ \E x \in Reviewers : CreditMatched(x)
  \/ \E x \in Mortal : Crash(x)

\* The queue repeats the job every 40 seconds, and time passes.
Fairness ==
  /\ WF_vars(pollOnce(Job))
  /\ \A d \in Deposits : WF_vars(Age(d))

Spec == Init /\ [][Next]_vars /\ Fairness

-----------------------------------------------------------------------------
(* Properties *)

\* A transaction id never pays for two orders, nor for an order the ledger does
\* not name: whatever sweeps and reviewers overlap, the deposit an order was paid
\* with is credited to that order and no other.
OneDepositOneOrder ==
  \A o \in Orders : payer[o] \in Deposits => creditedTo[payer[o]] = o

\* The amount alone identifies the order: live watches never share one, and each
\* holds its claim exactly as long as it is live.
AmountsIdentify ==
  /\ \A o \in Orders : claimKey[o] = IF watch[o] = "WAITING" THEN expected[o] ELSE NoAmount
  /\ \A o, p \in Orders :
       watch[o] = "WAITING" /\ watch[p] = "WAITING" /\ expected[o] = expected[p] => o = p

\* The matcher pays an order only with the exact amount its customer was told to
\* send; anything else is a person's decision.
AutoPaidExactly ==
  \A o \in Orders :
    payer[o] \in Deposits /\ payer[o] \notin byStaff => amount[payer[o]] = expected[o]

\* A watch says MATCHED only of an order that a deposit did pay: never of one a
\* proof or the wallet paid, one cancelled meanwhile, or one still open.
MatchedMeansPaid ==
  \A o \in Orders : watch[o] = "MATCHED" => payer[o] \in Deposits /\ status[o] = "PAID"

\* A deposit keeps the order it was credited to, and a matched watch is never
\* reopened, expired by a sweep that listed it before, or cancelled.
SettledStays ==
  [][/\ \A d \in Deposits : creditedTo[d] # NoOrder => creditedTo'[d] = creditedTo[d]
     /\ \A o \in Orders : watch[o] = "MATCHED" => watch'[o] = "MATCHED"]_vars

\* No deposit is passed over for ever: each ends with creditedAt set or with alertedAt
\* set.  That is less than paid for or reported. creditedAt may be set by the early
\* return of credit(), which pays for nothing, and alertedAt is set before staff are
\* told, so that a process that dies in between tells nobody.
NoDepositPassedOver ==
  \A d \in Deposits :
    d \in ToSet(ledger) ~> creditedTo[d] # NoOrder \/ d \in alerted

\* While one settling pass can read the whole backlog, a deposit of the amount an
\* open order waits for is used, however late it is seen and whatever sweep died
\* on it, unless the watch closes or the order moves on first.
ExactDepositSettles ==
  \A d \in Deposits, o \in Orders :
    LET matches ==
          /\ d \in ToSet(ledger) /\ creditedTo[d] = NoOrder
          /\ watch[o] = "WAITING" /\ expected[o] = amount[d] /\ status[o] \in OpenStatuses
    IN matches ~> ~matches
=============================================================================
