------------------------- MODULE CryptoDepositsProofs -------------------------
(***************************************************************************)
(* What CryptoDeposits keeps true of every order, watch and transaction,   *)
(* however many sweeps and reviewers overlap.                              *)
(***************************************************************************)
EXTENDS CryptoDeposits, FiniteSetTheorems, TLAPS

-----------------------------------------------------------------------------
(* The ledger *)

LEMMA ConcatFacts ==
  ASSUME NEW S, NEW s \in Seq(S), NEW t \in Seq(S)
  PROVE  /\ s \o t \in Seq(S) /\ Len(s \o t) = Len(s) + Len(t)
         /\ \A i \in 1 .. Len(s) : (s \o t)[i] = s[i]
         /\ \A i \in 1 .. Len(t) : (s \o t)[Len(s) + i] = t[i]
BY SMT

\* What the exchange reports is appended: the ledger keeps its rows.
LEMMA IngestLedger ==
  ASSUME TypeOK, NEW new \in SUBSET (Deposits \ ToSet(ledger)), NEW q \in SetToSeqs(new),
         ledger' = ledger \o q
  PROVE  /\ ledger' \in Seq(Deposits) /\ IsInjective(ledger')
         /\ ToSet(ledger) \subseteq ToSet(ledger')
<1> DEFINE n == Cardinality(new)
<1>1. IsFiniteSet(new) /\ n \in Nat
  BY DepositsAssumption, FS_Subset, FS_CardinalityType
<1>2. /\ q \in [1 .. n -> new]
      /\ \A i, j \in 1 .. n : i # j => q[i] # q[j]
  BY DEF SetToSeqs
<1>3. q \in Seq(Deposits) /\ Len(q) = n
  BY <1>1, <1>2, SMTT(30)
<1>4. ledger \in Seq(Deposits) /\ IsInjective(ledger)
  BY DEF TypeOK
<1>5. ledger' \in Seq(Deposits) /\ Len(ledger') = Len(ledger) + n
  <2>1. ledger' = ledger \o q
    OBVIOUS
  <2> QED
    BY <1>3, <1>4, <2>1, ConcatFacts
<1>6. \A i \in 1 .. Len(ledger) : ledger'[i] = ledger[i] /\ ledger[i] \in ToSet(ledger)
  BY <1>3, <1>4 DEF ToSet
<1>7. \A i \in 1 .. Len(ledger') :
        i \notin 1 .. Len(ledger) =>
          /\ i - Len(ledger) \in 1 .. n /\ ledger'[i] = q[i - Len(ledger)]
          /\ ledger'[i] \in new
  BY <1>1, <1>2, <1>3, <1>4, <1>5
<1>8. ASSUME NEW i \in 1 .. Len(ledger'), NEW j \in 1 .. Len(ledger'), ledger'[i] = ledger'[j]
      PROVE  i = j
  <2>1. CASE i \in 1 .. Len(ledger) /\ j \in 1 .. Len(ledger)
    BY <1>4, <1>6, <1>8, <2>1 DEF IsInjective
  <2>2. CASE i \notin 1 .. Len(ledger) /\ j \notin 1 .. Len(ledger)
    <3>1. i - Len(ledger) = j - Len(ledger)
      BY <1>2, <1>7, <1>8, <2>2
    <3> QED
      BY <1>4, <1>5, <3>1
  <2>3. CASE (i \in 1 .. Len(ledger)) # (j \in 1 .. Len(ledger))
    BY <1>6, <1>7, <1>8, <2>3
  <2> QED
    BY <2>1, <2>2, <2>3
<1>9. IsInjective(ledger')
  BY <1>5, <1>8 DEF IsInjective
<1>10. ToSet(ledger) \subseteq ToSet(ledger')
  <2>1. \A i \in DOMAIN ledger : i \in DOMAIN ledger' /\ ledger'[i] = ledger[i]
    BY <1>1, <1>4, <1>5, <1>6
  <2> QED
    BY <2>1 DEF ToSet
<1> QED
  BY <1>5, <1>9, <1>10

LEMMA LedgerDeposits ==
  ASSUME TypeOK
  PROVE  ToSet(ledger) \subseteq Deposits
BY DEF TypeOK, ToSet

-----------------------------------------------------------------------------
(* Types *)

RowTypes ==
  /\ status \in [Orders -> Statuses]
  /\ payer \in [Orders -> Deposits \cup {Elsewhere, Nobody}]
  /\ watch \in [Orders -> {"NONE", "WAITING", "MATCHED", "EXPIRED", "CANCELLED"}]
  /\ expected \in [Orders -> Amounts \cup {NoAmount}]
  /\ claimKey \in [Orders -> Amounts \cup {NoAmount}]
  /\ extensions \in [Orders -> 0 .. MAX_EXTENSIONS]
  /\ due \in [Orders -> BOOLEAN]
  /\ creditedTo \in [Deposits -> Orders \cup {NoOrder}]
  /\ byStaff \subseteq Deposits

LEMMA GotoTyped ==
  ASSUME TypeOK, NEW x \in Actors, NEW r \in Activities, Goto(x, r)
  PROVE  act' \in [Actors -> Activities]
BY DEF TypeOK, Goto

LEMMA ReleaseTyped ==
  ASSUME TypeOK, NEW o \in Orders, NEW to \in {"EXPIRED", "CANCELLED"}, Release(o, to)
  PROVE  /\ watch' \in [Orders -> {"NONE", "WAITING", "MATCHED", "EXPIRED", "CANCELLED"}]
         /\ expected' \in [Orders -> Amounts \cup {NoAmount}]
         /\ claimKey' \in [Orders -> Amounts \cup {NoAmount}]
         /\ extensions' \in [Orders -> 0 .. MAX_EXTENSIONS]
         /\ due' \in [Orders -> BOOLEAN]
BY DEF TypeOK, Release

LEMMA CreditTyped ==
  ASSUME TypeOK, NEW d \in Deposits, NEW o \in Orders, NEW watched \in BOOLEAN,
         NEW staff \in BOOLEAN, credit(d, o, watched, staff)
  PROVE  RowTypes'
<1>1. CASE UNCHANGED <<status, payer, watches, creditedTo, byStaff>>
  BY <1>1 DEF TypeOK, RowTypes, watches
<1>2. CASE /\ creditedTo' = [creditedTo EXCEPT ![d] = o]
           /\ byStaff' = IF staff THEN byStaff \cup {d} ELSE byStaff
           /\ UNCHANGED <<status, payer, watches>>
  BY <1>2 DEF TypeOK, RowTypes, watches
<1>3. CASE /\ creditedTo' = [creditedTo EXCEPT ![d] = o]
           /\ byStaff' = IF staff THEN byStaff \cup {d} ELSE byStaff
           /\ Settle(d, o, watched)
  <2>1. status' \in [Orders -> Statuses] /\ payer' \in [Orders -> Deposits \cup {Elsewhere, Nobody}]
    BY <1>3 DEF TypeOK, Settle, Statuses
  <2>2. creditedTo' \in [Deposits -> Orders \cup {NoOrder}] /\ byStaff' \subseteq Deposits
    BY <1>3 DEF TypeOK
  <2>3. CASE watched
    <3>1. /\ watch' = [watch EXCEPT ![o] = "MATCHED"]
          /\ claimKey' = [claimKey EXCEPT ![o] = NoAmount]
          /\ due' = [due EXCEPT ![o] = FALSE]
          /\ expected' = expected /\ extensions' = extensions
      BY <1>3, <2>3 DEF Settle
    <3>2. watch' \in [Orders -> {"NONE", "WAITING", "MATCHED", "EXPIRED", "CANCELLED"}]
      BY <3>1 DEF TypeOK
    <3>3. expected' \in [Orders -> Amounts \cup {NoAmount}]
          /\ claimKey' \in [Orders -> Amounts \cup {NoAmount}]
      BY <3>1 DEF TypeOK
    <3>4. extensions' \in [Orders -> 0 .. MAX_EXTENSIONS] /\ due' \in [Orders -> BOOLEAN]
      BY <3>1 DEF TypeOK
    <3> QED
      BY <2>1, <2>2, <3>2, <3>3, <3>4 DEF RowTypes
  <2>4. CASE ~watched
    BY <1>3, <2>1, <2>2, <2>4 DEF TypeOK, RowTypes, Settle, watches
  <2> QED
    BY <2>3, <2>4
<1> QED
  BY <1>1, <1>2, <1>3 DEF credit

RestTypes ==
  /\ ledger \in Seq(Deposits) /\ IsInjective(ledger)
  /\ amount \in [Deposits -> Amounts \cup {NoAmount}]
  /\ old \subseteq Deposits /\ alerted \subseteq Deposits
  /\ act \in [Actors -> Activities]

LEMMA TypeParts == TypeOK <=> RowTypes /\ RestTypes
BY DEF TypeOK, RowTypes, RestTypes

\* The sweep and the reviewer only ever think of deposits of the ledger, and the
\* matcher of a deposit and the watch of an order that agree in the amount.
Sound(r) ==
  /\ r.pc \in {"settle", "credit"} => r.todo \subseteq ToSet(ledger)
  /\ r.pc \in {"credit", "match"} => r.deposit \in ToSet(ledger) /\ r.order \in Orders
  /\ r.pc = "credit" => watch[r.order] # "NONE" /\ expected[r.order] = amount[r.deposit]

ActsSound == \A x \in Actors : Sound(act[x])

LEMMA WatchTyped ==
  ASSUME TypeOK, NEW o \in Orders,
         openWatch(o) \/ Elapse(o) \/ extendForOrder(o) \/ cancelForOrder(o)
  PROVE  TypeOK'
<1>1. RestTypes'
  BY DEF TypeOK, RestTypes, openWatch, Elapse, extendForOrder, cancelForOrder, deposits
<1>2. CASE openWatch(o)
  BY <1>1, <1>2, TypeParts DEF TypeOK, RowTypes, openWatch, deposits
<1>3. CASE Elapse(o)
  BY <1>1, <1>3, TypeParts DEF TypeOK, RowTypes, Elapse, deposits
<1>4. CASE extendForOrder(o)
  <2>1. extensions[o] + 1 \in 0 .. MAX_EXTENSIONS
    BY <1>4, LimitsAssumption DEF TypeOK, extendForOrder
  <2> QED
    BY <1>1, <1>4, <2>1, TypeParts DEF TypeOK, RowTypes, extendForOrder, deposits
<1>5. CASE cancelForOrder(o)
  BY <1>1, <1>5, ReleaseTyped, TypeParts DEF TypeOK, RowTypes, cancelForOrder, deposits
<1> QED
  BY <1>2, <1>3, <1>4, <1>5

LEMMA TransitionTyped ==
  ASSUME TypeOK, NEW o \in Orders, NEW to \in Targets, transition(o, to)
  PROVE  TypeOK'
<1>1. to \in Statuses
  BY TargetsAssumption DEF OpenStatuses, Statuses
<1> QED
  BY <1>1, TypeParts DEF TypeOK, RowTypes, RestTypes, transition, watches, deposits

LEMMA SweepTyped ==
  ASSUME TypeOK, ActsSound, NEW s \in Sweepers, pollOnce(s)
  PROVE  TypeOK'
<1>0. s \in Actors /\ act[s] \in Activities /\ ToSet(ledger) \subseteq Deposits
  BY LedgerDeposits DEF TypeOK, Actors
<1>1. CASE ingest(s)
  <2>1. PICK new \in SUBSET (Deposits \ ToSet(ledger)) :
           /\ \E q \in SetToSeqs(new) : ledger' = ledger \o q
           /\ \E f \in [new -> Amounts] :
                amount' = [d \in Deposits |-> IF d \in new THEN f[d] ELSE amount[d]]
    BY <1>1 DEF ingest
  <2>2. ledger' \in Seq(Deposits) /\ IsInjective(ledger')
    BY <2>1, IngestLedger
  <2>3. amount' \in [Deposits -> Amounts \cup {NoAmount}]
    BY <2>1 DEF TypeOK
  <2>4. [Idle EXCEPT !.pc = "list"] \in Activities
    BY DEF Idle, Activities
  <2>5. act' \in [Actors -> Activities]
    BY <1>0, <1>1, <2>4, GotoTyped DEF ingest
  <2> QED
    BY <1>1, <2>2, <2>3, <2>5, TypeParts DEF TypeOK, RowTypes, RestTypes, ingest, watches
<1>2. CASE ListPending(s)
  <2> DEFINE todo == Oldest({d \in ToSet(ledger) : creditedTo[d] = NoOrder}, Batch)
  <2>1. todo \subseteq Deposits
    BY <1>0 DEF Oldest
  <2>2. [Idle EXCEPT !.pc = "settle", !.todo = todo] \in Activities
    BY <2>1 DEF Idle, Activities
  <2>3. act' \in [Actors -> Activities]
    BY <1>0, <1>2, <2>2, GotoTyped DEF ListPending
  <2> QED
    BY <1>2, <2>3, TypeParts DEF TypeOK, RowTypes, RestTypes, ListPending, watches, deposits
<1>3. CASE settleOne(s)
  <2>1. PICK d \in act[s].todo :
           \/ Goto(s, [act[s] EXCEPT !.todo = @ \ {d}])
           \/ \E o \in Orders :
                Goto(s, [act[s] EXCEPT !.pc = "credit", !.todo = @ \ {d},
                                       !.deposit = d, !.order = o])
    BY <1>3 DEF settleOne, Oldest
  <2>2. d \in Deposits /\ act[s].todo \subseteq Deposits
    BY <1>0 DEF Activities
  <2>3. [act[s] EXCEPT !.todo = @ \ {d}] \in Activities
    BY <1>0 DEF Activities
  <2>4. ASSUME NEW o \in Orders
        PROVE  [act[s] EXCEPT !.pc = "credit", !.todo = @ \ {d},
                              !.deposit = d, !.order = o] \in Activities
    BY <1>0, <2>2 DEF Activities
  <2>5. act' \in [Actors -> Activities]
    BY <1>0, <2>1, <2>3, <2>4, GotoTyped
  <2> QED
    BY <1>3, <2>5, TypeParts DEF TypeOK, RowTypes, RestTypes, settleOne, watches, deposits
<1>4. CASE CreditFound(s)
  <2>1. act[s].deposit \in Deposits /\ act[s].order \in Orders
    BY <1>0, <1>4 DEF CreditFound, ActsSound, Sound
  <2>2. RowTypes'
    BY <1>4, <2>1, CreditTyped DEF CreditFound
  <2>3. [act[s] EXCEPT !.pc = "settle", !.deposit = NoDeposit, !.order = NoOrder] \in Activities
    BY <1>0 DEF Activities
  <2>4. act' \in [Actors -> Activities]
    BY <1>0, <1>4, <2>3, GotoTyped DEF CreditFound
  <2>5. RestTypes'
    <3>1. UNCHANGED <<ledger, amount, old, alerted>>
      BY <1>4 DEF CreditFound
    <3> QED
      BY <2>4, <3>1 DEF TypeOK, RestTypes
  <2> QED
    BY <2>2, <2>5 DEF TypeOK, RowTypes, RestTypes
<1>5. CASE ListStale(s)
  <2>1. [Idle EXCEPT !.pc = "expire", !.stale = {o \in Orders : watch[o] = "WAITING" /\ due[o]}]
          \in Activities
    BY DEF Idle, Activities
  <2>2. act' \in [Actors -> Activities]
    BY <1>0, <1>5, <2>1, GotoTyped DEF ListStale
  <2> QED
    BY <1>5, <2>2, TypeParts DEF TypeOK, RowTypes, RestTypes, ListStale, watches, deposits
<1>6. CASE expireStale(s)
  <2>1. PICK o \in act[s].stale :
           /\ Release(o, "EXPIRED") \/ (watch[o] # "WAITING" /\ UNCHANGED watches)
           /\ Goto(s, [act[s] EXCEPT !.stale = @ \ {o}])
    BY <1>6 DEF expireStale
  <2>2. o \in Orders
    BY <1>0 DEF Activities
  <2>3. [act[s] EXCEPT !.stale = @ \ {o}] \in Activities
    BY <1>0 DEF Activities
  <2>4. act' \in [Actors -> Activities]
    BY <1>0, <2>1, <2>3, GotoTyped
  <2>5. CASE Release(o, "EXPIRED")
    BY <1>6, <2>2, <2>4, <2>5, ReleaseTyped, TypeParts
       DEF TypeOK, RowTypes, RestTypes, expireStale, deposits
  <2>6. CASE UNCHANGED watches
    BY <1>6, <2>4, <2>6, TypeParts DEF TypeOK, RowTypes, RestTypes, expireStale, deposits, watches
  <2> QED
    BY <2>1, <2>5, <2>6
<1>7. CASE ListStranded(s)
  <2> DEFINE todo == Oldest({d \in old \ alerted : creditedTo[d] = NoOrder}, AlertBatch)
  <2>1. todo \subseteq Deposits
    BY DEF Oldest, TypeOK
  <2>2. [Idle EXCEPT !.pc = "alert", !.todo = todo] \in Activities
    BY <2>1 DEF Idle, Activities
  <2>3. act' \in [Actors -> Activities]
    BY <1>0, <1>7, <2>2, GotoTyped DEF ListStranded
  <2> QED
    BY <1>7, <2>3, TypeParts DEF TypeOK, RowTypes, RestTypes, ListStranded, watches, deposits
<1>8. CASE alertStranded(s)
  <2>1. PICK d \in act[s].todo :
           /\ alerted' = IF creditedTo[d] = NoOrder THEN alerted \cup {d} ELSE alerted
           /\ Goto(s, [act[s] EXCEPT !.todo = @ \ {d}])
    BY <1>8 DEF alertStranded, Oldest
  <2>2. d \in Deposits
    BY <1>0 DEF Activities
  <2>3. [act[s] EXCEPT !.todo = @ \ {d}] \in Activities
    BY <1>0 DEF Activities
  <2>4. act' \in [Actors -> Activities]
    BY <1>0, <2>1, <2>3, GotoTyped
  <2> QED
    BY <1>8, <2>1, <2>2, <2>4, TypeParts DEF TypeOK, RowTypes, RestTypes, alertStranded, watches
<1>9. CASE EndSweep(s)
  <2>1. Idle \in Activities
    BY DEF Idle, Activities
  <2>2. act' \in [Actors -> Activities]
    BY <1>0, <1>9, <2>1, GotoTyped DEF EndSweep
  <2> QED
    BY <1>9, <2>2, TypeParts DEF TypeOK, RowTypes, RestTypes, EndSweep, watches, deposits
<1> QED
  BY <1>1, <1>2, <1>3, <1>4, <1>5, <1>6, <1>7, <1>8, <1>9 DEF pollOnce

LEMMA ReviewTyped ==
  ASSUME TypeOK, ActsSound, NEW x \in Reviewers,
         (\E d \in Deposits, o \in Orders : matchManually(x, d, o)) \/ CreditMatched(x)
  PROVE  TypeOK'
<1>0. x \in Actors /\ act[x] \in Activities /\ ToSet(ledger) \subseteq Deposits
  BY LedgerDeposits DEF TypeOK, Actors
<1>1. ASSUME NEW d \in Deposits, NEW o \in Orders, matchManually(x, d, o)
      PROVE  TypeOK'
  <2>1. [Idle EXCEPT !.pc = "match", !.deposit = d, !.order = o, !.watched = watch[o] # "NONE"]
          \in Activities
    BY DEF Idle, Activities
  <2>2. act' \in [Actors -> Activities]
    BY <1>0, <1>1, <2>1, GotoTyped DEF matchManually
  <2> QED
    BY <1>1, <2>2, TypeParts DEF TypeOK, RowTypes, RestTypes, matchManually, watches, deposits
<1>2. CASE CreditMatched(x)
  <2>1. act[x].deposit \in Deposits /\ act[x].order \in Orders /\ act[x].watched \in BOOLEAN
    BY <1>0, <1>2 DEF CreditMatched, ActsSound, Sound, Activities
  <2>2. RowTypes'
    BY <1>2, <2>1, CreditTyped DEF CreditMatched
  <2>3. Idle \in Activities
    BY DEF Idle, Activities
  <2>4. act' \in [Actors -> Activities]
    BY <1>0, <1>2, <2>3, GotoTyped DEF CreditMatched
  <2>5. RestTypes'
    <3>1. UNCHANGED <<ledger, amount, old, alerted>>
      BY <1>2 DEF CreditMatched
    <3> QED
      BY <2>4, <3>1 DEF TypeOK, RestTypes
  <2> QED
    BY <2>2, <2>5 DEF TypeOK, RowTypes, RestTypes
<1> QED
  BY <1>1, <1>2

LEMMA NextTyped ==
  ASSUME TypeOK, ActsSound, [Next]_vars
  PROVE  TypeOK'
<1>1. ASSUME NEW d \in Deposits, Age(d)
      PROVE  TypeOK'
  BY <1>1, TypeParts DEF TypeOK, RowTypes, RestTypes, Age, watches
<1>2. ASSUME NEW x \in Mortal, Crash(x)
      PROVE  TypeOK'
  <2>1. x \in Actors /\ Idle \in Activities
    BY ActorsAssumption DEF Actors, Idle, Activities
  <2>2. act' \in [Actors -> Activities]
    BY <1>2, <2>1, GotoTyped DEF Crash
  <2> QED
    BY <1>2, <2>2, TypeParts DEF TypeOK, RowTypes, RestTypes, Crash, watches, deposits
<1>3. CASE UNCHANGED vars
  BY <1>3, TypeParts DEF TypeOK, RowTypes, RestTypes, vars, watches, deposits
<1> QED
  BY <1>1, <1>2, <1>3, WatchTyped, TransitionTyped, SweepTyped, ReviewTyped DEF Next

-----------------------------------------------------------------------------
(* What a step may do *)

Claims ==
  \/ UNCHANGED <<watch, expected, claimKey>>
  \/ \E o \in Orders : openWatch(o)
  \/ \E o \in Orders, to \in {"MATCHED", "EXPIRED", "CANCELLED"} :
       /\ watch' = [watch EXCEPT ![o] = to]
       /\ claimKey' = [claimKey EXCEPT ![o] = NoAmount]
       /\ expected' = expected

Same(o) ==
  /\ status'[o] = status[o] /\ payer'[o] = payer[o]
  /\ watch'[o] = "MATCHED" <=> watch[o] = "MATCHED"
  /\ watch[o] # "NONE" => watch'[o] # "NONE" /\ expected'[o] = expected[o]

Moved(o) ==
  /\ status[o] \in OpenStatuses
  /\ watch'[o] = watch[o] /\ expected'[o] = expected[o]
  /\ payer'[o] = IF status'[o] = "PAID" THEN Elsewhere ELSE payer[o]

Paid(o, d) ==
  /\ status[o] \in OpenStatuses /\ status'[o] = "PAID" /\ payer'[o] = d
  /\ creditedTo[d] = NoOrder /\ creditedTo'[d] = o
  /\ watch'[o] \in {watch[o], "MATCHED"} /\ expected'[o] = expected[o]
  /\ d \in byStaff' \/ (watch'[o] = "MATCHED" /\ watch[o] # "NONE" /\ expected[o] = amount[d])

Shape ==
  /\ ToSet(ledger) \subseteq ToSet(ledger')
  /\ \A d \in ToSet(ledger) : amount'[d] = amount[d]
  /\ \A d \in Deposits : creditedTo'[d] = creditedTo[d]
                           \/ (creditedTo[d] = NoOrder /\ d \in ToSet(ledger))
  /\ byStaff \subseteq byStaff'
  /\ \A o \in Orders : Same(o) \/ Moved(o) \/ \E d \in ToSet(ledger) : Paid(o, d)
  /\ Claims

\* A step that touches neither orders nor watches.
LEMMA QuietShape ==
  ASSUME TypeOK, UNCHANGED <<status, payer, watches, creditedTo, byStaff>>,
         UNCHANGED <<ledger, amount>> \/ \E s \in Sweepers : ingest(s)
  PROVE  Shape
<1>1. \A o \in Orders : Same(o)
  BY DEF Same, watches
<1>2. ToSet(ledger) \subseteq ToSet(ledger') /\ \A d \in ToSet(ledger) : amount'[d] = amount[d]
  <2>1. ASSUME NEW s \in Sweepers, ingest(s)
        PROVE  ToSet(ledger) \subseteq ToSet(ledger') /\ \A d \in ToSet(ledger) : amount'[d] = amount[d]
    <3>1. PICK new \in SUBSET (Deposits \ ToSet(ledger)) :
             /\ \E q \in SetToSeqs(new) : ledger' = ledger \o q
             /\ \E f \in [new -> Amounts] :
                  amount' = [d \in Deposits |-> IF d \in new THEN f[d] ELSE amount[d]]
      BY <2>1 DEF ingest
    <3>2. ToSet(ledger) \subseteq ToSet(ledger')
      BY <3>1, IngestLedger
    <3>3. \A d \in ToSet(ledger) : d \in Deposits /\ d \notin new
      BY LedgerDeposits
    <3> QED
      BY <3>1, <3>2, <3>3
  <2> QED
    BY <2>1
<1>3. Claims /\ byStaff \subseteq byStaff' /\ \A d \in Deposits : creditedTo'[d] = creditedTo[d]
  BY DEF Claims, watches
<1> QED
  BY <1>1, <1>2, <1>3 DEF Shape

\* A watch is opened, or leaves WAITING, or only its deadline moves.
LEMMA WatchShape ==
  ASSUME TypeOK, UNCHANGED <<status, payer, ledger, amount, creditedTo, byStaff>>,
         NEW o \in Orders,
         \/ openWatch(o) \/ UNCHANGED <<watch, expected, claimKey>>
         \/ \E to \in {"EXPIRED", "CANCELLED"} : Release(o, to)
  PROVE  Shape
<1>1. \A p \in Orders : Same(p)
  BY DEF TypeOK, Same, openWatch, Release
<1>2. Claims
  BY DEF Claims, Release
<1>3. \A d \in Deposits : creditedTo'[d] = creditedTo[d]
  OBVIOUS
<1> QED
  BY <1>1, <1>2, <1>3 DEF Shape

LEMMA CreditShape ==
  ASSUME TypeOK, UNCHANGED <<ledger, amount>>, NEW d \in ToSet(ledger), NEW o \in Orders,
         NEW watched \in BOOLEAN, NEW staff \in BOOLEAN, credit(d, o, watched, staff),
         staff \/ (watched /\ watch[o] # "NONE" /\ expected[o] = amount[d])
  PROVE  Shape
<1>0. d \in Deposits /\ creditedTo \in [Deposits -> Orders \cup {NoOrder}]
      /\ watch \in [Orders -> {"NONE", "WAITING", "MATCHED", "EXPIRED", "CANCELLED"}]
      /\ status \in [Orders -> Statuses] /\ payer \in [Orders -> Deposits \cup {Elsewhere, Nobody}]
  BY LedgerDeposits DEF TypeOK
<1>1. CASE UNCHANGED <<status, payer, watches, creditedTo, byStaff>>
  BY <1>1, QuietShape
<1>2. CASE /\ creditedTo[d] = NoOrder
           /\ creditedTo' = [creditedTo EXCEPT ![d] = o]
           /\ byStaff' = IF staff THEN byStaff \cup {d} ELSE byStaff
           /\ UNCHANGED <<status, payer, watches>>
  <2>1. \A p \in Orders : Same(p)
    BY <1>2 DEF Same, watches
  <2>2. \A e \in Deposits : creditedTo'[e] = creditedTo[e] \/ (creditedTo[e] = NoOrder /\ e \in ToSet(ledger))
    BY <1>0, <1>2
  <2>3. Claims /\ byStaff \subseteq byStaff'
    BY <1>2 DEF Claims, watches
  <2> QED
    BY <2>1, <2>2, <2>3 DEF Shape
<1>3. CASE /\ creditedTo[d] = NoOrder
           /\ status[o] \in OpenStatuses
           /\ creditedTo' = [creditedTo EXCEPT ![d] = o]
           /\ byStaff' = IF staff THEN byStaff \cup {d} ELSE byStaff
           /\ Settle(d, o, watched)
  <2>1. \A p \in Orders \ {o} : Same(p)
    BY <1>0, <1>3 DEF Same, Settle, watches
  <2>2. /\ status'[o] = "PAID" /\ payer'[o] = d /\ creditedTo'[d] = o
        /\ watch'[o] \in {watch[o], "MATCHED"} /\ expected' = expected
        /\ watched => watch'[o] = "MATCHED"
    BY <1>0, <1>3 DEF Settle, watches
  <2>3. staff => d \in byStaff'
    BY <1>3
  <2>4. Paid(o, d)
    BY <1>3, <2>2, <2>3 DEF Paid
  <2>5. \A e \in Deposits : creditedTo'[e] = creditedTo[e] \/ (creditedTo[e] = NoOrder /\ e \in ToSet(ledger))
    BY <1>0, <1>3
  <2>6. Claims
    BY <1>3 DEF Settle, Claims, watches
  <2>7. byStaff \subseteq byStaff'
    BY <1>3
  <2>8. \A p \in Orders : Same(p) \/ Moved(p) \/ \E e \in ToSet(ledger) : Paid(p, e)
    BY <2>1, <2>4
  <2> QED
    BY <2>5, <2>6, <2>7, <2>8 DEF Shape
<1> QED
  BY <1>1, <1>2, <1>3 DEF credit

LEMMA NextShape ==
  ASSUME TypeOK, ActsSound, [Next]_vars
  PROVE  Shape
<1>1. ASSUME NEW o \in Orders,
             openWatch(o) \/ Elapse(o) \/ extendForOrder(o) \/ cancelForOrder(o)
      PROVE  Shape
  BY <1>1, WatchShape DEF openWatch, Elapse, extendForOrder, cancelForOrder, deposits
<1>2. ASSUME NEW o \in Orders, NEW to \in Targets, transition(o, to)
      PROVE  Shape
  <2>1. Moved(o)
    BY <1>2 DEF TypeOK, Moved, transition, watches
  <2>2. \A p \in Orders \ {o} : Same(p)
    BY <1>2 DEF TypeOK, Same, transition, watches
  <2>3. \A p \in Orders : Same(p) \/ Moved(p)
    BY <2>1, <2>2
  <2> QED
    BY <1>2, <2>3 DEF Shape, Claims, transition, watches, deposits
<1>3. ASSUME NEW s \in Sweepers, pollOnce(s)
      PROVE  Shape
  <2>1. CASE ingest(s)
    BY <2>1, QuietShape DEF ingest
  <2>2. CASE ListPending(s) \/ settleOne(s) \/ ListStale(s) \/ ListStranded(s) \/ alertStranded(s) \/ EndSweep(s)
    BY <2>2, QuietShape DEF ListPending, settleOne, ListStale, ListStranded, alertStranded, EndSweep, deposits
  <2>3. CASE expireStale(s)
    <3>1. PICK o \in act[s].stale : Release(o, "EXPIRED") \/ UNCHANGED watches
      BY <2>3 DEF expireStale
    <3>2. s \in Actors /\ act[s] \in Activities
      BY DEF Actors, TypeOK
    <3>3. o \in Orders
      BY <3>2 DEF Activities
    <3> QED
      BY <2>3, <3>1, <3>3, WatchShape DEF expireStale, deposits, watches
  <2>4. CASE CreditFound(s)
    <3>1. act[s].pc = "credit" /\ credit(act[s].deposit, act[s].order, TRUE, FALSE)
          /\ UNCHANGED <<ledger, amount>>
      BY <2>4 DEF CreditFound
    <3>2. /\ act[s].deposit \in ToSet(ledger) /\ act[s].order \in Orders
          /\ watch[act[s].order] # "NONE" /\ expected[act[s].order] = amount[act[s].deposit]
      BY <3>1 DEF ActsSound, Sound, Actors
    <3> QED
      BY <3>1, <3>2, CreditShape
  <2> QED
    BY <1>3, <2>1, <2>2, <2>3, <2>4 DEF pollOnce
<1>4. ASSUME NEW x \in Reviewers, CreditMatched(x)
      PROVE  Shape
  <2>1. act[x].pc = "match" /\ credit(act[x].deposit, act[x].order, act[x].watched, TRUE)
        /\ UNCHANGED <<ledger, amount>>
    BY <1>4 DEF CreditMatched
  <2>2. /\ act[x].deposit \in ToSet(ledger) /\ act[x].order \in Orders
        /\ act[x].watched \in BOOLEAN
    BY <2>1 DEF TypeOK, ActsSound, Sound, Actors, Activities
  <2> QED
    BY <2>1, <2>2, CreditShape
<1>5. ASSUME \/ \E d \in Deposits : Age(d)
             \/ \E x \in Reviewers, d \in Deposits, o \in Orders : matchManually(x, d, o)
             \/ \E x \in Mortal : Crash(x)
             \/ UNCHANGED vars
      PROVE  Shape
  BY <1>5, QuietShape DEF Age, matchManually, Crash, vars, deposits
<1> QED
  BY <1>1, <1>2, <1>3, <1>4, <1>5 DEF Next

-----------------------------------------------------------------------------
(* What stands by itself *)

LEMMA SoundKept ==
  ASSUME TypeOK, Shape, NEW r \in Activities, Sound(r)
  PROVE  Sound(r)'
<1>1. ToSet(ledger) \subseteq ToSet(ledger') /\ \A d \in ToSet(ledger) : amount'[d] = amount[d]
  BY DEF Shape
<1>2. \A o \in Orders : watch[o] # "NONE" => watch'[o] # "NONE" /\ expected'[o] = expected[o]
  BY DEF Shape, Same, Moved, Paid
<1> QED
  BY <1>1, <1>2 DEF Sound

\* Only an actor that sets out with something new has to be looked at.
LEMMA SoundFrom ==
  ASSUME TypeOK, ActsSound, Shape, NEW x \in Actors, NEW r \in Activities, Goto(x, r),
         Sound(r)'
  PROVE  ActsSound'
<1>1. ASSUME NEW y \in Actors
      PROVE  Sound(act[y])'
  <2>1. CASE y = x
    <3>1. act'[y] = r
      BY <2>1 DEF TypeOK, Goto
    <3> QED
      BY <3>1 DEF Sound
  <2>2. CASE y # x
    <3>1. act'[y] = act[y] /\ act[y] \in Activities /\ Sound(act[y])
      BY <2>2 DEF TypeOK, Goto, ActsSound
    <3>2. \A a \in Activities : Sound(a) => Sound(a)'
      BY SoundKept
    <3>3. \A a : a = act[y] => act'[y] = a
      BY <3>1
    <3> QED
      BY <3>1, <3>2 DEF Sound
  <2> QED
    BY <2>1, <2>2
<1> QED
  BY <1>1 DEF ActsSound

LEMMA NextSound ==
  ASSUME TypeOK, ActsSound, [Next]_vars
  PROVE  ActsSound'
<1>0. Shape /\ TypeOK' /\ ToSet(ledger) \subseteq Deposits
  BY NextShape, NextTyped, LedgerDeposits
<1>1. ASSUME UNCHANGED act
      PROVE  ActsSound'
  <2>1. ASSUME NEW y \in Actors
        PROVE  Sound(act[y])'
    <3>1. act'[y] = act[y] /\ act[y] \in Activities /\ Sound(act[y])
      BY <1>1, <2>1 DEF TypeOK, ActsSound
    <3>2. \A a \in Activities : Sound(a) => Sound(a)'
      BY <1>0, SoundKept
    <3> QED
      BY <3>1, <3>2 DEF Sound
  <2> QED
    BY <2>1 DEF ActsSound
<1>2. ASSUME NEW x \in Actors, NEW r \in Activities, Goto(x, r),
             r.pc \in {"idle", "list", "expire", "alert"}
      PROVE  ActsSound'
  <2>1. Sound(r)'
    BY <1>2 DEF Sound
  <2> QED
    BY <1>0, <1>2, <2>1, SoundFrom
<1>3. ASSUME NEW s \in Sweepers, pollOnce(s)
      PROVE  ActsSound'
  <2>0. s \in Actors /\ act[s] \in Activities /\ Sound(act[s])
    BY DEF Actors, TypeOK, ActsSound
  <2>1. CASE ingest(s)
    <3>1. [Idle EXCEPT !.pc = "list"] \in Activities /\ [Idle EXCEPT !.pc = "list"].pc = "list"
      BY DEF Idle, Activities
    <3> QED
      BY <1>2, <2>0, <2>1, <3>1 DEF ingest
  <2>2. CASE ListPending(s)
    <3> DEFINE todo == Oldest({d \in ToSet(ledger) : creditedTo[d] = NoOrder}, Batch)
               r == [Idle EXCEPT !.pc = "settle", !.todo = todo]
    <3>1. todo \subseteq ToSet(ledger)
      BY DEF Oldest
    <3>2. r \in Activities /\ r.pc = "settle" /\ r.todo = todo
      BY <1>0, <3>1 DEF Idle, Activities
    <3>3. Goto(s, r) /\ ledger' = ledger
      BY <2>2 DEF ListPending, deposits
    <3> HIDE DEF r, todo
    <3>4. \A a \in Activities : a = r => Sound(a)'
      BY <3>1, <3>2, <3>3 DEF Sound
    <3> QED
      BY <1>0, <2>0, <3>2, <3>3, <3>4, SoundFrom
  <2>3. CASE settleOne(s)
    <3>1. PICK d \in act[s].todo :
             \/ Goto(s, [act[s] EXCEPT !.todo = @ \ {d}])
             \/ \E o \in Orders :
                  /\ watch[o] = "WAITING" /\ expected[o] = amount[d]
                  /\ Goto(s, [act[s] EXCEPT !.pc = "credit", !.todo = @ \ {d},
                                            !.deposit = d, !.order = o])
      BY <2>3 DEF settleOne, Oldest
    <3>2. act[s].pc = "settle" /\ UNCHANGED <<ledger, watch, expected, amount>>
      BY <2>3 DEF settleOne, watches, deposits
    <3>3. d \in ToSet(ledger) /\ d \in Deposits /\ act[s].todo \subseteq ToSet(ledger)
      BY <1>0, <2>0, <3>2 DEF Sound
    <3>4. CASE Goto(s, [act[s] EXCEPT !.todo = @ \ {d}])
      <4> DEFINE r == [act[s] EXCEPT !.todo = @ \ {d}]
      <4>1. r \in Activities /\ r.pc = "settle" /\ r.todo \subseteq ToSet(ledger)
        BY <2>0, <3>2, <3>3 DEF Activities
      <4> HIDE DEF r
      <4>2. \A a \in Activities : a = r => Sound(a)'
        BY <3>2, <4>1 DEF Sound
      <4> QED
        BY <1>0, <2>0, <3>4, <4>1, <4>2, SoundFrom DEF r
    <3>5. ASSUME NEW o \in Orders, watch[o] = "WAITING", expected[o] = amount[d],
                 Goto(s, [act[s] EXCEPT !.pc = "credit", !.todo = @ \ {d},
                                        !.deposit = d, !.order = o])
          PROVE  ActsSound'
      <4> DEFINE r == [act[s] EXCEPT !.pc = "credit", !.todo = @ \ {d}, !.deposit = d, !.order = o]
      <4>1. /\ r \in Activities /\ r.pc = "credit" /\ r.todo \subseteq ToSet(ledger)
            /\ r.deposit = d /\ r.order = o
        BY <2>0, <3>3 DEF Activities
      <4> HIDE DEF r
      <4>2. \A a \in Activities : a = r => Sound(a)'
        BY <3>2, <3>3, <3>5, <4>1 DEF Sound
      <4> QED
        BY <1>0, <2>0, <3>5, <4>1, <4>2, SoundFrom DEF r
    <3> QED
      BY <3>1, <3>4, <3>5
  <2>4. CASE CreditFound(s)
    <3> DEFINE r == [act[s] EXCEPT !.pc = "settle", !.deposit = NoDeposit, !.order = NoOrder]
    <3>1. act[s].todo \subseteq ToSet(ledger) /\ Goto(s, r) /\ ledger' = ledger
      BY <2>0, <2>4 DEF CreditFound, Sound
    <3>2. r \in Activities /\ r.pc = "settle" /\ r.todo = act[s].todo
      BY <2>0 DEF Activities
    <3> HIDE DEF r
    <3>3. \A a \in Activities : a = r => Sound(a)'
      BY <3>1, <3>2 DEF Sound
    <3> QED
      BY <1>0, <2>0, <3>1, <3>2, <3>3, SoundFrom
  <2>5. CASE ListStale(s)
    <3> DEFINE r == [Idle EXCEPT !.pc = "expire",
                                 !.stale = {o \in Orders : watch[o] = "WAITING" /\ due[o]}]
    <3>1. r \in Activities /\ r.pc = "expire"
      BY DEF Idle, Activities
    <3> QED
      BY <1>2, <2>0, <2>5, <3>1 DEF ListStale
  <2>6. CASE expireStale(s)
    <3>1. PICK o \in act[s].stale : Goto(s, [act[s] EXCEPT !.stale = @ \ {o}])
      BY <2>6 DEF expireStale
    <3>2. [act[s] EXCEPT !.stale = @ \ {o}] \in Activities
          /\ [act[s] EXCEPT !.stale = @ \ {o}].pc = "expire"
      BY <2>0, <2>6 DEF Activities, expireStale
    <3> QED
      BY <1>2, <2>0, <3>1, <3>2
  <2>7. CASE ListStranded(s)
    <3> DEFINE todo == Oldest({d \in old \ alerted : creditedTo[d] = NoOrder}, AlertBatch)
               r == [Idle EXCEPT !.pc = "alert", !.todo = todo]
    <3>1. todo \subseteq Deposits
      BY DEF Oldest, TypeOK
    <3>2. r \in Activities /\ r.pc = "alert"
      BY <3>1 DEF Idle, Activities
    <3> QED
      BY <1>2, <2>0, <2>7, <3>2 DEF ListStranded
  <2>8. CASE alertStranded(s)
    <3>1. PICK d \in act[s].todo : Goto(s, [act[s] EXCEPT !.todo = @ \ {d}])
      BY <2>8 DEF alertStranded, Oldest
    <3>2. [act[s] EXCEPT !.todo = @ \ {d}] \in Activities
          /\ [act[s] EXCEPT !.todo = @ \ {d}].pc = "alert"
      BY <2>0, <2>8 DEF Activities, alertStranded
    <3> QED
      BY <1>2, <2>0, <3>1, <3>2
  <2>9. CASE EndSweep(s)
    <3>1. Idle \in Activities /\ Idle.pc = "idle"
      BY DEF Idle, Activities
    <3> QED
      BY <1>2, <2>0, <2>9, <3>1 DEF EndSweep
  <2> QED
    BY <1>3, <2>1, <2>2, <2>3, <2>4, <2>5, <2>6, <2>7, <2>8, <2>9 DEF pollOnce
<1>4. ASSUME NEW x \in Reviewers, NEW d \in Deposits, NEW o \in Orders, matchManually(x, d, o)
      PROVE  ActsSound'
  <2> DEFINE r == [Idle EXCEPT !.pc = "match", !.deposit = d, !.order = o, !.watched = watch[o] # "NONE"]
  <2>1. r \in Activities /\ r.pc = "match" /\ r.deposit = d /\ r.order = o
    BY DEF Idle, Activities
  <2>2. Goto(x, r) /\ d \in ToSet(ledger) /\ ledger' = ledger /\ x \in Actors
    BY <1>4 DEF matchManually, deposits, Actors
  <2> HIDE DEF r
  <2>3. \A a \in Activities : a = r => Sound(a)'
    BY <2>1, <2>2 DEF Sound
  <2> QED
    BY <1>0, <2>1, <2>2, <2>3, SoundFrom
<1>5. ASSUME NEW x \in Actors, Goto(x, Idle)
      PROVE  ActsSound'
  <2>1. Idle \in Activities /\ Idle.pc = "idle"
    BY DEF Idle, Activities
  <2> QED
    BY <1>2, <1>5, <2>1
<1>6. ASSUME NEW x \in Reviewers, CreditMatched(x)
      PROVE  ActsSound'
  BY <1>5, <1>6 DEF CreditMatched, Actors
<1>7. ASSUME NEW x \in Mortal, Crash(x)
      PROVE  ActsSound'
  BY <1>5, <1>7, ActorsAssumption DEF Crash, Actors
<1>8. ASSUME \/ \E o \in Orders : openWatch(o) \/ Elapse(o) \/ extendForOrder(o) \/ cancelForOrder(o)
             \/ \E o \in Orders, to \in Targets : transition(o, to)
             \/ \E d \in Deposits : Age(d)
             \/ UNCHANGED vars
      PROVE  ActsSound'
  BY <1>1, <1>8 DEF openWatch, Elapse, extendForOrder, cancelForOrder, transition, Age, vars
<1> QED
  BY <1>3, <1>4, <1>6, <1>7, <1>8 DEF Next

-----------------------------------------------------------------------------
(* The invariant *)

\* Only rows of the ledger are credited.
CreditsInLedger ==
  \A d \in Deposits : creditedTo[d] # NoOrder => d \in ToSet(ledger)

\* The matcher pays only watched orders, and so the amount an order was paid with
\* by itself can no longer be replaced by a new watch.
AutoIsWatched ==
  \A o \in Orders : payer[o] \in Deposits /\ payer[o] \notin byStaff => watch[o] # "NONE"

\* An order that can still be paid has not been.
OpenUnpaid == \A o \in Orders : status[o] \in OpenStatuses => payer[o] = Nobody

Inv ==
  /\ TypeOK /\ ActsSound /\ CreditsInLedger /\ AutoIsWatched /\ OpenUnpaid
  /\ OneDepositOneOrder /\ AmountsIdentify /\ AutoPaidExactly /\ MatchedMeansPaid

LEMMA InitInv == Init => Inv
<1> SUFFICES ASSUME Init PROVE Inv
  OBVIOUS
<1>1. TypeOK
  <2>1. Idle \in Activities
    BY DEF Idle, Activities
  <2>2. ledger \in Seq(Deposits) /\ IsInjective(ledger)
    BY DEF Init, IsInjective
  <2>3. extensions \in [Orders -> 0 .. MAX_EXTENSIONS]
    BY LimitsAssumption DEF Init
  <2> QED
    BY <2>1, <2>2, <2>3 DEF TypeOK, Init, Statuses
<1>2. ActsSound
  BY DEF ActsSound, Sound, Init, Idle
<1>3. CreditsInLedger /\ AutoIsWatched /\ OneDepositOneOrder /\ AutoPaidExactly /\ MatchedMeansPaid
  BY NothingAssumption
     DEF CreditsInLedger, AutoIsWatched, OneDepositOneOrder, AutoPaidExactly, MatchedMeansPaid, Init
<1>4. AmountsIdentify
  BY DEF AmountsIdentify, Init
<1>5. OpenUnpaid
  BY DEF OpenUnpaid, Init
<1> QED
  BY <1>1, <1>2, <1>3, <1>4, <1>5 DEF Inv

LEMMA PayersKept ==
  ASSUME TypeOK, TypeOK', Shape, CreditsInLedger, OneDepositOneOrder, MatchedMeansPaid,
         AutoIsWatched, AutoPaidExactly
  PROVE  /\ CreditsInLedger' /\ OneDepositOneOrder' /\ MatchedMeansPaid'
         /\ AutoIsWatched' /\ AutoPaidExactly'
<1>0. /\ ToSet(ledger) \subseteq ToSet(ledger') /\ ToSet(ledger) \subseteq Deposits
      /\ \A d \in ToSet(ledger) : amount'[d] = amount[d]
      /\ \A d \in Deposits : creditedTo'[d] = creditedTo[d]
                               \/ (creditedTo[d] = NoOrder /\ d \in ToSet(ledger))
      /\ byStaff \subseteq byStaff'
      /\ \A o \in Orders : Same(o) \/ Moved(o) \/ \E d \in ToSet(ledger) : Paid(o, d)
  BY LedgerDeposits DEF Shape
<1>1. CreditsInLedger'
  BY <1>0 DEF CreditsInLedger
<1>2. ASSUME NEW o \in Orders
      PROVE  /\ payer'[o] \in Deposits => creditedTo'[payer'[o]] = o
             /\ watch'[o] = "MATCHED" => payer'[o] \in Deposits /\ status'[o] = "PAID"
             /\ payer'[o] \in Deposits /\ payer'[o] \notin byStaff' =>
                  watch'[o] # "NONE" /\ amount'[payer'[o]] = expected'[o]
  <2>1. payer[o] \in Deposits => creditedTo[payer[o]] = o /\ o # NoOrder /\ payer[o] \in ToSet(ledger)
    BY NothingAssumption DEF OneDepositOneOrder, CreditsInLedger
  <2>2. payer[o] \in Deposits => creditedTo'[payer[o]] = o /\ amount'[payer[o]] = amount[payer[o]]
    BY <1>0, <2>1
  <2>3. payer[o] \in Deposits /\ payer[o] \notin byStaff' =>
          watch[o] # "NONE" /\ amount[payer[o]] = expected[o]
    BY <1>0 DEF AutoIsWatched, AutoPaidExactly
  <2>4. watch[o] = "MATCHED" => payer[o] \in Deposits /\ status[o] = "PAID"
    BY DEF MatchedMeansPaid
  <2>5. CASE Same(o)
    BY <2>2, <2>3, <2>4, <2>5 DEF Same
  <2>6. CASE Moved(o)
    <3>1. status[o] # "PAID"
      BY <2>6 DEF Moved, OpenStatuses
    <3> QED
      BY <2>2, <2>3, <2>4, <2>6, <3>1, NothingAssumption DEF Moved
  <2>7. ASSUME NEW d \in ToSet(ledger), Paid(o, d)
        PROVE  /\ payer'[o] = d /\ d \in Deposits /\ creditedTo'[d] = o /\ status'[o] = "PAID"
               /\ d \notin byStaff' => watch'[o] # "NONE" /\ amount'[d] = expected'[o]
    BY <1>0, <2>7 DEF Paid
  <2> QED
    BY <1>0, <2>5, <2>6, <2>7
<1>3. OneDepositOneOrder' /\ MatchedMeansPaid'
  BY <1>2 DEF OneDepositOneOrder, MatchedMeansPaid
<1>4. AutoIsWatched' /\ AutoPaidExactly'
  BY <1>2 DEF AutoIsWatched, AutoPaidExactly
<1> QED
  BY <1>1, <1>3, <1>4

LEMMA AmountsKept ==
  ASSUME TypeOK, Claims, AmountsIdentify
  PROVE  AmountsIdentify'
<1>1. CASE UNCHANGED <<watch, expected, claimKey>>
  BY <1>1 DEF AmountsIdentify
<1>2. ASSUME NEW o \in Orders, openWatch(o)
      PROVE  AmountsIdentify'
  <2>1. PICK a \in Amounts \ Range(claimKey) :
           expected' = [expected EXCEPT ![o] = a] /\ claimKey' = [claimKey EXCEPT ![o] = a]
    BY <1>2 DEF openWatch
  <2>2. watch' = [watch EXCEPT ![o] = "WAITING"]
    BY <1>2 DEF openWatch
  <2>3. \A p \in Orders : claimKey[p] # a
    BY <2>1 DEF Range, TypeOK
  <2>4. \A p \in Orders : watch[p] = "WAITING" => expected[p] # a
    BY <2>3 DEF AmountsIdentify
  <2> QED
    BY <2>1, <2>2, <2>4 DEF AmountsIdentify, TypeOK
<1>3. ASSUME NEW o \in Orders, NEW to \in {"MATCHED", "EXPIRED", "CANCELLED"},
             watch' = [watch EXCEPT ![o] = to],
             claimKey' = [claimKey EXCEPT ![o] = NoAmount], expected' = expected
      PROVE  AmountsIdentify'
  BY <1>3 DEF AmountsIdentify, TypeOK
<1> QED
  BY <1>1, <1>2, <1>3 DEF Claims

LEMMA NextInv == Inv /\ [Next]_vars => Inv'
<1> SUFFICES ASSUME Inv, [Next]_vars PROVE Inv'
  OBVIOUS
<1>1. Shape /\ TypeOK' /\ ActsSound'
  BY NextShape, NextTyped, NextSound DEF Inv
<1>2. AmountsIdentify'
  BY <1>1, AmountsKept DEF Inv, Shape
<1>3. OpenUnpaid'
  <2>1. \A o \in Orders : Same(o) \/ Moved(o) \/ \E d \in ToSet(ledger) : Paid(o, d)
    BY <1>1 DEF Shape
  <2> QED
    BY <2>1 DEF Inv, OpenUnpaid, Same, Moved, Paid, OpenStatuses
<1> QED
  BY <1>1, <1>2, <1>3, PayersKept DEF Inv

THEOREM Invariance == Spec => []Inv
BY InitInv, NextInv, PTL DEF Spec

-----------------------------------------------------------------------------
(* Theorems *)

\* Every variable stays in its range (the rows of CryptoDeposit stay distinct
\* however many sweeps insert them).
THEOREM TypeCorrect == Spec => []TypeOK
<1>1. Inv => TypeOK
  BY DEF Inv
<1> QED
  BY <1>1, Invariance, PTL

\* The deposit an order was paid with is credited to that order and no other: the
\* first claim of credit() is taken once, whoever races for it.
THEOREM OneDepositPaysOne == Spec => []OneDepositOneOrder
<1>1. Inv => OneDepositOneOrder
  BY DEF Inv
<1> QED
  BY <1>1, Invariance, PTL

\* No two waiting watches share an amount: openWatch draws around the unique claim
\* and every way out of WAITING gives it back.
THEOREM AmountsAreKeys == Spec => []AmountsIdentify
<1>1. Inv => AmountsIdentify
  BY DEF Inv
<1> QED
  BY <1>1, Invariance, PTL

\* What the matcher credits is the amount the order's watch asks for: the watch
\* found before credit() cannot change its amount before credit() claims it.
THEOREM MatcherIsExact == Spec => []AutoPaidExactly
<1>1. Inv => AutoPaidExactly
  BY DEF Inv
<1> QED
  BY <1>1, Invariance, PTL

\* A matched watch belongs to an order a deposit paid: credit() is rolled back when
\* the order has moved meanwhile.
THEOREM MatchedOrdersPaid == Spec => []MatchedMeansPaid
<1>1. Inv => MatchedMeansPaid
  BY DEF Inv
<1> QED
  BY <1>1, Invariance, PTL

\* A credited deposit keeps its order and a matched watch stays matched.
THEOREM SettlementIsFinal == Spec => SettledStays
<1>1. ASSUME Inv, [Next]_vars
      PROVE  /\ \A d \in Deposits : creditedTo[d] # NoOrder => creditedTo'[d] = creditedTo[d]
             /\ \A o \in Orders : watch[o] = "MATCHED" => watch'[o] = "MATCHED"
  <2>1. Shape
    BY <1>1, NextShape DEF Inv
  <2> QED
    BY <2>1 DEF Shape, Same, Moved, Paid
<1>2. Inv /\ [Next]_vars =>
        [/\ \A d \in Deposits : creditedTo[d] # NoOrder => creditedTo'[d] = creditedTo[d]
         /\ \A o \in Orders : watch[o] = "MATCHED" => watch'[o] = "MATCHED"]_vars
  BY <1>1
<1> QED
  BY <1>2, Invariance, PTL DEF Spec, SettledStays
-----------------------------------------------------------------------------
(* Where a credited deposit can end up *)

\* A deposit that is credited paid the order it names, or names an order that no longer
\* waits for one: a claim the early return of credit() leaves behind never hides money
\* from an order whose watch still waits.
Spent ==
  \A d \in Deposits, o \in Orders :
    creditedTo[d] = o => payer[o] = d \/ watch[o] \notin {"NONE", "WAITING"}

\* What a step can do to that: a watch that closed stays closed, a payer stays, and a
\* deposit is credited to an order it pays or whose watch has closed.
Spends ==
  /\ \A o \in Orders : watch[o] \notin {"NONE", "WAITING"} => watch'[o] \notin {"NONE", "WAITING"}
  /\ \A d \in Deposits, o \in Orders :
       creditedTo'[d] = o =>
         creditedTo[d] = o \/ payer'[o] = d \/ watch'[o] \notin {"NONE", "WAITING"}

LEMMA CreditSpends ==
  ASSUME TypeOK, NEW d \in Deposits, NEW o \in Orders, NEW watched \in BOOLEAN,
         NEW staff \in BOOLEAN, credit(d, o, watched, staff),
         ~staff => watch[o] # "NONE"
  PROVE  Spends
<1>0. /\ watch \in [Orders -> {"NONE", "WAITING", "MATCHED", "EXPIRED", "CANCELLED"}]
      /\ creditedTo \in [Deposits -> Orders \cup {NoOrder}]
      /\ payer \in [Orders -> Deposits \cup {Elsewhere, Nobody}]
  BY DEF TypeOK
<1>1. CASE UNCHANGED <<watches, creditedTo>>
  BY <1>1 DEF Spends, watches
<1>2. CASE /\ watched /\ ~Claimable(o, ~staff)
           /\ creditedTo' = [creditedTo EXCEPT ![d] = o] /\ UNCHANGED watches
  <2>1. watch[o] \notin {"NONE", "WAITING"}
    BY <1>0, <1>2 DEF Claimable
  <2> QED BY <1>0, <1>2, <2>1 DEF Spends, watches
<1>3. CASE creditedTo' = [creditedTo EXCEPT ![d] = o] /\ Settle(d, o, watched)
  <2>1. watch' = watch \/ watch' = [watch EXCEPT ![o] = "MATCHED"]
    BY <1>3 DEF Settle, watches
  <2>2. payer'[o] = d
    BY <1>0, <1>3 DEF Settle
  <2>3. \A e \in Deposits : creditedTo'[e] = IF e = d THEN o ELSE creditedTo[e]
    BY <1>0, <1>3
  <2> QED BY <1>0, <2>1, <2>2, <2>3 DEF Spends
<1> QED BY <1>1, <1>2, <1>3 DEF credit

LEMMA NextSpends ==
  ASSUME TypeOK, ActsSound, [Next]_vars
  PROVE  Spends
<1>0. watch \in [Orders -> {"NONE", "WAITING", "MATCHED", "EXPIRED", "CANCELLED"}]
  BY DEF TypeOK
<1>1. ASSUME UNCHANGED creditedTo,
             \/ UNCHANGED watch
             \/ \E o \in Orders : watch[o] \in {"NONE", "WAITING"} /\ \E to : watch' = [watch EXCEPT ![o] = to]
      PROVE  Spends
  BY <1>0, <1>1 DEF Spends
<1>2. ASSUME NEW o \in Orders,
             openWatch(o) \/ Elapse(o) \/ extendForOrder(o) \/ cancelForOrder(o)
      PROVE  Spends
  BY <1>1, <1>2 DEF openWatch, Elapse, extendForOrder, cancelForOrder, Release, deposits
<1>3. ASSUME NEW s \in Sweepers, pollOnce(s)
      PROVE  Spends
  <2>0. s \in Actors /\ act[s] \in Activities /\ Sound(act[s]) /\ ToSet(ledger) \subseteq Deposits
    BY LedgerDeposits DEF TypeOK, ActsSound, Actors
  <2>1. CASE CreditFound(s)
    <3>1. act[s].deposit \in Deposits /\ act[s].order \in Orders /\ watch[act[s].order] # "NONE"
      BY <2>0, <2>1 DEF CreditFound, Sound
    <3> QED BY <2>1, <3>1, CreditSpends DEF CreditFound
  <2>2. CASE expireStale(s)
    <3>1. PICK o \in act[s].stale : Release(o, "EXPIRED") \/ UNCHANGED watches
      BY <2>2 DEF expireStale
    <3>2. o \in Orders
      BY <2>0 DEF Activities
    <3> QED BY <1>1, <2>2, <3>1, <3>2 DEF expireStale, Release, deposits, watches
  <2>3. CASE ~CreditFound(s) /\ ~expireStale(s)
    BY <1>1, <1>3, <2>3 DEF pollOnce, ingest, ListPending, settleOne, ListStale, ListStranded,
                            alertStranded, EndSweep, watches, deposits
  <2> QED BY <2>1, <2>2, <2>3
<1>4. ASSUME NEW x \in Reviewers, CreditMatched(x)
      PROVE  Spends
  <2>1. /\ act[x].deposit \in Deposits /\ act[x].order \in Orders /\ act[x].watched \in BOOLEAN
    BY <1>4, LedgerDeposits DEF CreditMatched, TypeOK, ActsSound, Sound, Actors, Activities
  <2> QED BY <1>4, <2>1, CreditSpends DEF CreditMatched
<1>5. ASSUME \/ \E o \in Orders, to \in Targets : transition(o, to)
             \/ \E d \in Deposits : Age(d)
             \/ \E x \in Reviewers, d \in Deposits, o \in Orders : matchManually(x, d, o)
             \/ \E x \in Mortal : Crash(x)
             \/ UNCHANGED vars
      PROVE  Spends
  BY <1>1, <1>5 DEF transition, Age, matchManually, Crash, vars, watches, deposits
<1> QED BY <1>2, <1>3, <1>4, <1>5 DEF Next

\* A credited deposit is the payer of its order, or its order's watch has closed.
THEOREM CreditsAreSpent == Spec => []Spent
<1>1. Init => Spent
  BY NothingAssumption DEF Init, Spent
<1>2. Inv /\ Spent /\ [Next]_vars => Spent'
  <2> SUFFICES ASSUME Inv, Spent, [Next]_vars, NEW d \in Deposits, NEW o \in Orders,
                      creditedTo'[d] = o
               PROVE  payer'[o] = d \/ watch'[o] \notin {"NONE", "WAITING"}
    BY DEF Spent
  <2>1. Spends /\ Shape
    BY NextSpends, NextShape DEF Inv
  <2>2. CASE creditedTo[d] = o /\ payer[o] = d
    <3>1. Same(o) \/ Moved(o) \/ \E e \in Deposits : Paid(o, e)
      BY <2>1, LedgerDeposits DEF Shape, Inv
    <3>2. status[o] \notin OpenStatuses
      BY <2>2, NothingAssumption DEF Inv, OpenUnpaid
    <3> QED BY <2>2, <3>1, <3>2 DEF Same, Moved, Paid
  <2>3. CASE creditedTo[d] = o /\ payer[o] # d
    BY <2>1, <2>3 DEF Spent, Spends
  <2>4. CASE creditedTo[d] # o
    BY <2>1, <2>4 DEF Spends
  <2> QED BY <2>2, <2>3, <2>4
<1> QED BY <1>1, <1>2, Invariance, PTL DEF Spec

-----------------------------------------------------------------------------
(* Sweeps, reviewers and everyone else keep the promise of OrderContract *)

PhaseOf(s) ==
  IF s \in OpenStatuses THEN "open" ELSE IF s = "CANCELLED" THEN "closed" ELSE "paid"

\* The orders exist from the start, so it is the steps that are compared.
Contract ==
  INSTANCE OrderContract WITH phase <- [o \in Orders |-> PhaseOf(status[o])],
                              Payers <- Deposits \cup {Elsewhere}

KeepsContract == [][Contract!Next]_(Contract!vars)

LEMMA Settles ==
  ASSUME TypeOK, OpenUnpaid, NEW o \in Orders, status[o] \in OpenStatuses,
         NEW p \in Deposits \cup {Elsewhere},
         status' = [status EXCEPT ![o] = "PAID"], payer' = [payer EXCEPT ![o] = p]
  PROVE  Contract!Next
<1>0. status \in [Orders -> Statuses] /\ payer[o] = Nobody
  BY DEF TypeOK, OpenUnpaid
<1>1. PhaseOf(status[o]) = "open" /\ PhaseOf("PAID") = "paid"
  BY DEF PhaseOf, OpenStatuses
<1>2. [q \in Orders |-> PhaseOf(status'[q])] = [[q \in Orders |-> PhaseOf(status[q])] EXCEPT ![o] = "paid"]
  BY <1>0, <1>1
<1>3. Contract!Pay(o, p)
  BY <1>0, <1>1, <1>2 DEF Contract!Pay
<1> QED BY <1>3 DEF Contract!Next

LEMMA CreditSettles ==
  ASSUME TypeOK, OpenUnpaid, NEW d \in Deposits, NEW o \in Orders, NEW watched, NEW staff,
         credit(d, o, watched, staff)
  PROVE  Contract!Next \/ UNCHANGED <<status, payer>>
<1>1. CASE status[o] \in OpenStatuses /\ Settle(d, o, watched)
  BY <1>1, Settles DEF Settle
<1>2. CASE UNCHANGED <<status, payer>>
  BY <1>2
<1> QED BY <1>1, <1>2 DEF credit

LEMMA TransitionKeeps ==
  ASSUME TypeOK, OpenUnpaid, NEW o \in Orders, NEW to \in Targets, transition(o, to)
  PROVE  [Contract!Next]_(Contract!vars)
<1>0. status \in [Orders -> Statuses] /\ status[o] \in OpenStatuses
  BY DEF TypeOK, transition
<1>1. PhaseOf(status[o]) = "open"
  BY <1>0 DEF PhaseOf
<1>2. status' = [status EXCEPT ![o] = to] /\ payer' = [payer EXCEPT ![o] = IF to = "PAID" THEN Elsewhere ELSE @]
  BY DEF transition
<1>3. CASE to = "PAID"
  BY <1>0, <1>2, <1>3, Settles
<1>4. CASE to = "CANCELLED"
  <2>1. PhaseOf(to) = "closed" /\ UNCHANGED payer
    BY <1>2, <1>4 DEF PhaseOf, OpenStatuses, TypeOK
  <2>2. [q \in Orders |-> PhaseOf(status'[q])] = [[q \in Orders |-> PhaseOf(status[q])] EXCEPT ![o] = "closed"]
    BY <1>0, <1>2, <2>1
  <2>3. Contract!Close(o)
    BY <1>1, <2>1, <2>2 DEF Contract!Close
  <2> QED BY <2>3 DEF Contract!Next
<1>5. CASE to \in OpenStatuses
  <2>1. PhaseOf(to) = "open" /\ UNCHANGED payer
    BY <1>2, <1>5 DEF PhaseOf, OpenStatuses, TypeOK
  <2>2. [q \in Orders |-> PhaseOf(status'[q])] = [q \in Orders |-> PhaseOf(status[q])]
    BY <1>0, <1>1, <1>2, <2>1
  <2> QED BY <2>1, <2>2 DEF Contract!vars
<1> QED BY <1>3, <1>4, <1>5, TargetsAssumption

LEMMA StepKeeps ==
  ASSUME TypeOK, ActsSound, OpenUnpaid, [Next]_vars
  PROVE  [Contract!Next]_(Contract!vars)
<1>1. ASSUME UNCHANGED <<status, payer>> PROVE [Contract!Next]_(Contract!vars)
  BY <1>1 DEF Contract!vars
<1>2. ASSUME NEW o \in Orders,
             openWatch(o) \/ Elapse(o) \/ extendForOrder(o) \/ cancelForOrder(o)
      PROVE  UNCHANGED <<status, payer>>
  BY <1>2 DEF openWatch, Elapse, extendForOrder, cancelForOrder
<1>3. ASSUME NEW s \in Sweepers, pollOnce(s) PROVE Contract!Next \/ UNCHANGED <<status, payer>>
  <2>1. CASE CreditFound(s)
    <3>1. act[s].deposit \in Deposits /\ act[s].order \in Orders
      BY <2>1, LedgerDeposits DEF CreditFound, ActsSound, Sound, Actors
    <3> QED BY <2>1, <3>1, CreditSettles DEF CreditFound
  <2>2. CASE ~CreditFound(s)
    BY <1>3, <2>2 DEF pollOnce, ingest, ListPending, settleOne, ListStale, expireStale,
                      ListStranded, alertStranded, EndSweep
  <2> QED BY <2>1, <2>2
<1>4. ASSUME NEW x \in Reviewers, CreditMatched(x) PROVE Contract!Next \/ UNCHANGED <<status, payer>>
  <2>1. act[x].deposit \in Deposits /\ act[x].order \in Orders
    BY <1>4, LedgerDeposits DEF CreditMatched, ActsSound, Sound, Actors
  <2> QED BY <1>4, <2>1, CreditSettles DEF CreditMatched
<1>5. ASSUME \/ \E d \in Deposits : Age(d)
             \/ \E x \in Reviewers, d \in Deposits, o \in Orders : matchManually(x, d, o)
             \/ \E x \in Mortal : Crash(x)
             \/ UNCHANGED vars
      PROVE  UNCHANGED <<status, payer>>
  BY <1>5 DEF Age, matchManually, Crash, vars
<1> QED BY <1>1, <1>2, <1>3, <1>4, <1>5, TransitionKeeps DEF Next

\* Whatever sweeps, reviewers, customers and other payments overlap, each step is one
\* the contract of an order allows: paid once, by one payer, and never unpaid again.
THEOREM SweepsKeepContract == Spec => KeepsContract
<1>1. Inv /\ [Next]_vars => [Contract!Next]_(Contract!vars)
  BY StepKeeps DEF Inv
<1> QED BY <1>1, Invariance, PTL DEF Spec, KeepsContract
=============================================================================
