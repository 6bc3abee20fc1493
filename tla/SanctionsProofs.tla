--------------------------- MODULE SanctionsProofs ---------------------------
(***************************************************************************)
(* What Sanctions keeps true of every customer, whatever the ladder is.    *)
(***************************************************************************)
EXTENDS Sanctions, FiniteSetTheorems, TLAPS

States ==
  [at : Steps, customer : Customers \cup {NoCustomer}, since : Nat,
   n : Nat, until : Nat, appeal : Appeals \cup {NoAppeal}]

\* Rows of a customer, as far as the m-th, that the ladder counts from a time on.
Counted(s, since, m) == {i \in 1 .. m : s[i].ladder /\ s[i].at >= since}

\* A thread between its count and its commit has the customer's lock, and its number
\* exceeds how many strikes the window holds: nobody else can add to that.
Holds(t) ==
  LET c == thread[t].customer IN
  /\ c \in Customers /\ strikeLock[c] = t
  /\ thread[t].n > Cardinality(Counted(strikes[c], thread[t].since, Len(strikes[c])))
LockHeld == \A t \in Threads : thread[t].at \in {"read", "write"} => Holds(t)

\* Whoever does something to a customer has one.
HasCustomer == \A t \in Threads : thread[t].at # "idle" => thread[t].customer \in Customers

\* An appeal is somebody's.
AppealsOwned == \A a \in Appeals : appealStatus[a] # "NONE" => appealOf[a] \in Customers

TypeInv == TypeOK /\ HasCustomer /\ LockHeld

LEMMA CountedFinite ==
  ASSUME NEW s, NEW since, NEW m \in Nat
  PROVE  IsFiniteSet(Counted(s, since, m)) /\ Cardinality(Counted(s, since, m)) \in Nat
<1>1. IsFiniteSet(1 .. m) /\ Counted(s, since, m) \subseteq 1 .. m
  BY FS_Interval DEF Counted
<1> QED BY <1>1, FS_Subset, FS_CardinalityType

\* What a row more changes: only a row of the ladder counts.
LEMMA CountedAppend ==
  ASSUME NEW s \in Seq(Rows), NEW row \in Rows, NEW since, NEW m \in Nat, m <= Len(s)
  PROVE  /\ Counted(Append(s, row), since, m) = Counted(s, since, m)
         /\ Append(s, row)[Len(s) + 1] = row
         /\ Len(Append(s, row)) = Len(s) + 1
         /\ ~row.ladder => Counted(Append(s, row), since, Len(s) + 1) = Counted(s, since, Len(s))
<1>1. /\ Len(Append(s, row)) = Len(s) + 1 /\ Append(s, row)[Len(s) + 1] = row
      /\ \A i \in 1 .. Len(s) : Append(s, row)[i] = s[i]
      /\ Len(s) \in Nat
  OBVIOUS
<1>2. Counted(Append(s, row), since, m) = Counted(s, since, m)
  BY <1>1 DEF Counted
<1>3. ASSUME ~row.ladder
      PROVE  Counted(Append(s, row), since, Len(s) + 1) = Counted(s, since, Len(s))
  <2>1. \A i \in 1 .. Len(s) + 1 : i \in 1 .. Len(s) \/ i = Len(s) + 1
    BY <1>1
  <2> QED BY <1>1, <1>3, <2>1 DEF Counted
<1> QED BY <1>1, <1>2, <1>3

LEMMA RecentCounts ==
  ASSUME TypeOK, NEW c \in Customers, NEW since \in Nat
  PROVE  /\ Recent(c, since) \in Nat
         /\ Recent(c, since) >= Cardinality(Counted(strikes[c], since, Len(strikes[c])))
<1> DEFINE R == {k \in 1 .. Len(strikes[c]) : strikes[c][k].at >= since}
<1>1. Len(strikes[c]) \in Nat
  BY DEF TypeOK
<1>2. IsFiniteSet(R)
  <2>1. IsFiniteSet(1 .. Len(strikes[c])) /\ R \subseteq 1 .. Len(strikes[c])
    BY <1>1, FS_Interval
  <2> QED BY <2>1, FS_Subset
<1>3. Counted(strikes[c], since, Len(strikes[c])) \subseteq R
  BY DEF Counted
<1>4. Cardinality(Counted(strikes[c], since, Len(strikes[c]))) <= Cardinality(R)
  BY <1>2, <1>3, FS_Subset
<1> QED BY <1>2, <1>4, FS_CardinalityType DEF Recent

LEMMA InitType == Init => TypeInv
<1> SUFFICES ASSUME Init PROVE TypeInv
  OBVIOUS
<1>1. <<>> \in Seq(Rows)
  OBVIOUS
<1>2. TypeOK
  BY <1>1 DEF Init, TypeOK, IdleThread, Steps
<1> QED BY <1>2 DEF Init, TypeInv, HasCustomer, LockHeld, IdleThread

Idle(t) == thread[t].at = "idle"

\* Threads one by one: a step of t leaves the others where they are.
Only(t) == \A s \in Threads \ {t} : thread'[s] = thread[s]

\* What every step but those of the ladder keeps: rows, locks, and the counts made.
LEMMA LadderUntouched ==
  ASSUME TypeInv, UNCHANGED <<strikes, strikeLock>>, NEW t \in Threads, Only(t),
         thread'[t].at \notin {"read", "write"} \/ UNCHANGED thread,
         ~Idle(t)' => thread'[t].customer \in Customers
  PROVE  HasCustomer' /\ LockHeld'
BY DEF TypeInv, HasCustomer, LockHeld, Holds, Only, Idle

LEMMA StepTyped ==
  ASSUME TypeOK, NEW t \in Threads, NEW s \in States, thread' = [thread EXCEPT ![t] = s]
  PROVE  thread' \in [Threads -> States] /\ thread'[t] = s /\ Only(t)
BY DEF TypeOK, States, Only

LEMMA GoTyped ==
  ASSUME TypeOK, NEW t \in Threads, NEW step \in Steps, Go(t, step)
  PROVE  /\ thread' \in [Threads -> States] /\ Only(t) /\ thread'[t].at = step
         /\ thread'[t].customer = thread[t].customer /\ thread'[t].appeal = thread[t].appeal
<1> DEFINE s == [thread[t] EXCEPT !.at = step]
<1>1. /\ thread \in [Threads -> States] /\ s \in States /\ s.at = step
      /\ s.customer = thread[t].customer /\ s.appeal = thread[t].appeal
  BY DEF TypeOK, States
<1>2. thread' = [thread EXCEPT ![t] = s]
  BY <1>1 DEF Go
<1> HIDE DEF s
<1> QED BY <1>1, <1>2, StepTyped

LEMMA FinishTyped ==
  ASSUME TypeOK, NEW t \in Threads, Finish(t)
  PROVE  /\ thread' \in [Threads -> States] /\ Only(t)
         /\ thread'[t].at = "idle" /\ thread'[t].appeal = NoAppeal
<1>1. IdleThread \in States /\ IdleThread.at = "idle" /\ IdleThread.appeal = NoAppeal
  BY DEF IdleThread, States, Steps
<1> QED BY <1>1, StepTyped DEF Finish

LEMMA StartTyped ==
  ASSUME TypeOK, NEW t \in Threads, NEW step \in Steps, NEW c \in Customers, Start(t, step, c)
  PROVE  /\ thread' \in [Threads -> States] /\ Only(t)
         /\ thread'[t].at = step /\ thread'[t].customer = c /\ thread'[t].appeal = NoAppeal
<1> DEFINE s == [IdleThread EXCEPT !.at = step, !.customer = c]
<1>1. s \in States /\ s.at = step /\ s.customer = c /\ s.appeal = NoAppeal
  BY DEF IdleThread, States
<1>2. thread' = [thread EXCEPT ![t] = s]
  BY DEF Start
<1> HIDE DEF s
<1> QED BY <1>1, <1>2, StepTyped

\* The steps of recordStrike, which take the lock, count, and add the row.
LEMMA StrikeType ==
  ASSUME TypeInv, NEW t \in Threads, Strike(t)
  PROVE  TypeInv'
<1> DEFINE c == thread[t].customer
<1>0. /\ thread \in [Threads -> States] /\ thread[t] \in States /\ TypeOK /\ now \in Nat
      /\ strikeLock \in [Customers -> Threads \cup {NoThread}] /\ NoThread \notin Threads
      /\ strikes \in [Customers -> Seq(Rows)] /\ suspendedUntil \in [Customers -> Nat]
  BY NothingAssumption DEF TypeInv, TypeOK, States
<1>1. CASE CountStrikes(t)
  <2>1. c \in Customers /\ thread[t].since \in Nat
    BY <1>0, <1>1 DEF CountStrikes, TypeInv, HasCustomer, States
  <2>2. PICK n \in Nat : n = Recent(c, thread[t].since) + 1
    BY <1>0, <2>1, RecentCounts
  <2>3. n > Cardinality(Counted(strikes[c], thread[t].since, Len(strikes[c])))
    <3>1. Recent(c, thread[t].since) >= Cardinality(Counted(strikes[c], thread[t].since, Len(strikes[c])))
          /\ Recent(c, thread[t].since) \in Nat
      BY <1>0, <2>1, RecentCounts
    <3>2. Cardinality(Counted(strikes[c], thread[t].since, Len(strikes[c]))) \in Nat
      BY <1>0, <2>1, CountedFinite
    <3> QED BY <2>2, <3>1, <3>2
  <2> DEFINE s == [thread[t] EXCEPT !.at = "read", !.n = n]
  <2>4. /\ s \in States /\ s.at = "read" /\ s.n = n /\ s.customer = c /\ s.since = thread[t].since
    BY <1>0 DEF States, Steps
  <2>5. thread' = [thread EXCEPT ![t] = s]
    BY <1>0, <1>1, <2>2 DEF CountStrikes
  <2> HIDE DEF s
  <2>6. thread' \in [Threads -> States] /\ thread'[t] = s /\ Only(t)
    BY <1>0, <2>4, <2>5, StepTyped
  <2>7. strikeLock' = [strikeLock EXCEPT ![c] = t] /\ strikeLock[c] = NoThread
        /\ UNCHANGED <<now, sanctions, appeals>>
    BY <1>1 DEF CountStrikes
  <2>8. TypeOK'
    BY <1>0, <2>6, <2>7 DEF TypeOK, States, sanctions, appeals
  <2>9. HasCustomer'
    BY <2>1, <2>4, <2>6 DEF TypeInv, HasCustomer, Only
  <2>10. ASSUME NEW u \in Threads, thread'[u].at \in {"read", "write"} PROVE Holds(u)'
    <3>1. CASE u = t
      BY <1>0, <2>1, <2>3, <2>4, <2>6, <2>7, <3>1 DEF Holds, sanctions
    <3>2. CASE u # t
      <4>1. thread'[u] = thread[u] /\ Holds(u)
        BY <2>6, <2>10, <3>2 DEF TypeInv, LockHeld, Only
      <4>2. thread[u].customer # c
        BY <1>0, <2>7, <4>1 DEF Holds
      <4> QED BY <1>0, <2>7, <4>1, <4>2 DEF Holds, sanctions
    <3> QED BY <3>1, <3>2
  <2> QED BY <2>8, <2>9, <2>10 DEF TypeInv, LockHeld
<1>2. CASE ReadSuspension(t)
  <2>1. c \in Customers /\ Holds(t) /\ thread[t].n \in Nat /\ thread[t].n > 0
    <3>1. thread[t].at = "read"
      BY <1>2 DEF ReadSuspension
    <3>2. c \in Customers /\ Holds(t)
      BY <3>1 DEF TypeInv, HasCustomer, LockHeld
    <3>3. thread[t].n \in Nat /\ Len(strikes[c]) \in Nat
      BY <1>0, <3>2 DEF States
    <3> QED BY <3>2, <3>3, CountedFinite DEF Holds
  <2>2. thread[t].n < banAfterStrikes =>
          Larger(suspendedUntil[c], now + Sentence(thread[t].n)) \in Nat
    <3>1. thread[t].n < banAfterStrikes => Sentence(thread[t].n) \in Nat
      BY <2>1, SentencesAssumption, LadderAssumption
    <3> QED BY <1>0, <2>1, <3>1 DEF Larger
  <2>3. PICK until \in Nat : thread' = [thread EXCEPT ![t].at = "write", ![t].until = until]
    <3>1. thread[t].n >= banAfterStrikes \/ thread[t].n < banAfterStrikes
      BY <2>1, LadderAssumption
    <3> QED BY <1>2, <2>1, <2>2, <3>1, LadderAssumption DEF ReadSuspension
  <2> DEFINE s == [thread[t] EXCEPT !.at = "write", !.until = until]
  <2>4. /\ s \in States /\ s.at = "write" /\ s.n = thread[t].n /\ s.customer = c
        /\ s.since = thread[t].since
    BY <1>0 DEF States, Steps
  <2>5. thread' = [thread EXCEPT ![t] = s]
    BY <1>0, <2>3
  <2> HIDE DEF s
  <2>6. thread' \in [Threads -> States] /\ thread'[t] = s /\ Only(t)
    BY <1>0, <2>4, <2>5, StepTyped
  <2>7. UNCHANGED <<now, sanctions, strikeLock, appeals>>
    BY <1>2 DEF ReadSuspension
  <2>8. TypeOK'
    BY <1>0, <2>6, <2>7 DEF TypeOK, States, sanctions, appeals
  <2>9. HasCustomer'
    BY <2>1, <2>4, <2>6 DEF TypeInv, HasCustomer, Only
  <2>10. LockHeld'
    BY <2>1, <2>4, <2>6, <2>7 DEF TypeInv, LockHeld, Holds, Only, sanctions
  <2> QED BY <2>8, <2>9, <2>10 DEF TypeInv
<1>3. CASE CommitStrike(t)
  <2> DEFINE row == [at |-> now, ladder |-> TRUE, since |-> thread[t].since, n |-> thread[t].n,
                     action |-> IF thread[t].n >= banAfterStrikes THEN "BAN" ELSE "SUSPEND"]
  <2>1. /\ c \in Customers /\ Holds(t) /\ thread[t].until \in Nat /\ row \in Rows
    BY <1>0, <1>3 DEF CommitStrike, TypeInv, HasCustomer, LockHeld, Rows, States
  <2>2. /\ strikes' = [strikes EXCEPT ![c] = Append(@, row)]
        /\ strikeLock' = [strikeLock EXCEPT ![c] = NoThread]
        /\ Go(t, "ban") \/ Finish(t)
        /\ UNCHANGED <<now, banned, appeals>>
    BY <1>3 DEF CommitStrike
  <2> HIDE DEF row
  <2>3. Append(strikes[c], row) \in Seq(Rows)
    BY <1>0, <2>1
  <2>4. strikes' \in [Customers -> Seq(Rows)]
    BY <1>0, <2>1, <2>2, <2>3
  <2>5. suspendedUntil' \in [Customers -> Nat]
    BY <1>0, <1>3, <2>1 DEF CommitStrike
  <2>6. /\ thread' \in [Threads -> States] /\ Only(t) /\ thread'[t].at \in {"ban", "idle"}
        /\ thread'[t].at = "ban" => thread'[t].customer = c
    <3>1. "ban" \in Steps
      BY DEF Steps
    <3> QED BY <1>0, <2>2, <3>1, GoTyped, FinishTyped
  <2>7. TypeOK'
    BY <1>0, <2>1, <2>2, <2>4, <2>5, <2>6 DEF TypeOK, States, appeals
  <2>8. HasCustomer'
    BY <2>1, <2>6 DEF TypeInv, HasCustomer, Only
  <2>9. ASSUME NEW u \in Threads, thread'[u].at \in {"read", "write"} PROVE Holds(u)'
    <3>1. u # t
      BY <2>6, <2>9
    <3>2. thread'[u] = thread[u] /\ Holds(u)
      BY <2>6, <2>9, <3>1 DEF TypeInv, LockHeld, Only
    <3>3. thread[u].customer # c
      BY <2>1, <3>1, <3>2 DEF Holds
    <3> QED BY <1>0, <2>2, <3>2, <3>3 DEF Holds
  <2> QED BY <2>7, <2>8, <2>9 DEF TypeInv, LockHeld
<1>4. CASE BanForStrikes(t)
  <2>1. c \in Customers
    BY <1>4 DEF BanForStrikes, TypeInv, HasCustomer
  <2>2. thread' \in [Threads -> States] /\ Only(t) /\ thread'[t].at = "idle"
    BY <1>0, <1>4, FinishTyped DEF BanForStrikes
  <2>3. TypeOK'
    BY <1>0, <1>4, <2>1, <2>2 DEF BanForStrikes, Ban, TypeOK, States, appeals
  <2> QED BY <1>4, <2>2, <2>3, LadderUntouched DEF BanForStrikes, Ban, Idle, TypeInv
<1> QED
  BY <1>1, <1>2, <1>3, <1>4 DEF Strike

\* Rows that come or go without the lock may be any, as long as the ladder does not
\* count more of them.
LEMMA FewerKeepsLock ==
  ASSUME TypeInv, NEW c \in Customers, NEW rows \in Seq(Rows),
         strikes' = [strikes EXCEPT ![c] = rows], UNCHANGED strikeLock,
         \A since \in Nat : Cardinality(Counted(rows, since, Len(rows)))
                              <= Cardinality(Counted(strikes[c], since, Len(strikes[c]))),
         \A u \in Threads : thread'[u] = thread[u] \/ thread'[u].at \notin {"read", "write"}
  PROVE  LockHeld'
<1>0. /\ thread \in [Threads -> States] /\ strikes \in [Customers -> Seq(Rows)]
  BY DEF TypeInv, TypeOK, States
<1>1. ASSUME NEW u \in Threads, thread'[u].at \in {"read", "write"} PROVE Holds(u)'
  <2>1. thread'[u] = thread[u] /\ Holds(u) /\ thread[u].since \in Nat /\ thread[u].n \in Nat
    BY <1>0, <1>1 DEF TypeInv, LockHeld, States
  <2> DEFINE d == thread[u].customer
             old == Cardinality(Counted(strikes[d], thread[u].since, Len(strikes[d])))
             new == Cardinality(Counted(strikes'[d], thread[u].since, Len(strikes'[d])))
  <2>2. d \in Customers /\ thread[u].n > old
    BY <2>1 DEF Holds
  <2>3. new <= old \/ new = old
    BY <1>0, <2>1, <2>2
  <2>4. Len(strikes[d]) \in Nat /\ Len(strikes'[d]) \in Nat
    BY <1>0, <2>2
  <2>5. old \in Nat /\ new \in Nat
    BY <2>4, CountedFinite
  <2>6. thread[u].n > new
    BY <2>1, <2>2, <2>3, <2>5
  <2> HIDE DEF old
  <2> QED BY <2>1, <2>6 DEF Holds
<1> QED BY <1>1 DEF LockHeld

LEMMA LiftKeepsLock ==
  ASSUME TypeInv, NEW c \in Customers, Lift(c), UNCHANGED strikeLock,
         \A u \in Threads : thread'[u] = thread[u] \/ thread'[u].at \notin {"read", "write"}
  PROVE  LockHeld' /\ strikes' \in [Customers -> Seq(Rows)]
                   /\ suspendedUntil' \in [Customers -> Nat]
<1>0. strikes \in [Customers -> Seq(Rows)] /\ suspendedUntil \in [Customers -> Nat]
  BY DEF TypeInv, TypeOK
<1>1. <<>> \in Seq(Rows) /\ Len(<<>>) = 0
  OBVIOUS
<1>2. ASSUME NEW since \in Nat
      PROVE  Cardinality(Counted(<<>>, since, Len(<<>>)))
               <= Cardinality(Counted(strikes[c], since, Len(strikes[c])))
  <2>1. Counted(<<>>, since, Len(<<>>)) = {}
    BY <1>1 DEF Counted
  <2>2. Cardinality(Counted(strikes[c], since, Len(strikes[c]))) \in Nat
    BY <1>0, CountedFinite
  <2>3. Cardinality(Counted(<<>>, since, Len(<<>>))) = 0
    BY <2>1, FS_EmptySet
  <2> QED BY <2>2, <2>3
<1>3. strikes' = [strikes EXCEPT ![c] = <<>>]
  BY DEF Lift
<1>4. LockHeld'
  BY <1>1, <1>2, <1>3, FewerKeepsLock
<1> QED BY <1>0, <1>1, <1>3, <1>4 DEF Lift

LEMMA SuspendType ==
  ASSUME TypeInv, NEW c \in Customers, NEW hours \in StaffHours, suspend(c, hours)
  PROVE  TypeInv'
<1> DEFINE row == [at |-> now, ladder |-> FALSE, since |-> 0, n |-> 0, action |-> "SUSPEND"]
<1>0. /\ strikes \in [Customers -> Seq(Rows)] /\ row \in Rows /\ ~row.ladder
      /\ suspendedUntil \in [Customers -> Nat] /\ now + hours \in Nat
      /\ strikes[c] \in Seq(Rows) /\ Len(strikes[c]) \in Nat
  BY LadderAssumption DEF TypeInv, TypeOK, Rows
<1>1. /\ strikes' = [strikes EXCEPT ![c] = Append(strikes[c], row)]
      /\ suspendedUntil' = [suspendedUntil EXCEPT ![c] = now + hours]
      /\ UNCHANGED <<now, banned, strikeLock, appeals, thread>>
  BY <1>0 DEF suspend
<1> HIDE DEF row
<1>2. Append(strikes[c], row) \in Seq(Rows) /\ Len(Append(strikes[c], row)) = Len(strikes[c]) + 1
  BY <1>0
<1>3. ASSUME NEW since \in Nat
      PROVE  Counted(Append(strikes[c], row), since, Len(strikes[c]) + 1)
               = Counted(strikes[c], since, Len(strikes[c]))
  BY <1>0, CountedAppend
<1>4. ASSUME NEW since \in Nat
      PROVE  Cardinality(Counted(Append(strikes[c], row), since, Len(Append(strikes[c], row))))
               <= Cardinality(Counted(strikes[c], since, Len(strikes[c])))
  <2>1. Cardinality(Counted(strikes[c], since, Len(strikes[c]))) \in Nat
    BY <1>0, CountedFinite
  <2> QED BY <1>2, <1>3, <2>1
<1>5. LockHeld'
  BY <1>1, <1>2, <1>4, FewerKeepsLock
<1>6. strikes' \in [Customers -> Seq(Rows)] /\ suspendedUntil' \in [Customers -> Nat]
  BY <1>0, <1>1, <1>2
<1>7. TypeOK'
  BY <1>1, <1>6 DEF TypeInv, TypeOK, appeals
<1> QED BY <1>1, <1>5, <1>7 DEF TypeInv, HasCustomer

LEMMA NextType == TypeInv /\ AppealsOwned /\ [Next]_vars => TypeInv'
<1> SUFFICES ASSUME TypeInv, AppealsOwned, [Next]_vars PROVE TypeInv'
  OBVIOUS
<1> USE DEF appeals, sanctions
<1>0. /\ TypeOK /\ thread \in [Threads -> States] /\ now \in Nat
      /\ suspendedUntil \in [Customers -> Nat]
  BY DEF TypeInv, TypeOK, States
<1>1. ASSUME NEW t \in Threads, Strike(t) PROVE TypeInv'
  BY <1>1, StrikeType
<1>2. CASE Tick
  BY <1>2 DEF Tick, TypeInv, TypeOK, HasCustomer, LockHeld, Holds
<1>3. ASSUME NEW t \in Threads, UnbanThenLift(t) PROVE TypeInv'
  <2>0. thread[t].customer \in Customers
    BY <1>3 DEF UnbanThenLift, TypeInv, HasCustomer
  <2>1. CASE Unban(thread[t].customer) /\ Go(t, "lift")
    <3>1. "lift" \in Steps
      BY DEF Steps
    <3>2. /\ thread' \in [Threads -> States] /\ Only(t) /\ thread'[t].at = "lift"
          /\ thread'[t].customer = thread[t].customer
      BY <1>0, <2>1, <3>1, GoTyped
    <3>3. TypeOK'
      BY <1>0, <1>3, <2>0, <2>1, <3>2 DEF UnbanThenLift, Unban, TypeOK, States
    <3> QED BY <1>3, <2>0, <2>1, <3>2, <3>3, LadderUntouched DEF UnbanThenLift, Unban, TypeInv
  <2>2. CASE Lift(thread[t].customer) /\ Finish(t)
    <3>1. thread' \in [Threads -> States] /\ Only(t) /\ thread'[t].at = "idle"
      BY <1>0, <2>2, FinishTyped
    <3>2. \A u \in Threads : thread'[u] = thread[u] \/ thread'[u].at \notin {"read", "write"}
      BY <3>1 DEF Only
    <3>3. /\ LockHeld' /\ strikes' \in [Customers -> Seq(Rows)]
          /\ suspendedUntil' \in [Customers -> Nat]
      BY <1>3, <2>0, <2>2, <3>2, LiftKeepsLock DEF UnbanThenLift
    <3>4. TypeOK'
      BY <1>0, <1>3, <2>2, <3>1, <3>3 DEF UnbanThenLift, Lift, TypeOK, States
    <3>5. HasCustomer'
      BY <3>1 DEF TypeInv, HasCustomer, Only
    <3> QED BY <3>3, <3>4, <3>5 DEF TypeInv
  <2> QED BY <1>3, <2>1, <2>2 DEF UnbanThenLift
<1>4. ASSUME NEW t \in Threads, Appeal(t) PROVE TypeInv'
  <2>0. thread[t].customer \in Customers
    BY <1>4 DEF Appeal, consumeArm, CheckAppeal, CreateAppeal, TypeInv, HasCustomer
  <2>1. Go(t, "check") \/ Go(t, "create") \/ Finish(t)
    BY <1>4 DEF Appeal, consumeArm, CheckAppeal, CreateAppeal
  <2>2. /\ thread' \in [Threads -> States] /\ Only(t) /\ thread'[t].at \notin {"read", "write"}
        /\ thread'[t].at # "idle" => thread'[t].customer = thread[t].customer
    <3>1. "check" \in Steps /\ "create" \in Steps
      BY DEF Steps
    <3> QED BY <1>0, <2>1, <3>1, GoTyped, FinishTyped
  <2>3. CASE consumeArm(t)
    <3>1. TypeOK'
      <4>1. armed' \subseteq Customers /\ texts' \in [Customers -> Nat]
        <5>1. texts \in [Customers -> Nat] /\ armed \subseteq Customers
          BY <1>0 DEF TypeOK
        <5>2. texts' = texts \/ texts' = [texts EXCEPT ![thread[t].customer] = @ + 1]
          BY <2>3 DEF consumeArm
        <5>3. texts' \in [Customers -> Nat]
          BY <2>0, <5>1, <5>2
        <5> QED BY <2>3, <5>1, <5>3 DEF consumeArm
      <4> QED BY <1>0, <2>2, <2>3, <4>1 DEF consumeArm, TypeOK, States
    <3> QED BY <2>0, <2>2, <2>3, <3>1, LadderUntouched DEF consumeArm, TypeInv, Idle
  <2>4. CASE CheckAppeal(t)
    <3>1. TypeOK'
      BY <1>0, <2>2, <2>4 DEF CheckAppeal, TypeOK, States
    <3> QED BY <2>0, <2>2, <2>4, <3>1, LadderUntouched DEF CheckAppeal, TypeInv, Idle
  <2>5. ASSUME NEW a \in Appeals, CreateAppeal(t, a) PROVE TypeInv'
    <3>1. TypeOK'
      BY <1>0, <2>0, <2>2, <2>5 DEF CreateAppeal, TypeOK, States
    <3> QED BY <2>0, <2>2, <2>5, <3>1, LadderUntouched DEF CreateAppeal, TypeInv, Idle
  <2> QED BY <1>4, <2>3, <2>4, <2>5 DEF Appeal
<1>5. ASSUME NEW t \in Threads, Crash(t) PROVE TypeInv'
  <2>1. thread' \in [Threads -> States] /\ Only(t) /\ thread'[t].at = "idle"
    BY <1>0, <1>5, FinishTyped DEF Crash
  <2>2. TypeOK'
    BY <1>0, <1>5, <2>1 DEF Crash, TypeOK, States
  <2>3. HasCustomer'
    BY <2>1 DEF TypeInv, HasCustomer, Only
  <2>4. ASSUME NEW u \in Threads, thread'[u].at \in {"read", "write"} PROVE Holds(u)'
    <3>1. u # t /\ thread'[u] = thread[u] /\ Holds(u)
      BY <2>1, <2>4 DEF TypeInv, LockHeld, Only
    <3>2. strikeLock'[thread[u].customer] = u
      BY <1>0, <1>5, <3>1 DEF Crash, Holds, TypeOK
    <3> QED BY <1>5, <3>1, <3>2 DEF Crash, Holds
  <2> QED BY <2>2, <2>3, <2>4 DEF TypeInv, LockHeld
<1>6. ASSUME NEW t \in Threads, NEW c \in Customers, StartStrike(t, c) PROVE TypeInv'
  <2> DEFINE s == [IdleThread EXCEPT !.at = "lock", !.customer = c, !.since = Larger(0, now - strikeWindow)]
  <2>1. Larger(0, now - strikeWindow) \in Nat
    BY <1>0, LadderAssumption DEF Larger
  <2>2. s \in States /\ s.at = "lock" /\ s.customer = c
    BY <2>1 DEF States, IdleThread, Steps
  <2>3. thread' = [thread EXCEPT ![t] = s] /\ UNCHANGED <<now, sanctions, strikeLock, appeals>>
    BY <1>6 DEF StartStrike
  <2> HIDE DEF s
  <2>4. thread' \in [Threads -> States] /\ thread'[t] = s /\ Only(t)
    BY <1>0, <2>2, <2>3, StepTyped
  <2>5. TypeOK'
    BY <1>0, <2>3, <2>4 DEF TypeOK, States
  <2> QED BY <2>2, <2>3, <2>4, <2>5, LadderUntouched DEF TypeInv, Idle
<1>7. ASSUME NEW t \in Threads, NEW c \in Customers, PanelLift(t, c) \/ RestrictedText(t, c) PROVE TypeInv'
  <2>1. UNCHANGED <<now, sanctions, strikeLock, appeals>> /\ (Start(t, "unban", c) \/ Start(t, "consume", c))
    BY <1>7 DEF PanelLift, RestrictedText
  <2>2. /\ thread' \in [Threads -> States] /\ Only(t)
        /\ thread'[t].at \in {"unban", "consume"} /\ thread'[t].customer = c
    <3>1. "unban" \in Steps /\ "consume" \in Steps
      BY DEF Steps
    <3> QED BY <1>0, <2>1, <3>1, StartTyped
  <2>3. TypeOK'
    BY <1>0, <2>1, <2>2 DEF TypeOK, States
  <2> QED BY <2>1, <2>2, <2>3, LadderUntouched DEF TypeInv
<1>8. ASSUME NEW t \in Threads, NEW a \in Appeals, NEW accept \in BOOLEAN, reviewAppeal(t, a, accept)
      PROVE  TypeInv'
  <2>1. UNCHANGED <<now, sanctions, strikeLock, appealOf, armed, arms, texts>>
        /\ appealStatus' \in [Appeals -> {"NONE", "PENDING", "ACCEPTED", "REJECTED"}]
    BY <1>0, <1>8 DEF reviewAppeal, TypeOK
  <2>2. CASE accept
    <3> DEFINE s == [IdleThread EXCEPT !.at = "unban", !.customer = appealOf[a], !.appeal = a]
    <3>0. appealOf[a] \in Customers
      BY <1>8, <2>2 DEF reviewAppeal, AppealsOwned
    <3>1. s \in States /\ s.at = "unban" /\ s.customer = appealOf[a]
      BY <1>0, <3>0 DEF TypeOK, States, IdleThread, Steps
    <3>2. thread' = [thread EXCEPT ![t] = s]
      BY <1>8, <2>2 DEF reviewAppeal
    <3> HIDE DEF s
    <3>3. thread' \in [Threads -> States] /\ thread'[t] = s /\ Only(t)
      BY <1>0, <3>1, <3>2, StepTyped
    <3>4. TypeOK'
      BY <1>0, <2>1, <3>3 DEF TypeOK, States
    <3> QED BY <2>1, <3>0, <3>1, <3>3, <3>4, LadderUntouched DEF TypeInv
  <2>3. CASE ~accept
    BY <1>8, <2>1, <2>3 DEF reviewAppeal, TypeInv, TypeOK, HasCustomer, LockHeld, Holds
  <2> QED BY <2>2, <2>3
<1>9. ASSUME NEW c \in Customers, StaffBan(c) \/ StaffUnban(c) \/ armAppeal(c) \/ ArmLapses(c)
      PROVE  TypeInv'
  <2>1. UNCHANGED <<strikes, strikeLock, thread>>
    BY <1>9 DEF StaffBan, StaffUnban, armAppeal, ArmLapses, Ban, Unban
  <2>2. TypeOK'
    <3>1. CASE armAppeal(c)
      <4>1. arms \in [Customers -> Nat] /\ armed \subseteq Customers
        BY <1>0 DEF TypeOK
      <4>2. arms' \in [Customers -> Nat] /\ armed' \subseteq Customers
        BY <3>1, <4>1 DEF armAppeal
      <4> QED BY <1>0, <3>1, <4>2 DEF armAppeal, TypeOK
    <3>2. CASE StaffBan(c)
      BY <1>0, <3>2 DEF StaffBan, Ban, TypeOK
    <3>3. CASE StaffUnban(c)
      <4>1. banned' \subseteq Customers /\ suspendedUntil' \in [Customers -> Nat]
        BY <1>0, <3>3 DEF StaffUnban, Unban, TypeOK
      <4> QED BY <1>0, <3>3, <4>1 DEF StaffUnban, Unban, TypeOK
    <3>4. CASE ArmLapses(c)
      BY <1>0, <3>4 DEF ArmLapses, TypeOK
    <3> QED BY <1>9, <3>1, <3>2, <3>3, <3>4
  <2> QED BY <2>1, <2>2 DEF TypeInv, HasCustomer, LockHeld, Holds
<1>10. ASSUME NEW c \in Customers, StaffLift(c) PROVE TypeInv'
  <2>1. /\ LockHeld' /\ strikes' \in [Customers -> Seq(Rows)]
        /\ suspendedUntil' \in [Customers -> Nat]
    BY <1>10, LiftKeepsLock DEF StaffLift
  <2>2. TypeOK'
    BY <1>0, <1>10, <2>1 DEF StaffLift, Lift, TypeOK
  <2> QED BY <1>10, <2>1, <2>2 DEF StaffLift, TypeInv, HasCustomer
<1>11. CASE UNCHANGED vars
  BY <1>11 DEF vars, TypeInv, TypeOK, HasCustomer, LockHeld, Holds
<1> QED
  BY <1>1, <1>2, <1>3, <1>4, <1>5, <1>6, <1>7, <1>8, <1>9, <1>10, <1>11, SuspendType DEF Next

LEMMA NextOwned == TypeInv /\ AppealsOwned /\ [Next]_vars => AppealsOwned'
<1> SUFFICES ASSUME TypeInv, AppealsOwned, [Next]_vars PROVE AppealsOwned'
  OBVIOUS
<1> USE DEF appeals, sanctions
<1>1. ASSUME NEW t \in Threads, Appeal(t) PROVE AppealsOwned'
  BY <1>1 DEF Appeal, consumeArm, CheckAppeal, CreateAppeal, TypeInv, TypeOK, HasCustomer, AppealsOwned
<1>2. ASSUME NEW t \in Threads, NEW a \in Appeals, NEW accept \in BOOLEAN, reviewAppeal(t, a, accept)
      PROVE  AppealsOwned'
  BY <1>2 DEF reviewAppeal, TypeInv, TypeOK, AppealsOwned
<1>3. CASE UNCHANGED <<appealStatus, appealOf>>
  BY <1>3 DEF AppealsOwned
<1> QED
  BY <1>1, <1>2, <1>3 DEF Next, vars, Tick, Strike, CountStrikes, ReadSuspension, CommitStrike,
     BanForStrikes, UnbanThenLift, Crash, StartStrike, PanelLift, RestrictedText, StaffBan,
     StaffUnban, StaffLift, armAppeal, ArmLapses, suspend

\* A number that was recorded exceeds how many strikes the window held when it was.
LEMMA NextClimbs == TypeInv /\ LadderClimbs /\ [Next]_vars => LadderClimbs'
<1> SUFFICES ASSUME TypeInv, LadderClimbs, [Next]_vars PROVE LadderClimbs'
  OBVIOUS
<1> DEFINE Climbs(s, j) ==
      s[j].ladder => /\ s[j].n > Cardinality(Counted(s, s[j].since, j - 1))
                     /\ Cardinality(Counted(s, s[j].since, j - 1)) >= banAfterStrikes - 1
                          => s[j].action = "BAN"
<1>0. /\ strikes \in [Customers -> Seq(Rows)] /\ thread \in [Threads -> States] /\ now \in Nat
  BY DEF TypeInv, TypeOK, States
<1>1. LadderClimbs <=> \A c \in Customers : \A j \in 1 .. Len(strikes[c]) : Climbs(strikes[c], j)
  BY DEF LadderClimbs, Counted
<1>2. LadderClimbs' <=> \A c \in Customers : \A j \in 1 .. Len(strikes'[c]) : Climbs(strikes'[c], j)
  BY DEF LadderClimbs, Counted
<1> HIDE DEF Climbs
\* A row more, which climbs if it is of the ladder.
<1>3. ASSUME NEW c \in Customers, NEW row \in Rows, strikes' = [strikes EXCEPT ![c] = Append(@, row)],
             row.ladder => /\ row.n > Cardinality(Counted(strikes[c], row.since, Len(strikes[c])))
                           /\ Cardinality(Counted(strikes[c], row.since, Len(strikes[c])))
                                >= banAfterStrikes - 1 => row.action = "BAN"
      PROVE  LadderClimbs'
  <2>1. /\ strikes[c] \in Seq(Rows) /\ Len(strikes[c]) \in Nat /\ strikes'[c] = Append(strikes[c], row)
        /\ Len(strikes'[c]) = Len(strikes[c]) + 1 /\ strikes'[c][Len(strikes[c]) + 1] = row
        /\ \A j \in 1 .. Len(strikes[c]) : strikes'[c][j] = strikes[c][j]
    BY <1>0, <1>3
  <2>2. ASSUME NEW j \in 1 .. Len(strikes[c]) PROVE Climbs(strikes'[c], j)
    <3>1. Climbs(strikes[c], j)
      BY <1>1
    <3>2. Counted(strikes'[c], strikes[c][j].since, j - 1) = Counted(strikes[c], strikes[c][j].since, j - 1)
      <4>1. j - 1 \in Nat /\ j - 1 <= Len(strikes[c])
        BY <2>1
      <4> QED BY <1>3, <2>1, <4>1, CountedAppend
    <3> QED BY <2>1, <3>1, <3>2 DEF Climbs
  <2>3. Climbs(strikes'[c], Len(strikes[c]) + 1)
    <3>1. Counted(strikes'[c], row.since, Len(strikes[c])) = Counted(strikes[c], row.since, Len(strikes[c]))
      BY <1>3, <2>1, CountedAppend
    <3>2. Len(strikes[c]) + 1 - 1 = Len(strikes[c])
      BY <2>1
    <3> QED BY <1>3, <2>1, <3>1, <3>2 DEF Climbs
  <2>4. ASSUME NEW d \in Customers, d # c PROVE strikes'[d] = strikes[d]
    BY <1>0, <1>3, <2>4
  <2>5. ASSUME NEW d \in Customers, NEW j \in 1 .. Len(strikes'[d]) PROVE Climbs(strikes'[d], j)
    <3>1. CASE d = c
      <4>1. j \in 1 .. Len(strikes[c]) \/ j = Len(strikes[c]) + 1
        BY <2>1, <2>5, <3>1
      <4> QED BY <2>2, <2>3, <3>1, <4>1
    <3>2. CASE d # c
      BY <1>1, <2>4, <2>5, <3>2
    <3> QED BY <3>1, <3>2
  <2> QED BY <1>2, <2>5
<1>4. ASSUME NEW t \in Threads, CommitStrike(t) PROVE LadderClimbs'
  <2> DEFINE c == thread[t].customer
             row == [at |-> now, ladder |-> TRUE, since |-> thread[t].since, n |-> thread[t].n,
                     action |-> IF thread[t].n >= banAfterStrikes THEN "BAN" ELSE "SUSPEND"]
  <2>1. /\ c \in Customers /\ Holds(t) /\ row \in Rows /\ row.n = thread[t].n
        /\ row.since = thread[t].since /\ thread[t].n \in Nat
        /\ thread[t].n >= banAfterStrikes => row.action = "BAN"
    BY <1>0, <1>4 DEF CommitStrike, TypeInv, HasCustomer, LockHeld, Rows, States
  <2>2. strikes' = [strikes EXCEPT ![c] = Append(@, row)]
    BY <1>4 DEF CommitStrike
  <2> HIDE DEF row
  <2> DEFINE k == Cardinality(Counted(strikes[c], row.since, Len(strikes[c])))
  <2>3. k \in Nat
    BY <1>0, <2>1, CountedFinite
  <2>4. row.n > k /\ (k >= banAfterStrikes - 1 => row.n >= banAfterStrikes)
    <3>1. row.n > k
      BY <2>1 DEF Holds
    <3> HIDE DEF k
    <3> QED BY <2>1, <2>3, <3>1, LadderAssumption
  <2> QED BY <1>3, <2>1, <2>2, <2>4
<1>5. ASSUME NEW c \in Customers, NEW hours \in StaffHours, suspend(c, hours) PROVE LadderClimbs'
  <2> DEFINE row == [at |-> now, ladder |-> FALSE, since |-> 0, n |-> 0, action |-> "SUSPEND"]
  <2>1. row \in Rows /\ ~row.ladder /\ strikes' = [strikes EXCEPT ![c] = Append(@, row)]
    BY <1>0, <1>5 DEF suspend, Rows
  <2> HIDE DEF row
  <2> QED BY <1>3, <2>1
<1>6. ASSUME NEW c \in Customers, Lift(c) PROVE LadderClimbs'
  <2>1. strikes'[c] = <<>> /\ Len(<<>>) = 0 /\ \A d \in Customers \ {c} : strikes'[d] = strikes[d]
    BY <1>0, <1>6 DEF Lift
  <2> QED BY <1>1, <1>2, <2>1
<1>7. CASE UNCHANGED strikes
  BY <1>1, <1>2, <1>7
<1>8. ASSUME NEW t \in Threads, UnbanThenLift(t) PROVE LadderClimbs'
  BY <1>6, <1>7, <1>8 DEF UnbanThenLift, Unban, TypeInv, HasCustomer
<1>9. ASSUME NEW c \in Customers, StaffLift(c) PROVE LadderClimbs'
  BY <1>6, <1>9 DEF StaffLift
<1> QED
  BY <1>4, <1>5, <1>7, <1>8, <1>9 DEF Next, vars, sanctions, appeals, Tick, Strike, CountStrikes,
     ReadSuspension, BanForStrikes, Ban, Unban, Crash, StartStrike, PanelLift, RestrictedText, StaffBan,
     StaffUnban, armAppeal, ArmLapses, Appeal, consumeArm, CheckAppeal, CreateAppeal, reviewAppeal

LEMMA NextRestored == TypeInv /\ RestoredOnAcceptance /\ [Next]_vars => RestoredOnAcceptance'
<1> SUFFICES ASSUME TypeInv, RestoredOnAcceptance, [Next]_vars PROVE RestoredOnAcceptance'
  OBVIOUS
<1> USE DEF RestoredOnAcceptance, appeals, sanctions
<1>0. /\ TypeOK /\ thread \in [Threads -> States]
      /\ appealStatus \in [Appeals -> {"NONE", "PENDING", "ACCEPTED", "REJECTED"}]
      /\ \A t \in Threads : thread[t].appeal \in Appeals \cup {NoAppeal}
  BY DEF TypeInv, TypeOK, States
\* A thread acts on the appeal it acted on, or on none; what was accepted stays so.
<1>1. ASSUME NEW t \in Threads, Only(t), thread'[t].appeal \in {thread[t].appeal, NoAppeal},
             \A a \in Appeals : appealStatus[a] = "ACCEPTED" => appealStatus'[a] = "ACCEPTED"
      PROVE  RestoredOnAcceptance'
  BY <1>0, <1>1 DEF Only
<1>2. ASSUME NEW t \in Threads, UNCHANGED appealStatus,
             Finish(t) \/ \E step \in Steps : Go(t, step) \/ \E c \in Customers : Start(t, step, c)
      PROVE  RestoredOnAcceptance'
  BY <1>0, <1>1, <1>2, GoTyped, FinishTyped, StartTyped
<1>3. ASSUME NEW t \in Threads, Strike(t) PROVE RestoredOnAcceptance'
  <2>1. CASE CountStrikes(t)
    BY <1>0, <1>1, <2>1 DEF CountStrikes, Only, States
  <2>2. CASE ReadSuspension(t)
    BY <1>0, <1>1, <2>2 DEF ReadSuspension, Only, States
  <2>3. CASE CommitStrike(t)
    BY <1>2, <2>3 DEF CommitStrike, Steps
  <2>4. CASE BanForStrikes(t)
    BY <1>2, <2>4 DEF BanForStrikes
  <2> QED BY <1>3, <2>1, <2>2, <2>3, <2>4 DEF Strike
<1>4. ASSUME NEW t \in Threads, UnbanThenLift(t) \/ consumeArm(t) \/ CheckAppeal(t) \/ Crash(t)
      PROVE  RestoredOnAcceptance'
  BY <1>2, <1>4 DEF UnbanThenLift, consumeArm, CheckAppeal, Crash, Steps
<1>5. ASSUME NEW t \in Threads, NEW a \in Appeals, CreateAppeal(t, a) PROVE RestoredOnAcceptance'
  <2>1. Only(t) /\ thread'[t].appeal = NoAppeal
    BY <1>0, <1>5, FinishTyped DEF CreateAppeal
  <2> QED BY <1>0, <1>1, <1>5, <2>1 DEF CreateAppeal
<1>6. ASSUME NEW t \in Threads, NEW c \in Customers,
             StartStrike(t, c) \/ PanelLift(t, c) \/ RestrictedText(t, c)
      PROVE  RestoredOnAcceptance'
  <2>1. CASE StartStrike(t, c)
    BY <1>0, <1>1, <2>1 DEF StartStrike, Only, IdleThread
  <2>2. CASE PanelLift(t, c) \/ RestrictedText(t, c)
    BY <1>2, <2>2 DEF PanelLift, RestrictedText, Steps
  <2> QED BY <1>6, <2>1, <2>2
<1>7. ASSUME NEW t \in Threads, NEW a \in Appeals, NEW accept \in BOOLEAN, reviewAppeal(t, a, accept)
      PROVE  RestoredOnAcceptance'
  <2>1. \A b \in Appeals : appealStatus[b] = "ACCEPTED" => appealStatus'[b] = "ACCEPTED"
    BY <1>0, <1>7 DEF reviewAppeal
  <2>2. CASE accept
    <3>1. appealStatus'[a] = "ACCEPTED" /\ Only(t) /\ thread'[t].appeal = a
      BY <1>0, <1>7, <2>2 DEF reviewAppeal, Only, IdleThread
    <3> QED BY <1>0, <2>1, <3>1 DEF Only
  <2>3. CASE ~accept
    BY <1>0, <1>7, <2>1, <2>3 DEF reviewAppeal
  <2> QED BY <2>2, <2>3
<1>8. CASE UNCHANGED <<appealStatus, thread>>
  BY <1>8
<1> QED
  BY <1>3, <1>4, <1>5, <1>6, <1>7, <1>8 DEF Next, vars, Tick, StaffBan, StaffUnban, StaffLift,
     armAppeal, ArmLapses, suspend, Appeal

LEMMA NextOneText == TypeOK /\ OneTextPerArm /\ [Next]_vars => OneTextPerArm'
<1> SUFFICES ASSUME TypeOK, OneTextPerArm, [Next]_vars PROVE OneTextPerArm'
  OBVIOUS
<1> USE DEF OneTextPerArm, appeals
<1>0. arms \in [Customers -> Nat] /\ texts \in [Customers -> Nat]
  BY DEF TypeOK
<1>1. ASSUME NEW c \in Customers, armAppeal(c) PROVE OneTextPerArm'
  BY <1>0, <1>1 DEF armAppeal
<1>2. ASSUME NEW c \in Customers, ArmLapses(c) PROVE OneTextPerArm'
  BY <1>0, <1>2 DEF ArmLapses
<1>3. ASSUME NEW t \in Threads, consumeArm(t) PROVE OneTextPerArm'
  <2>1. CASE thread[t].customer \in armed
    BY <1>0, <1>3, <2>1 DEF consumeArm
  <2>2. CASE thread[t].customer \notin armed
    BY <1>3, <2>2 DEF consumeArm
  <2> QED BY <2>1, <2>2
<1>4. CASE UNCHANGED <<armed, arms, texts>>
  BY <1>4
<1> QED
  BY <1>1, <1>2, <1>3, <1>4 DEF Next, vars, Tick, Strike, CountStrikes, ReadSuspension, CommitStrike,
     BanForStrikes, UnbanThenLift, Crash, StartStrike, PanelLift, RestrictedText, StaffBan,
     StaffUnban, StaffLift, suspend, Appeal, CheckAppeal, CreateAppeal, reviewAppeal

-----------------------------------------------------------------------------
(* Appeals: none without a press of the button *)

\* The appeals of a customer, and the texts of theirs that are becoming one.
AppealsOf(c) == {a \in Appeals : appealStatus[a] # "NONE" /\ appealOf[a] = c}
Writing(c) == {t \in Threads : thread[t].at \in {"check", "create"} /\ thread[t].customer = c}

\* Two texts that arrive together may both find no pending appeal and create one each;
\* a customer still has no more appeals, pending ones included, than presses.
AppealsWerePressedFor ==
  \A c \in Customers : IsFiniteSet(AppealsOf(c)) /\ Cardinality(AppealsOf(c)) <= arms[c]

\* Every text that was taken is at most one appeal, or on its way to be one.
TextsAccounted(c) ==
  /\ IsFiniteSet(AppealsOf(c)) /\ IsFiniteSet(Writing(c))
  /\ Cardinality(AppealsOf(c)) + Cardinality(Writing(c)) <= texts[c]
AppealInv == \A c \in Customers : TextsAccounted(c)

LEMMA NoMoreAppeals ==
  ASSUME AppealInv, NEW c \in Customers, texts'[c] = texts[c], texts[c] \in Nat,
         AppealsOf(c)' \subseteq AppealsOf(c), Writing(c)' \subseteq Writing(c)
  PROVE  TextsAccounted(c)'
<1>1. /\ IsFiniteSet(AppealsOf(c)') /\ Cardinality(AppealsOf(c)') <= Cardinality(AppealsOf(c))
      /\ IsFiniteSet(Writing(c)') /\ Cardinality(Writing(c)') <= Cardinality(Writing(c))
  BY FS_Subset DEF AppealInv, TextsAccounted
<1>2. /\ Cardinality(AppealsOf(c)) \in Nat /\ Cardinality(Writing(c)) \in Nat
      /\ Cardinality(AppealsOf(c)') \in Nat /\ Cardinality(Writing(c)') \in Nat
  BY <1>1, FS_CardinalityType DEF AppealInv, TextsAccounted
<1>3. Cardinality(AppealsOf(c)) + Cardinality(Writing(c)) <= texts[c]
  BY DEF AppealInv, TextsAccounted
<1>4. Cardinality(AppealsOf(c)') + Cardinality(Writing(c)') <= texts[c]
  BY <1>1, <1>2, <1>3
<1> QED BY <1>1, <1>4 DEF TextsAccounted

LEMMA NextAppeals == TypeInv /\ AppealInv /\ [Next]_vars => AppealInv'
<1> SUFFICES ASSUME TypeInv, AppealInv, [Next]_vars PROVE AppealInv'
  OBVIOUS
<1> USE DEF appeals, sanctions
<1>0. /\ TypeOK /\ thread \in [Threads -> States]
      /\ texts \in [Customers -> Nat] /\ appealOf \in [Appeals -> Customers \cup {NoCustomer}]
      /\ appealStatus \in [Appeals -> {"NONE", "PENDING", "ACCEPTED", "REJECTED"}]
  BY DEF TypeInv, TypeOK, States
\* Steps that take no text, create no appeal and bring nobody closer to one.
<1>1. ASSUME NEW t \in Threads, Only(t), UNCHANGED texts,
             \A c \in Customers : AppealsOf(c)' \subseteq AppealsOf(c),
             \/ thread'[t].at \notin {"check", "create"}
             \/ thread[t].at = "check" /\ thread'[t].customer = thread[t].customer
      PROVE  AppealInv'
  <2>1. \A c \in Customers : Writing(c)' \subseteq Writing(c)
    BY <1>1 DEF Writing, Only
  <2> QED BY <1>0, <1>1, <2>1, NoMoreAppeals DEF AppealInv
<1>2. ASSUME UNCHANGED <<appealStatus, appealOf>> PROVE \A c \in Customers : AppealsOf(c)' = AppealsOf(c)
  BY <1>2 DEF AppealsOf
<1>3. ASSUME NEW t \in Threads, UNCHANGED <<appealStatus, appealOf, texts>>,
             \/ Finish(t)
             \/ \E step \in Steps \ {"check", "create"} :
                  Go(t, step) \/ \E c \in Customers : Start(t, step, c)
      PROVE  AppealInv'
  <2>1. Only(t) /\ thread'[t].at \notin {"check", "create"}
    BY <1>0, <1>3, GoTyped, FinishTyped, StartTyped
  <2> QED BY <1>1, <1>2, <1>3, <2>1
<1>4. ASSUME NEW t \in Threads, Strike(t) PROVE AppealInv'
  <2>1. CASE CountStrikes(t) \/ ReadSuspension(t)
    <3>1. Only(t) /\ thread'[t].at \notin {"check", "create"}
      BY <1>0, <2>1 DEF CountStrikes, ReadSuspension, Only, States
    <3> QED BY <1>1, <1>2, <2>1, <3>1 DEF CountStrikes, ReadSuspension
  <2>2. CASE CommitStrike(t) \/ BanForStrikes(t)
    BY <1>3, <2>2 DEF CommitStrike, BanForStrikes, Steps
  <2> QED BY <1>4, <2>1, <2>2 DEF Strike
<1>5. ASSUME NEW t \in Threads, UnbanThenLift(t) \/ Crash(t) PROVE AppealInv'
  BY <1>3, <1>5 DEF UnbanThenLift, Crash, Steps
<1>6. ASSUME NEW t \in Threads, consumeArm(t) PROVE AppealInv'
  <2>1. PICK c \in Customers : c = thread[t].customer
    BY <1>6 DEF consumeArm, TypeInv, HasCustomer
  <2>2. CASE c \notin armed
    BY <1>3, <1>6, <2>1, <2>2 DEF consumeArm
  <2>3. CASE c \in armed
    <3>1. Go(t, "check") /\ texts' = [texts EXCEPT ![c] = @ + 1] /\ UNCHANGED <<appealStatus, appealOf>>
      BY <1>6, <2>1, <2>3 DEF consumeArm
    <3>2. /\ Only(t) /\ thread'[t].at = "check" /\ thread'[t].customer = c
          /\ thread[t].at = "consume"
      BY <1>0, <1>6, <2>1, <3>1, GoTyped DEF Steps, consumeArm
    <3>3. Writing(c)' = Writing(c) \cup {t} /\ t \notin Writing(c)
      BY <3>2 DEF Writing, Only
    <3>4. /\ IsFiniteSet(Writing(c)') /\ Cardinality(Writing(c)') = Cardinality(Writing(c)) + 1
          /\ Cardinality(Writing(c)) \in Nat
      BY <2>1, <3>3, FS_AddElement, FS_CardinalityType DEF AppealInv, TextsAccounted
    <3>5. IsFiniteSet(AppealsOf(c)) /\ Cardinality(AppealsOf(c)) \in Nat /\ AppealsOf(c)' = AppealsOf(c)
      BY <1>2, <2>1, <3>1, FS_CardinalityType DEF AppealInv, TextsAccounted
    <3>6. Cardinality(AppealsOf(c)) + Cardinality(Writing(c)) <= texts[c] /\ texts'[c] = texts[c] + 1
      BY <1>0, <2>1, <3>1 DEF AppealInv, TextsAccounted
    <3>7. Cardinality(AppealsOf(c)) + (Cardinality(Writing(c)) + 1) <= texts'[c]
      BY <1>0, <2>1, <3>4, <3>5, <3>6
    <3>8. TextsAccounted(c)'
      BY <3>4, <3>5, <3>7 DEF TextsAccounted
    <3>9. ASSUME NEW d \in Customers, d # c PROVE TextsAccounted(d)'
      <4>1. Writing(d)' = Writing(d)
        BY <2>1, <3>2, <3>9 DEF Writing, Only
      <4>2. texts'[d] = texts[d] /\ texts[d] \in Nat
        BY <1>0, <3>1, <3>9
      <4> QED BY <1>2, <3>1, <4>1, <4>2, NoMoreAppeals
    <3> QED BY <3>8, <3>9 DEF AppealInv
  <2> QED BY <2>2, <2>3
<1>7. ASSUME NEW t \in Threads, CheckAppeal(t) PROVE AppealInv'
  <2>1. Only(t) /\ (thread'[t].at \notin {"check", "create"} \/ thread'[t].customer = thread[t].customer)
    BY <1>0, <1>7, GoTyped, FinishTyped DEF CheckAppeal, Steps
  <2> QED BY <1>1, <1>2, <1>7, <2>1 DEF CheckAppeal
<1>8. ASSUME NEW t \in Threads, NEW a \in Appeals, CreateAppeal(t, a) PROVE AppealInv'
  <2>0. PICK c \in Customers : c = thread[t].customer
    BY <1>8 DEF CreateAppeal, TypeInv, HasCustomer
  <2>1. /\ thread[t].at = "create" /\ appealStatus[a] = "NONE"
        /\ appealStatus' = [appealStatus EXCEPT ![a] = "PENDING"]
        /\ appealOf' = [appealOf EXCEPT ![a] = c] /\ texts' = texts
    BY <1>8, <2>0 DEF CreateAppeal
  <2>2. Only(t) /\ thread'[t].at = "idle"
    BY <1>0, <1>8, FinishTyped DEF CreateAppeal, IdleThread
  <2>3. Writing(c)' = Writing(c) \ {t} /\ t \in Writing(c)
    BY <2>0, <2>1, <2>2 DEF Writing, Only
  <2>4. AppealsOf(c)' = AppealsOf(c) \cup {a} /\ a \notin AppealsOf(c)
    BY <1>0, <2>1 DEF AppealsOf
  <2>5. /\ IsFiniteSet(Writing(c)') /\ Cardinality(Writing(c)') = Cardinality(Writing(c)) - 1
        /\ Cardinality(Writing(c)) \in Nat
    BY <2>1, <2>3, FS_RemoveElement, FS_CardinalityType DEF AppealInv, TextsAccounted
  <2>6. /\ IsFiniteSet(AppealsOf(c)') /\ Cardinality(AppealsOf(c)') = Cardinality(AppealsOf(c)) + 1
        /\ Cardinality(AppealsOf(c)) \in Nat
    BY <2>1, <2>4, FS_AddElement, FS_CardinalityType DEF AppealInv, TextsAccounted
  <2>7. Cardinality(AppealsOf(c)) + Cardinality(Writing(c)) <= texts[c]
    BY <2>1 DEF AppealInv, TextsAccounted
  <2>8. Cardinality(AppealsOf(c)') + Cardinality(Writing(c)') <= texts[c]
    BY <1>0, <2>1, <2>5, <2>6, <2>7
  <2>9. TextsAccounted(c)'
    BY <2>1, <2>5, <2>6, <2>8 DEF TextsAccounted
  <2>10. ASSUME NEW d \in Customers, d # c PROVE TextsAccounted(d)'
    <3>1. Writing(d)' \subseteq Writing(d)
      BY <2>2 DEF Writing, Only
    <3>2. AppealsOf(d)' \subseteq AppealsOf(d)
      BY <1>0, <2>1, <2>10 DEF AppealsOf
    <3> QED BY <1>0, <2>1, <3>1, <3>2, NoMoreAppeals
  <2> QED BY <2>9, <2>10 DEF AppealInv
<1>9. ASSUME NEW t \in Threads, NEW c \in Customers,
             StartStrike(t, c) \/ PanelLift(t, c) \/ RestrictedText(t, c)
      PROVE  AppealInv'
  <2>1. CASE StartStrike(t, c)
    <3>1. Only(t) /\ thread'[t].at = "lock"
      BY <1>0, <2>1 DEF StartStrike, Only, IdleThread
    <3> QED BY <1>1, <1>2, <2>1, <3>1 DEF StartStrike
  <2>2. CASE PanelLift(t, c) \/ RestrictedText(t, c)
    BY <1>3, <2>2 DEF PanelLift, RestrictedText, Steps
  <2> QED BY <1>9, <2>1, <2>2
<1>10. ASSUME NEW t \in Threads, NEW a \in Appeals, NEW accept \in BOOLEAN, reviewAppeal(t, a, accept)
       PROVE  AppealInv'
  <2>1. Only(t) /\ (thread'[t].at \notin {"check", "create"} \/ UNCHANGED thread)
    BY <1>0, <1>10 DEF reviewAppeal, Only, IdleThread
  <2>2. \A c \in Customers : AppealsOf(c)' \subseteq AppealsOf(c) /\ Writing(c)' \subseteq Writing(c)
    BY <1>0, <1>10, <2>1 DEF reviewAppeal, AppealsOf, Writing, Only
  <2>3. texts' = texts
    BY <1>10 DEF reviewAppeal
  <2> QED BY <1>0, <2>2, <2>3, NoMoreAppeals DEF AppealInv
<1>11. CASE UNCHANGED <<appealStatus, appealOf, texts, thread>>
  <2>1. \A c \in Customers : AppealsOf(c)' = AppealsOf(c) /\ Writing(c)' = Writing(c)
    BY <1>11 DEF AppealsOf, Writing
  <2> QED BY <1>0, <1>11, <2>1, NoMoreAppeals DEF AppealInv
<1> QED
  BY <1>4, <1>5, <1>6, <1>7, <1>8, <1>9, <1>10, <1>11 DEF Next, vars, Tick, StaffBan, StaffUnban,
     StaffLift, armAppeal, ArmLapses, suspend, Appeal
-----------------------------------------------------------------------------

Inv == TypeInv /\ AppealsOwned /\ LadderClimbs /\ RestoredOnAcceptance /\ OneTextPerArm

LEMMA InitInv == Init => Inv
<1> SUFFICES ASSUME Init PROVE Inv
  OBVIOUS
<1>1. AppealsOwned /\ LadderClimbs
  BY DEF Init, AppealsOwned, LadderClimbs
<1>2. RestoredOnAcceptance /\ OneTextPerArm
  BY DEF Init, IdleThread, RestoredOnAcceptance, OneTextPerArm
<1> QED BY <1>1, <1>2, InitType DEF Inv

LEMMA InvHolds == Spec => []Inv
<1>1. Inv /\ [Next]_vars => Inv'
  BY NextType, NextOwned, NextClimbs, NextRestored, NextOneText DEF Inv, TypeInv
<1> QED BY <1>1, InitInv, PTL DEF Spec

\* The types hold in every reachable state.
THEOREM TypeCorrect == Spec => []TypeOK
<1>1. Inv => TypeOK
  BY DEF Inv, TypeInv
<1> QED BY <1>1, InvHolds, PTL

\* Whatever strikes, suspensions and pardons overlap, a strike's number exceeds how many
\* earlier strikes of the ladder its window holds, and the one that completes the number
\* for a ban is a ban.
THEOREM StrikesClimb == Spec => []LadderClimbs
<1>1. Inv => LadderClimbs
  BY DEF Inv
<1> QED BY <1>1, InvHolds, PTL

\* A customer gets everything back on an appeal only when that appeal was accepted,
\* and it stays accepted, whoever else reviews it.
THEOREM AcceptedAppealsRestore == Spec => []RestoredOnAcceptance
<1>1. Inv => RestoredOnAcceptance
  BY DEF Inv
<1> QED BY <1>1, InvHolds, PTL

\* Texts that arrive together never take the same press of the appeal button twice.
THEOREM ArmsAreUsedOnce == Spec => []OneTextPerArm
<1>1. Inv => OneTextPerArm
  BY DEF Inv
<1> QED BY <1>1, InvHolds, PTL

\* The pending appeal is looked for before one is created, and the two are not one
\* step.  What bounds the appeals is the button: each of them cost the customer a press.
THEOREM NoAppealWithoutPress == Spec => []AppealsWerePressedFor
<1>1. Init => AppealInv
  <2> SUFFICES ASSUME Init, NEW c \in Customers PROVE TextsAccounted(c)
    BY DEF AppealInv
  <2>1. AppealsOf(c) = {} /\ Writing(c) = {} /\ texts[c] = 0
    BY DEF Init, AppealsOf, Writing, IdleThread
  <2> QED BY <2>1, FS_EmptySet DEF TextsAccounted
<1>2. Inv /\ AppealInv => AppealsWerePressedFor
  <2> SUFFICES ASSUME Inv, AppealInv, NEW c \in Customers
               PROVE  IsFiniteSet(AppealsOf(c)) /\ Cardinality(AppealsOf(c)) <= arms[c]
    BY DEF AppealsWerePressedFor
  <2>1. /\ IsFiniteSet(AppealsOf(c)) /\ IsFiniteSet(Writing(c))
        /\ Cardinality(AppealsOf(c)) + Cardinality(Writing(c)) <= texts[c]
    BY DEF AppealInv, TextsAccounted
  <2>2. Cardinality(AppealsOf(c)) \in Nat /\ Cardinality(Writing(c)) \in Nat
    BY <2>1, FS_CardinalityType
  <2>3. texts[c] \in Nat /\ arms[c] \in Nat /\ texts[c] <= arms[c]
    BY DEF Inv, TypeInv, TypeOK, OneTextPerArm
  <2> QED BY <2>1, <2>2, <2>3
<1>3. Inv /\ AppealInv /\ [Next]_vars => AppealInv'
  BY NextAppeals DEF Inv
<1> QED BY <1>1, <1>2, <1>3, InvHolds, PTL DEF Spec
=============================================================================
