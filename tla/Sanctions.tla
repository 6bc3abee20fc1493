------------------------------- MODULE Sanctions -------------------------------
(***************************************************************************)
(* Strikes, suspensions, bans and appeals of customers                     *)
(* (apps/api/src/modules/orders/customer-security.service.ts and           *)
(* customer-moderation.service.ts, with the appeal as the bot takes it).   *)
(*                                                                         *)
(* Each handler runs in a thread, one statement at a time; a handler whose *)
(* work is one statement is one action.  What a ban does to open orders is *)
(* in Orders.  Time is a counter: strikes and suspensions are ages of it.  *)
(***************************************************************************)
EXTENDS Integers, Sequences, FiniteSets

CONSTANTS
  Customers, Threads, Appeals,
  strikeWindow,        \* security.strikeWindowHours
  firstSuspend,        \* security.firstSuspendMinutes
  secondSuspend,       \* security.secondSuspendHours
  banAfterStrikes,     \* security.banAfterStrikes
  StaffHours,          \* how long staff suspend for
  MaxTime,             \* bound: the clock stops there
  MaxStrikes,          \* bound: rows of one customer when a strike or suspension starts
  MaxArms,             \* bound: times the appeal button is pressed
  NoThread, NoCustomer, NoAppeal

ASSUME LadderAssumption ==
  /\ strikeWindow \in Nat /\ firstSuspend \in Nat /\ secondSuspend \in Nat
  /\ banAfterStrikes \in Nat /\ StaffHours \subseteq Nat
ASSUME BoundsAssumption == MaxTime \in Nat /\ MaxStrikes \in Nat /\ MaxArms \in Nat
ASSUME NothingAssumption ==
  NoThread \notin Threads /\ NoCustomer \notin Customers /\ NoAppeal \notin Appeals

\* How long the n-th strike suspends for: past the second, twice as long each time.
Sentence(n) == IF n = 1 THEN firstSuspend ELSE secondSuspend * 2 ^ (n - 2)
ASSUME SentencesAssumption == \A n \in 1 .. banAfterStrikes : Sentence(n) \in Nat

VARIABLES
  now,
  banned,          \* customers with status BANNED
  suspendedUntil,  \* Customer.suspendedUntil; 0 is null
  strikes,         \* the CustomerStrike rows of each customer, oldest first
  strikeLock,      \* who holds the advisory lock strike:<customer>
  appealStatus, appealOf,  \* CustomerAppeal.status and customerId
  armed,           \* Redis: chats whose next text is an appeal
  thread,          \* what each thread is doing
  arms, texts      \* history: times armed, and texts taken for an appeal

sanctions == <<banned, suspendedUntil, strikes>>
appeals == <<appealStatus, appealOf, armed, arms, texts>>
vars == <<now, sanctions, strikeLock, appeals, thread>>

Steps == {"idle", "lock", "read", "write", "ban", "unban", "lift", "consume", "check", "create"}
IdleThread ==
  [at |-> "idle", customer |-> NoCustomer, since |-> 0, n |-> 0, until |-> 0, appeal |-> NoAppeal]
Rows == [at : Nat, ladder : BOOLEAN, since : Nat, n : Nat, action : {"SUSPEND", "BAN"}]

TypeOK ==
  /\ now \in Nat
  /\ banned \subseteq Customers /\ suspendedUntil \in [Customers -> Nat]
  /\ strikes \in [Customers -> Seq(Rows)]
  /\ strikeLock \in [Customers -> Threads \cup {NoThread}]
  /\ appealStatus \in [Appeals -> {"NONE", "PENDING", "ACCEPTED", "REJECTED"}]
  /\ appealOf \in [Appeals -> Customers \cup {NoCustomer}]
  /\ armed \subseteq Customers
  /\ thread \in [Threads -> [at : Steps, customer : Customers \cup {NoCustomer}, since : Nat,
                             n : Nat, until : Nat, appeal : Appeals \cup {NoAppeal}]]
  /\ arms \in [Customers -> Nat] /\ texts \in [Customers -> Nat]

Init ==
  /\ now = 1
  /\ banned = {} /\ suspendedUntil = [c \in Customers |-> 0]
  /\ strikes = [c \in Customers |-> <<>>]
  /\ strikeLock = [c \in Customers |-> NoThread]
  /\ appealStatus = [a \in Appeals |-> "NONE"] /\ appealOf = [a \in Appeals |-> NoCustomer]
  /\ armed = {}
  /\ thread = [t \in Threads |-> IdleThread]
  /\ arms = [c \in Customers |-> 0] /\ texts = [c \in Customers |-> 0]

-----------------------------------------------------------------------------

isSuspended(c) == suspendedUntil[c] > now
isRestricted(c) == c \in banned \/ isSuspended(c)

Start(t, step, c) ==
  /\ thread[t].at = "idle"
  /\ thread' = [thread EXCEPT ![t] = [IdleThread EXCEPT !.at = step, !.customer = c]]
Go(t, step) == thread' = [thread EXCEPT ![t].at = step]
Finish(t) == thread' = [thread EXCEPT ![t] = IdleThread]
Larger(a, b) == IF a > b THEN a ELSE b

Tick ==
  /\ now < MaxTime /\ now' = now + 1
  /\ UNCHANGED <<sanctions, strikeLock, appeals, thread>>

\* The process dies: an open transaction is rolled back and its lock is free.
Crash(t) ==
  /\ thread[t].at # "idle" /\ Finish(t)
  /\ strikeLock' = [c \in Customers |-> IF strikeLock[c] = t THEN NoThread ELSE strikeLock[c]]
  /\ UNCHANGED <<now, sanctions, appeals>>

-----------------------------------------------------------------------------
(* recordStrike *)

\* The window is measured before the transaction opens.
StartStrike(t, c) ==
  /\ Len(strikes[c]) < MaxStrikes
  /\ thread[t].at = "idle"
  /\ thread' = [thread EXCEPT ![t] =
       [IdleThread EXCEPT !.at = "lock", !.customer = c, !.since = Larger(0, now - strikeWindow)]]
  /\ UNCHANGED <<now, sanctions, strikeLock, appeals>>

Recent(c, since) == Cardinality({k \in 1 .. Len(strikes[c]) : strikes[c][k].at >= since})

\* Mutant: no lock is taken.
CountUnlocked(t) ==
  LET c == thread[t].customer IN
  /\ thread[t].at = "lock"
  /\ thread' = [thread EXCEPT ![t].at = "read", ![t].n = Recent(c, thread[t].since) + 1]
  /\ UNCHANGED <<now, sanctions, strikeLock, appeals>>

\* Mutant: the strike being recorded is not in the table yet, but is taken off.
CountOthers(t) ==
  LET c == thread[t].customer IN
  /\ thread[t].at = "lock" /\ strikeLock[c] = NoThread
  /\ strikeLock' = [strikeLock EXCEPT ![c] = t]
  /\ thread' = [thread EXCEPT ![t].at = "read", ![t].n = Recent(c, thread[t].since) - 1]
  /\ UNCHANGED <<now, sanctions, appeals>>

\* pg_advisory_xact_lock, then the count.
CountStrikes(t) ==
  LET c == thread[t].customer IN
  /\ thread[t].at = "lock" /\ strikeLock[c] = NoThread
  /\ strikeLock' = [strikeLock EXCEPT ![c] = t]
  /\ thread' = [thread EXCEPT ![t].at = "read", ![t].n = Recent(c, thread[t].since) + 1]
  /\ UNCHANGED <<now, sanctions, appeals>>

\* Below the limit: the longer of this suspension and the one that is running.
ReadSuspension(t) ==
  LET c == thread[t].customer
      n == thread[t].n
  IN /\ thread[t].at = "read"
     /\ thread' = [thread EXCEPT ![t].at = "write",
                     ![t].until = IF n >= banAfterStrikes THEN 0
                                  ELSE Larger(suspendedUntil[c], now + Sentence(n))]
     /\ UNCHANGED <<now, sanctions, strikeLock, appeals>>

\* The rows are written, the transaction commits and the lock goes.
CommitStrike(t) ==
  LET c == thread[t].customer
      bans == thread[t].n >= banAfterStrikes
      row == [at |-> now, ladder |-> TRUE, since |-> thread[t].since, n |-> thread[t].n,
              action |-> IF bans THEN "BAN" ELSE "SUSPEND"]
  IN /\ thread[t].at = "write"
     /\ strikes' = [strikes EXCEPT ![c] = Append(@, row)]
     /\ suspendedUntil' = IF bans THEN suspendedUntil
                          ELSE [suspendedUntil EXCEPT ![c] = thread[t].until]
     /\ strikeLock' = [strikeLock EXCEPT ![c] = NoThread]
     /\ IF bans THEN Go(t, "ban") ELSE Finish(t)
     /\ UNCHANGED <<now, banned, appeals>>

\* moderation.ban comes after the commit; staff call it on its own.
Ban(c) == banned' = banned \cup {c} /\ UNCHANGED <<suspendedUntil, strikes>>

BanForStrikes(t) ==
  /\ thread[t].at = "ban" /\ Ban(thread[t].customer) /\ Finish(t)
  /\ UNCHANGED <<now, strikeLock, appeals>>

-----------------------------------------------------------------------------
(* Staff *)

StaffBan(c) == Ban(c) /\ UNCHANGED <<now, strikeLock, appeals, thread>>

\* No lock: the suspension replaces the one that is running.
suspend(c, hours) ==
  /\ Len(strikes[c]) < MaxStrikes
  /\ suspendedUntil' = [suspendedUntil EXCEPT ![c] = now + hours]
  /\ strikes' = [strikes EXCEPT ![c] =
       Append(@, [at |-> now, ladder |-> FALSE, since |-> 0, n |-> 0, action |-> "SUSPEND"])]
  /\ UNCHANGED <<now, banned, strikeLock, appeals, thread>>

Unban(c) ==
  /\ banned' = banned \ {c} /\ suspendedUntil' = [suspendedUntil EXCEPT ![c] = 0]
  /\ UNCHANGED strikes
Lift(c) ==
  /\ suspendedUntil' = [suspendedUntil EXCEPT ![c] = 0]
  /\ strikes' = [strikes EXCEPT ![c] = <<>>]
  /\ UNCHANGED banned

\* The dashboard has a button for each; the bot's panel does one after the other.
StaffUnban(c) == Unban(c) /\ UNCHANGED <<now, strikeLock, appeals, thread>>
StaffLift(c) == Lift(c) /\ UNCHANGED <<now, strikeLock, appeals, thread>>
PanelLift(t, c) == Start(t, "unban", c) /\ UNCHANGED <<now, sanctions, strikeLock, appeals>>

\* Mutant: the update does not ask whether the appeal is still pending.
DecideAnyway(t, a, accept) ==
  /\ appealStatus[a] # "NONE" /\ thread[t].at = "idle"
  /\ appealStatus' = [appealStatus EXCEPT ![a] = IF accept THEN "ACCEPTED" ELSE "REJECTED"]
  /\ IF accept
     THEN thread' = [thread EXCEPT ![t] =
            [IdleThread EXCEPT !.at = "unban", !.customer = appealOf[a], !.appeal = a]]
     ELSE UNCHANGED thread
  /\ UNCHANGED <<now, sanctions, strikeLock, appealOf, armed, arms, texts>>

\* The guarded claim; what an acceptance does comes after it, in two statements.
reviewAppeal(t, a, accept) ==
  /\ appealStatus[a] = "PENDING" /\ thread[t].at = "idle"
  /\ appealStatus' = [appealStatus EXCEPT ![a] = IF accept THEN "ACCEPTED" ELSE "REJECTED"]
  /\ IF accept
     THEN thread' = [thread EXCEPT ![t] =
            [IdleThread EXCEPT !.at = "unban", !.customer = appealOf[a], !.appeal = a]]
     ELSE UNCHANGED thread
  /\ UNCHANGED <<now, sanctions, strikeLock, appealOf, armed, arms, texts>>

UnbanThenLift(t) ==
  /\ \/ thread[t].at = "unban" /\ Unban(thread[t].customer) /\ Go(t, "lift")
     \/ thread[t].at = "lift" /\ Lift(thread[t].customer) /\ Finish(t)
  /\ UNCHANGED <<now, strikeLock, appeals>>

-----------------------------------------------------------------------------
(* Appeals, in the bot *)

\* The button under the notice a restricted customer gets: the check that he is one, in
\* the bot's guard, and the SET of the arm are taken for one step.
armAppeal(c) ==
  /\ isRestricted(c) /\ arms[c] < MaxArms
  /\ armed' = armed \cup {c} /\ arms' = [arms EXCEPT ![c] = @ + 1]
  /\ UNCHANGED <<now, sanctions, strikeLock, appealStatus, appealOf, texts, thread>>

ArmLapses(c) ==
  /\ c \in armed /\ armed' = armed \ {c}
  /\ UNCHANGED <<now, sanctions, strikeLock, appealStatus, appealOf, arms, texts, thread>>

\* A text reaches the middleware, which finds its sender restricted.
RestrictedText(t, c) ==
  /\ isRestricted(c) /\ c \in armed /\ Start(t, "consume", c)
  /\ UNCHANGED <<now, sanctions, strikeLock, appeals>>

\* Mutant: GET, and the key is left to lapse.
PeekArm(t) ==
  LET c == thread[t].customer IN
  /\ thread[t].at = "consume"
  /\ IF c \in armed THEN Go(t, "check") /\ texts' = [texts EXCEPT ![c] = @ + 1]
     ELSE Finish(t) /\ UNCHANGED texts
  /\ UNCHANGED <<now, sanctions, strikeLock, appealStatus, appealOf, armed, arms>>

\* GETDEL.
consumeArm(t) ==
  LET c == thread[t].customer IN
  /\ thread[t].at = "consume"
  /\ armed' = armed \ {c}
  /\ IF c \in armed THEN Go(t, "check") /\ texts' = [texts EXCEPT ![c] = @ + 1]
     ELSE Finish(t) /\ UNCHANGED texts
  /\ UNCHANGED <<now, sanctions, strikeLock, appealStatus, appealOf, arms>>

PendingOf(c) == {a \in Appeals : appealOf[a] = c /\ appealStatus[a] = "PENDING"}

CheckAppeal(t) ==
  LET c == thread[t].customer IN
  /\ thread[t].at = "check"
  /\ IF isRestricted(c) /\ PendingOf(c) = {} THEN Go(t, "create") ELSE Finish(t)
  /\ UNCHANGED <<now, sanctions, strikeLock, appeals>>

CreateAppeal(t, a) ==
  /\ thread[t].at = "create" /\ appealStatus[a] = "NONE"
  /\ appealStatus' = [appealStatus EXCEPT ![a] = "PENDING"]
  /\ appealOf' = [appealOf EXCEPT ![a] = thread[t].customer]
  /\ Finish(t)
  /\ UNCHANGED <<now, sanctions, strikeLock, armed, arms, texts>>

-----------------------------------------------------------------------------

Strike(t) == CountStrikes(t) \/ ReadSuspension(t) \/ CommitStrike(t) \/ BanForStrikes(t)

Appeal(t) == consumeArm(t) \/ CheckAppeal(t) \/ \E a \in Appeals : CreateAppeal(t, a)

Next ==
  \/ Tick
  \/ \E t \in Threads : Strike(t) \/ UnbanThenLift(t) \/ Appeal(t) \/ Crash(t)
  \/ \E t \in Threads, c \in Customers :
       StartStrike(t, c) \/ PanelLift(t, c) \/ RestrictedText(t, c)
  \/ \E t \in Threads, a \in Appeals, accept \in BOOLEAN : reviewAppeal(t, a, accept)
  \/ \E c \in Customers :
       \/ StaffBan(c) \/ StaffUnban(c) \/ StaffLift(c) \/ armAppeal(c) \/ ArmLapses(c)
       \/ \E hours \in StaffHours : suspend(c, hours)

Spec == Init /\ [][Next]_vars

-----------------------------------------------------------------------------
(* Properties *)

\* Strikes that land together are not both the first: a strike's number exceeds how many
\* earlier ones of the ladder its window holds, so the one that completes the number for
\* a ban is one.  Two windows may differ, and a later strike's number be the smaller.
LadderClimbs ==
  \A c \in Customers : \A j \in 1 .. Len(strikes[c]) :
    LET row == strikes[c][j]
        Before == {i \in 1 .. j - 1 : strikes[c][i].ladder /\ strikes[c][i].at >= row.since}
    IN row.ladder => /\ row.n > Cardinality(Before)
                     /\ Cardinality(Before) >= banAfterStrikes - 1 => row.action = "BAN"

\* A review restores a customer only on an appeal that was accepted, and stays so.
RestoredOnAcceptance ==
  \A t \in Threads : thread[t].appeal # NoAppeal => appealStatus[thread[t].appeal] = "ACCEPTED"

\* One press of the button takes one text for an appeal, however many arrive at
\* once: the rest are dropped with the notice.
OneTextPerArm ==
  \A c \in Customers : texts[c] + (IF c \in armed THEN 1 ELSE 0) <= arms[c]
=============================================================================
