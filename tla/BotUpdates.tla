------------------------------ MODULE BotUpdates ------------------------------
(***************************************************************************)
(* How a Telegram update gets to the bot (apps/api/src/modules/telegram):  *)
(* the webhook claims its id in Redis, asks the flood guard and queues it;  *)
(* a worker writes it in the update log and runs the bot's handler.         *)
(* Telegram sends an update again until it is answered, Redis may lose a    *)
(* claim, processes die anywhere and BullMQ retries.  The handler itself is *)
(* left out: it runs, whole or up to an exception.  So is the job that      *)
(* sends a flooding user the notice of his mute: it writes no log row, and  *)
(* only that it is queued at most once is checked here.                    *)
(***************************************************************************)
EXTENDS Naturals

CONSTANTS
  Updates, Users, Calls, Workers,
  NoUser, Group, NoUpdate, NoWorker,
  FLOOD_MAX_UPDATES,    \* updates of one user let through per window (25)
  MaxDeliveries,        \* bound: times Telegram sends one update
  MaxMutes,             \* bound: mutes of one user
  MaxAttempts,          \* attempts of a job before it has failed (5)
  MaxStalls             \* times BullMQ takes a stalled job back (1)

ASSUME NothingAssumption ==
  /\ NoUser \notin Users /\ Group \notin Users /\ NoUser # Group
  /\ NoUpdate \notin Updates /\ NoWorker \notin Workers
ASSUME LimitsAssumption ==
  /\ MaxDeliveries \in Nat /\ MaxMutes \in Nat /\ FLOOD_MAX_UPDATES \in Nat
  /\ MaxAttempts \in Nat \ {0} /\ MaxStalls \in Nat

VARIABLES
  origin,      \* who sent each update: a user, Group or, naming nobody, NoUser
  answered,    \* updates Telegram had an answer for, and sends no more
  deliveries,  \* times each was sent
  call,        \* the webhook calls being handled
  claimed,     \* Redis: telegram:update:<id>
  rate,        \* Redis: tg:rate:<user>
  expiring,    \* users whose rate key has a time to live
  muted,       \* Redis: tg:mute:<user>
  job, holder, attempts, stalls,  \* BullMQ: telegram-update-<id>
  worker,      \* what each worker is doing
  log,         \* TelegramUpdateLog.status; NONE without a row
  runs,        \* history: times the handler was entered for an update
  mutes,       \* history: times each user's mute key was set when it was not
  told         \* history: <<user, mute>> for each notice that was queued

redis == <<claimed, rate, expiring, muted>>
queue == <<job, holder, attempts, stalls>>
notices == <<mutes, told>>
history == <<runs, notices>>
webhook == <<origin, answered, deliveries, call, redis, notices>>
working == <<worker, log, runs>>
vars == <<origin, answered, deliveries, call, redis, queue, worker, log, history>>

CallSteps == {"idle", "claim", "admit", "incr", "expire", "mute", "warn", "add"}
JobStates == {"NONE", "WAITING", "ACTIVE", "COMPLETED", "FAILED"}
LogStates == {"NONE", "PROCESSING", "COMPLETED", "FAILED"}
IdleCall == [at |-> "idle", update |-> NoUpdate, count |-> 0, mute |-> 0]
IdleWorker == [at |-> "idle", update |-> NoUpdate]

\* The types.
TypeOK ==
  /\ origin \in [Updates -> Users \cup {Group, NoUser}]
  /\ answered \subseteq Updates
  /\ deliveries \in [Updates -> Nat]
  /\ call \in [Calls -> [at : CallSteps, update : Updates \cup {NoUpdate}, count : Nat, mute : Nat]]
  /\ claimed \subseteq Updates
  /\ rate \in [Users -> Nat] /\ expiring \subseteq Users /\ muted \subseteq Users
  /\ job \in [Updates -> JobStates] /\ holder \in [Updates -> Workers \cup {NoWorker}]
  /\ attempts \in [Updates -> Nat] /\ stalls \in [Updates -> Nat]
  /\ worker \in [Workers -> [at : {"idle", "log", "handle", "done", "fail"},
                             update : Updates \cup {NoUpdate}]]
  /\ log \in [Updates -> LogStates]
  /\ runs \in [Updates -> Nat]
  /\ mutes \in [Users -> Nat] /\ told \subseteq Users \X Nat

Init ==
  /\ origin \in [Updates -> Users \cup {Group, NoUser}]
  /\ answered = {} /\ deliveries = [u \in Updates |-> 0]
  /\ call = [k \in Calls |-> IdleCall]
  /\ claimed = {} /\ rate = [s \in Users |-> 0] /\ expiring = {} /\ muted = {}
  /\ job = [u \in Updates |-> "NONE"] /\ holder = [u \in Updates |-> NoWorker]
  /\ attempts = [u \in Updates |-> 0] /\ stalls = [u \in Updates |-> 0]
  /\ worker = [w \in Workers |-> IdleWorker]
  /\ log = [u \in Updates |-> "NONE"]
  /\ runs = [u \in Updates |-> 0]
  /\ mutes = [s \in Users |-> 0] /\ told = {}

-----------------------------------------------------------------------------
(* The webhook: one call is claim, admission, queueing, answer *)

\* Telegram sends an update until it is answered; two calls may overlap.
Deliver(k, u) ==
  /\ call[k].at = "idle" /\ u \notin answered /\ deliveries[u] < MaxDeliveries
  /\ deliveries' = [deliveries EXCEPT ![u] = @ + 1]
  /\ call' = [call EXCEPT ![k] = [IdleCall EXCEPT !.at = "claim", !.update = u]]
  /\ UNCHANGED <<origin, answered, redis, queue, working, notices>>

\* The count is not looked at again past the mute.
GoOn(k, step) ==
  /\ call' = [call EXCEPT ![k].at = step, ![k].count = IF step = "mute" THEN @ ELSE 0]
  /\ UNCHANGED answered

\* { ok: true }, which may not reach Telegram.
Answer(k) ==
  /\ call' = [call EXCEPT ![k] = IdleCall]
  /\ answered' \in {answered, answered \cup {call[k].update}}

\* SET NX: the first call of an update goes on, the others answer at once.
Claim(k) ==
  /\ call[k].at = "claim"
  /\ claimed' = claimed \cup {call[k].update}
  /\ IF call[k].update \in claimed THEN Answer(k) ELSE GoOn(k, "admit")
  /\ UNCHANGED <<origin, deliveries, rate, expiring, muted, queue, working, notices>>

\* BotGuardService.admit up to the counter. An error of Redis lets the update
\* through.
Admit(k) ==
  LET u == call[k].update IN
  /\ call[k].at = "admit"
  /\ \/ origin[u] = Group /\ Answer(k)
     \/ origin[u] = NoUser /\ GoOn(k, "add")
     \/ origin[u] \in muted /\ Answer(k)
     \/ origin[u] \in Users \ muted /\ GoOn(k, "incr")
     \/ origin[u] \in Users /\ GoOn(k, "add")
  /\ UNCHANGED <<origin, deliveries, redis, queue, working, notices>>

Incr(k) ==
  LET s == origin[call[k].update] IN
  /\ call[k].at = "incr"
  /\ rate' = [rate EXCEPT ![s] = @ + 1]
  /\ \/ /\ call' = [call EXCEPT ![k].at = IF rate[s] = 0 THEN "expire" ELSE "mute",
                               ![k].count = rate'[s]]
        /\ UNCHANGED answered
     \/ GoOn(k, "add")
  /\ UNCHANGED <<origin, deliveries, claimed, expiring, muted, queue, working, notices>>

Expire(k) ==
  LET s == origin[call[k].update] IN
  /\ call[k].at = "expire"
  /\ \/ expiring' = IF rate[s] > 0 THEN expiring \cup {s} ELSE expiring
     \/ UNCHANGED expiring
  /\ GoOn(k, IF call[k].count <= FLOOD_MAX_UPDATES THEN "add" ELSE "mute")
  /\ UNCHANGED <<origin, deliveries, claimed, rate, muted, queue, working, notices>>

\* A key that is set while there is none starts a mute.
CountMute(s) == mutes' = [mutes EXCEPT ![s] = IF s \in muted THEN @ ELSE @ + 1]

\* The call goes on to queue the notice of the mute that holds now.
Warn(k) ==
  /\ call' = [call EXCEPT ![k] = [@ EXCEPT !.at = "warn", !.count = 0,
                                           !.mute = mutes'[origin[call[k].update]]]]
  /\ UNCHANGED answered

\* Mutant: the key is set without NX.
MuteAnyway(k) ==
  LET s == origin[call[k].update] IN
  /\ call[k].at = "mute"
  /\ IF call[k].count <= FLOOD_MAX_UPDATES
     THEN GoOn(k, "add") /\ UNCHANGED <<muted, mutes>>
     ELSE muted' = muted \cup {s} /\ CountMute(s) /\ Warn(k)
  /\ UNCHANGED <<origin, deliveries, claimed, rate, expiring, queue, working, told>>

\* Over the limit: SET NX of the mute, whose winner sends the notice, if the update
\* names a chat; an error, before or after the key is set, lets the update through.
Mute(k) ==
  LET s == origin[call[k].update] IN
  /\ call[k].at = "mute"
  /\ \/ /\ call[k].count <= FLOOD_MAX_UPDATES
        /\ GoOn(k, "add") /\ UNCHANGED <<muted, mutes>>
     \/ /\ call[k].count > FLOOD_MAX_UPDATES /\ s \notin muted
        /\ muted' = muted \cup {s} /\ CountMute(s)
        /\ Warn(k) \/ Answer(k) \/ GoOn(k, "add")
     \/ /\ call[k].count > FLOOD_MAX_UPDATES /\ s \in muted
        /\ Answer(k) /\ UNCHANGED <<muted, mutes>>
     \/ /\ GoOn(k, "add") /\ UNCHANGED <<muted, mutes>>
  /\ UNCHANGED <<origin, deliveries, claimed, rate, expiring, queue, working, told>>

\* queue.add of the notice. What its job does is left out.
AddWarning(k) ==
  /\ call[k].at = "warn"
  /\ told' = told \cup {<<origin[call[k].update], call[k].mute>>}
  /\ Answer(k)
  /\ UNCHANGED <<origin, deliveries, redis, queue, working, mutes>>

\* queue.add: a job whose id the queue still knows is not added again.
AddJob(k) ==
  LET u == call[k].update IN
  /\ call[k].at = "add"
  /\ IF job[u] = "NONE"
     THEN job' = [job EXCEPT ![u] = "WAITING"] /\ UNCHANGED <<holder, attempts, stalls>>
     ELSE UNCHANGED queue
  /\ Answer(k)
  /\ UNCHANGED <<origin, deliveries, redis, working, notices>>

\* Mutant: a call that fails takes its count back, though the window may be over.
FailAndRefund(k) ==
  /\ call[k].at # "idle"
  /\ call' = [call EXCEPT ![k] = IdleCall]
  /\ rate' = IF call[k].count = 0 THEN rate
             ELSE [rate EXCEPT ![origin[call[k].update]] = @ - 1]
  /\ UNCHANGED <<origin, answered, deliveries, claimed, expiring, muted, queue, working, notices>>

\* The process dies, or Redis refuses what has no catch around it: no answer.
CallFails(k) ==
  /\ call[k].at # "idle"
  /\ call' = [call EXCEPT ![k] = IdleCall]
  /\ UNCHANGED <<origin, answered, deliveries, redis, queue, working, notices>>

\* Another update of a user who sent one of these, whose call is not followed step by
\* step.  It only fills the counter: the updates that pass the limit are followed.
OtherUpdate(s) ==
  /\ \E u \in Updates : origin[u] = s
  /\ s \notin muted /\ rate[s] < FLOOD_MAX_UPDATES
  /\ rate' = [rate EXCEPT ![s] = @ + 1]
  /\ expiring' = IF rate[s] = 0 THEN expiring \cup {s} ELSE expiring
  /\ UNCHANGED <<origin, answered, deliveries, call, claimed, muted, queue, working, notices>>

-----------------------------------------------------------------------------
(* Redis: keys run out, and a claim may be lost with the server's memory *)

RateLapses(s) ==
  /\ s \in expiring
  /\ rate' = [rate EXCEPT ![s] = 0] /\ expiring' = expiring \ {s}
  /\ UNCHANGED <<origin, answered, deliveries, call, claimed, muted, queue, working, notices>>

MuteLapses(s) ==
  /\ s \in muted /\ mutes[s] < MaxMutes /\ muted' = muted \ {s}
  /\ UNCHANGED <<origin, answered, deliveries, call, claimed, rate, expiring, queue, working, notices>>

LoseClaim(u) ==
  /\ u \in claimed /\ claimed' = claimed \ {u}
  /\ UNCHANGED <<origin, answered, deliveries, call, rate, expiring, muted, queue, working, notices>>

-----------------------------------------------------------------------------
(* The worker *)

PickUp(w, u) ==
  /\ worker[w].at = "idle" /\ job[u] = "WAITING"
  /\ job' = [job EXCEPT ![u] = "ACTIVE"] /\ holder' = [holder EXCEPT ![u] = w]
  /\ worker' = [worker EXCEPT ![w] = [at |-> "log", update |-> u]]
  /\ UNCHANGED <<attempts, stalls, log, runs, webhook>>

\* What BullMQ makes of a handler that returned, or threw. A worker that lost its
\* lock changes nothing any more.
Completed(w) ==
  LET u == worker[w].update IN
  /\ worker' = [worker EXCEPT ![w] = IdleWorker]
  /\ IF holder[u] = w
     THEN /\ job' = [job EXCEPT ![u] = "COMPLETED"]
          /\ holder' = [holder EXCEPT ![u] = NoWorker]
     ELSE UNCHANGED <<job, holder>>
  /\ UNCHANGED <<attempts, stalls>>

Threw(w) ==
  LET u == worker[w].update IN
  /\ worker' = [worker EXCEPT ![w] = IdleWorker]
  /\ IF holder[u] = w
     THEN /\ IF attempts[u] + 1 < MaxAttempts
             THEN /\ attempts' = [attempts EXCEPT ![u] = @ + 1]
                  /\ job' = [job EXCEPT ![u] = "WAITING"]
             ELSE job' = [job EXCEPT ![u] = "FAILED"] /\ UNCHANGED attempts
          /\ holder' = [holder EXCEPT ![u] = NoWorker]
     ELSE UNCHANGED <<job, holder, attempts>>
  /\ UNCHANGED stalls

Step(w, step) == worker' = [worker EXCEPT ![w].at = step] /\ UNCHANGED queue

\* Mutant: the row of an earlier try is taken over.
UpsertLog(w) ==
  LET u == worker[w].update IN
  /\ worker[w].at = "log"
  /\ \/ log' = [log EXCEPT ![u] = "PROCESSING"] /\ Step(w, "handle")
     \/ Threw(w) /\ UNCHANGED log
  /\ UNCHANGED <<runs, webhook>>

\* Mutant: a job that meets the row of another try waits for that one to finish.
WaitForOther(w) ==
  LET u == worker[w].update IN
  /\ worker[w].at = "log"
  /\ \/ log[u] = "NONE" /\ log' = [log EXCEPT ![u] = "PROCESSING"] /\ Step(w, "handle")
     \/ log[u] \in {"COMPLETED", "FAILED"} /\ Completed(w) /\ UNCHANGED log
  /\ UNCHANGED <<runs, webhook>>

\* INSERT on a unique update id. A row that is there ends the job; any other error
\* of the database throws.
CreateLog(w) ==
  LET u == worker[w].update IN
  /\ worker[w].at = "log"
  /\ \/ log[u] = "NONE" /\ log' = [log EXCEPT ![u] = "PROCESSING"] /\ Step(w, "handle")
     \/ log[u] # "NONE" /\ Completed(w) /\ UNCHANGED log
     \/ Threw(w) /\ UNCHANGED log
  /\ UNCHANGED <<runs, webhook>>

\* A bot that is not connected to Telegram skips the update and says nothing.
Handle(w) ==
  LET u == worker[w].update IN
  /\ worker[w].at = "handle"
  /\ \/ UNCHANGED runs /\ Step(w, "done")
     \/ /\ runs' = [runs EXCEPT ![u] = @ + 1]
        /\ \E step \in {"done", "fail"} : Step(w, step)
  /\ UNCHANGED <<log, webhook>>

WriteCompleted(w) ==
  LET u == worker[w].update IN
  /\ worker[w].at = "done"
  /\ \/ log[u] # "NONE" /\ log' = [log EXCEPT ![u] = "COMPLETED"] /\ Completed(w)
     \/ Step(w, "fail") /\ UNCHANGED log
  /\ UNCHANGED <<runs, webhook>>

WriteFailed(w) ==
  LET u == worker[w].update IN
  /\ worker[w].at = "fail"
  /\ \/ log[u] # "NONE" /\ log' = [log EXCEPT ![u] = "FAILED"]
     \/ UNCHANGED log
  /\ Threw(w)
  /\ UNCHANGED <<runs, webhook>>

Work(w) == CreateLog(w) \/ Handle(w) \/ WriteCompleted(w) \/ WriteFailed(w)

\* A worker dies; its job is found stalled later.
Die(w) ==
  /\ worker[w].at # "idle"
  /\ worker' = [worker EXCEPT ![w] = IdleWorker]
  /\ UNCHANGED <<queue, log, runs, webhook>>

\* The lock of a job lapses, whether its worker is dead or only slow.
Stall(u) ==
  /\ job[u] = "ACTIVE"
  /\ IF stalls[u] < MaxStalls
     THEN /\ stalls' = [stalls EXCEPT ![u] = @ + 1]
          /\ job' = [job EXCEPT ![u] = "WAITING"]
     ELSE job' = [job EXCEPT ![u] = "FAILED"] /\ UNCHANGED stalls
  /\ holder' = [holder EXCEPT ![u] = NoWorker]
  /\ UNCHANGED <<attempts, working, webhook>>

\* The "retry failed jobs" button.
RetryFailed(u) ==
  /\ job[u] = "FAILED" /\ job' = [job EXCEPT ![u] = "WAITING"]
  /\ UNCHANGED <<holder, attempts, stalls, working, webhook>>

\* removeOnComplete and removeOnFail: the record goes and the id is free again.
Forget(u) ==
  /\ job[u] \in {"COMPLETED", "FAILED"}
  /\ job' = [job EXCEPT ![u] = "NONE"]
  /\ attempts' = [attempts EXCEPT ![u] = 0] /\ stalls' = [stalls EXCEPT ![u] = 0]
  /\ UNCHANGED <<holder, working, webhook>>

Idle(u) ==
  /\ job[u] = "NONE"
  /\ u \in answered /\ \A k \in Calls : call[k].update # u
  /\ \A w \in Workers : worker[w].update # u

\* Rows are dropped after 30 days: Telegram gives an update up after one, and the
\* queue keeps a job for seven at most.
pruneTelegramUpdateLog(u) ==
  /\ log[u] # "NONE" /\ Idle(u)
  /\ log' = [log EXCEPT ![u] = "NONE"]
  /\ UNCHANGED <<queue, worker, runs, webhook>>

-----------------------------------------------------------------------------

HandleWebhook(k) ==
  \/ Claim(k) \/ Admit(k) \/ Incr(k) \/ Expire(k) \/ Mute(k)
  \/ AddWarning(k) \/ AddJob(k) \/ CallFails(k)

Next ==
  \/ \E k \in Calls : HandleWebhook(k) \/ \E u \in Updates : Deliver(k, u)
  \/ \E s \in Users : OtherUpdate(s) \/ RateLapses(s) \/ MuteLapses(s)
  \/ \E w \in Workers : Work(w) \/ Die(w) \/ \E u \in Updates : PickUp(w, u)
  \/ \E u \in Updates :
       LoseClaim(u) \/ Stall(u) \/ RetryFailed(u) \/ Forget(u) \/ pruneTelegramUpdateLog(u)

Abandoned(u) == job[u] = "ACTIVE" /\ \A w \in Workers : holder[u] # w \/ worker[w].update # u

\* The queue serves waiting jobs in their order, a handler that runs comes to its end (no
\* call of it to Telegram hangs for ever: telegram-bot.service.ts:197), and the lock
\* of a dead worker lapses.
Fairness ==
  /\ \A w \in Workers : WF_vars(Work(w))
  /\ \A u \in Updates : SF_vars(\E w \in Workers : PickUp(w, u))
  /\ \A u \in Updates : WF_vars(Abandoned(u) /\ Stall(u))

Spec == Init /\ [][Next]_vars /\ Fairness

-----------------------------------------------------------------------------
(* Properties *)

\* The handler runs at most once for an update, however often Telegram sends it, the
\* queue retries it, a worker is declared dead while it goes on, or Redis forgets.
HandledAtMostOnce == \A u \in Updates : runs[u] <= 1

\* Of the updates that pass the counter at the same moment only the one that starts
\* the mute gets to queue its notice: no mute has two, however the calls, other updates
\* of the user and the ends of his mutes interleave.
OneNoticePerMute ==
  \A k \in Calls : call[k].at = "warn" =>
    LET s == origin[call[k].update] IN
    /\ <<s, call[k].mute>> \notin told
    /\ \A j \in Calls \ {k} :
         call[j].at = "warn" /\ origin[call[j].update] = s => call[j].mute # call[k].mute

\* An update in the queue does not stay there: whatever fails or dies, its job comes
\* to an end.
QueueDrains == \A u \in Updates : job[u] = "WAITING" ~> job[u] \in {"COMPLETED", "FAILED", "NONE"}
=============================================================================
