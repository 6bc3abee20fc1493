---------------------------- MODULE BotUpdatesProofs ----------------------------
(***************************************************************************)
(* What BotUpdates keeps true whatever the constants are.                  *)
(***************************************************************************)
EXTENDS BotUpdates, TLAPS

CallRows == [at : CallSteps, update : Updates \cup {NoUpdate}, count : Nat, mute : Nat]
WorkerRows == [at : {"idle", "log", "handle", "done", "fail"}, update : Updates \cup {NoUpdate}]

\* A call, or a worker, that is busy is busy with an update; one that got to the
\* counters is with a user's.
CallsNamed ==
  \A k \in Calls : /\ call[k].at # "idle" => call[k].update \in Updates
                   /\ call[k].at \in {"incr", "expire", "mute", "warn"} =>
                        origin[call[k].update] \in Users
WorkersNamed == \A w \in Workers : worker[w].at # "idle" => worker[w].update \in Updates

TypeInv == TypeOK /\ CallsNamed /\ WorkersNamed

LEMMA InitType == Init => TypeInv
<1> SUFFICES ASSUME Init PROVE TypeInv
  OBVIOUS
<1>1. IdleCall \in CallRows /\ IdleWorker \in WorkerRows
  BY DEF IdleCall, IdleWorker, CallRows, WorkerRows, CallSteps
<1>2. call \in [Calls -> CallRows] /\ worker \in [Workers -> WorkerRows]
  BY <1>1 DEF Init
<1>3. CallsNamed /\ WorkersNamed
  BY DEF Init, CallsNamed, WorkersNamed, IdleCall, IdleWorker
<1>4. job \in [Updates -> JobStates] /\ log \in [Updates -> LogStates]
  BY DEF Init, JobStates, LogStates
<1> QED
  BY <1>2, <1>3, <1>4 DEF Init, TypeInv, TypeOK, CallRows, WorkerRows

-----------------------------------------------------------------------------
(* What the helpers do to the calls and the workers *)

CallsTyped == call \in [Calls -> CallRows] /\ answered \subseteq Updates /\ CallsNamed

LEMMA CallTyped ==
  ASSUME TypeInv, NEW k \in Calls, NEW row \in CallRows,
         call' = [call EXCEPT ![k] = row], answered' \subseteq Updates, origin' = origin,
         row.at # "idle" => row.update \in Updates,
         row.at \in {"incr", "expire", "mute", "warn"} => origin[row.update] \in Users
  PROVE  CallsTyped'
<1>1. call \in [Calls -> CallRows]
  BY DEF TypeInv, TypeOK, CallRows
<1>2. call' \in [Calls -> CallRows]
  BY <1>1
<1>3. CallsNamed'
  BY <1>1 DEF TypeInv, CallsNamed
<1> QED BY <1>2, <1>3 DEF CallsTyped

LEMMA GoOnTyped ==
  ASSUME TypeInv, NEW k \in Calls, NEW step \in CallSteps, GoOn(k, step), origin' = origin,
         call[k].at # "idle",
         step \in {"incr", "expire", "mute", "warn"} => origin[call[k].update] \in Users
  PROVE  CallsTyped'
<1> DEFINE row == [call[k] EXCEPT !.at = step, !.count = IF step = "mute" THEN @ ELSE 0]
<1>1. call[k] \in CallRows /\ answered \subseteq Updates
  BY DEF TypeInv, TypeOK, CallRows
<1>2. row \in CallRows /\ row.at = step /\ row.update = call[k].update
  BY <1>1 DEF CallRows
<1>3. call[k].update \in Updates
  BY DEF TypeInv, CallsNamed
<1>4. call' = [call EXCEPT ![k] = row] /\ answered' \subseteq Updates
  BY <1>1 DEF GoOn
<1> HIDE DEF row
<1> QED BY <1>2, <1>3, <1>4, CallTyped

LEMMA WarnTyped ==
  ASSUME TypeInv, NEW k \in Calls, Warn(k), origin' = origin, call[k].at # "idle",
         origin[call[k].update] \in Users, mutes' \in [Users -> Nat]
  PROVE  CallsTyped'
<1> DEFINE row == [call[k] EXCEPT !.at = "warn", !.count = 0,
                                  !.mute = mutes'[origin[call[k].update]]]
<1>1. call[k] \in CallRows /\ answered \subseteq Updates
  BY DEF TypeInv, TypeOK, CallRows
<1>2. row \in CallRows /\ row.at = "warn" /\ row.update = call[k].update
  BY <1>1 DEF CallRows, CallSteps
<1>3. call[k].update \in Updates
  BY DEF TypeInv, CallsNamed
<1>4. call' = [call EXCEPT ![k] = row] /\ answered' \subseteq Updates
  BY <1>1 DEF Warn
<1> HIDE DEF row
<1> QED BY <1>2, <1>3, <1>4, CallTyped

LEMMA AnswerTyped ==
  ASSUME TypeInv, NEW k \in Calls, Answer(k), origin' = origin, call[k].at # "idle"
  PROVE  CallsTyped'
<1>1. IdleCall \in CallRows /\ IdleCall.at = "idle"
  BY DEF IdleCall, CallRows, CallSteps
<1>2. answered' \subseteq Updates
  BY DEF Answer, TypeInv, TypeOK, CallsNamed
<1> QED BY <1>1, <1>2, CallTyped DEF Answer

QueueTyped ==
  /\ job \in [Updates -> JobStates] /\ holder \in [Updates -> Workers \cup {NoWorker}]
  /\ attempts \in [Updates -> Nat] /\ stalls \in [Updates -> Nat]
  /\ worker \in [Workers -> WorkerRows] /\ WorkersNamed

LEMMA WorkerTyped ==
  ASSUME TypeInv, NEW w \in Workers, NEW row \in WorkerRows,
         worker' = [worker EXCEPT ![w] = row], row.at # "idle" => row.update \in Updates
  PROVE  worker' \in [Workers -> WorkerRows] /\ WorkersNamed'
<1>1. worker \in [Workers -> WorkerRows]
  BY DEF TypeInv, TypeOK, WorkerRows
<1> QED BY <1>1 DEF TypeInv, WorkersNamed

LEMMA IdleTyped ==
  ASSUME TypeInv, NEW w \in Workers, worker' = [worker EXCEPT ![w] = IdleWorker]
  PROVE  worker' \in [Workers -> WorkerRows] /\ WorkersNamed'
<1>1. IdleWorker \in WorkerRows /\ IdleWorker.at = "idle"
  BY DEF IdleWorker, WorkerRows
<1> QED BY <1>1, WorkerTyped

LEMMA CompletedTyped ==
  ASSUME TypeInv, NEW w \in Workers, Completed(w), worker[w].at # "idle"
  PROVE  QueueTyped'
<1>1. worker' \in [Workers -> WorkerRows] /\ WorkersNamed'
  BY IdleTyped DEF Completed
<1> QED BY <1>1 DEF Completed, QueueTyped, TypeInv, TypeOK, WorkersNamed, JobStates

LEMMA ThrewTyped ==
  ASSUME TypeInv, NEW w \in Workers, Threw(w), worker[w].at # "idle"
  PROVE  QueueTyped'
<1>1. worker' \in [Workers -> WorkerRows] /\ WorkersNamed'
  BY IdleTyped DEF Threw
<1>2. worker[w].update \in Updates
  BY DEF TypeInv, WorkersNamed
<1>3. /\ job' \in [Updates -> JobStates] /\ attempts' \in [Updates -> Nat]
      /\ holder' \in [Updates -> Workers \cup {NoWorker}]
  <2> DEFINE u == worker[w].update
  <2>0. /\ job \in [Updates -> JobStates] /\ attempts \in [Updates -> Nat]
        /\ holder \in [Updates -> Workers \cup {NoWorker}] /\ u \in Updates
    BY <1>2 DEF TypeInv, TypeOK, JobStates
  <2>1. CASE holder[u] # w
    BY <2>0, <2>1 DEF Threw
  <2>2. CASE holder[u] = w
    <3>1. holder' = [holder EXCEPT ![u] = NoWorker]
      BY <2>2 DEF Threw
    <3>2. \/ attempts' = [attempts EXCEPT ![u] = @ + 1] /\ job' = [job EXCEPT ![u] = "WAITING"]
          \/ attempts' = attempts /\ job' = [job EXCEPT ![u] = "FAILED"]
      BY <2>2 DEF Threw
    <3>3. {"WAITING", "FAILED"} \subseteq JobStates
      BY DEF JobStates
    <3> HIDE DEF u
    <3> QED BY <2>0, <3>1, <3>2, <3>3
  <2> QED BY <2>1, <2>2
<1> QED BY <1>1, <1>3 DEF Threw, QueueTyped, TypeInv, TypeOK

LEMMA StepTyped ==
  ASSUME TypeInv, NEW w \in Workers, NEW step \in {"handle", "done", "fail"}, Step(w, step),
         worker[w].at # "idle"
  PROVE  QueueTyped'
<1> DEFINE row == [worker[w] EXCEPT !.at = step]
<1>1. worker[w] \in WorkerRows
  BY DEF TypeInv, TypeOK, WorkerRows
<1>2. row \in WorkerRows /\ row.update = worker[w].update
  BY <1>1 DEF WorkerRows
<1>3. worker' = [worker EXCEPT ![w] = row] /\ worker[w].update \in Updates
  BY DEF Step, TypeInv, WorkersNamed
<1> HIDE DEF row
<1>4. worker' \in [Workers -> WorkerRows] /\ WorkersNamed'
  BY <1>2, <1>3, WorkerTyped
<1> QED BY <1>4 DEF Step, queue, QueueTyped, TypeInv, TypeOK

-----------------------------------------------------------------------------
(* The types *)

LEMMA WebhookType ==
  ASSUME TypeInv, NEW k \in Calls, HandleWebhook(k) PROVE TypeInv'
<1> DEFINE u == call[k].update
           s == origin[u]
<1>0. /\ call[k].at # "idle" => u \in Updates
      /\ call[k].at \in {"incr", "expire", "mute", "warn"} => s \in Users
  BY DEF TypeInv, CallsNamed
<1>1. CASE Claim(k)
  <2>1. CallsTyped'
    <3>1. CASE u \in claimed
      BY <1>1, <3>1, AnswerTyped DEF Claim
    <3>2. CASE u \notin claimed
      BY <1>1, <3>2, GoOnTyped DEF Claim, CallSteps
    <3> QED BY <3>1, <3>2
  <2> QED BY <1>0, <1>1, <2>1
        DEF Claim, CallsTyped, CallRows, TypeInv, TypeOK, notices, WorkersNamed, queue, working
<1>2. CASE Admit(k)
  <2>1. CallsTyped'
    <3>1. CASE Answer(k)
      BY <1>2, <3>1, AnswerTyped DEF Admit
    <3>2. CASE GoOn(k, "add")
      BY <1>2, <3>2, GoOnTyped DEF Admit, CallSteps
    <3>3. CASE s \in Users /\ GoOn(k, "incr")
      BY <1>2, <3>3, GoOnTyped DEF Admit, CallSteps
    <3> QED BY <1>2, <3>1, <3>2, <3>3 DEF Admit
  <2> QED BY <1>2, <2>1
        DEF Admit, CallsTyped, CallRows, TypeInv, TypeOK, WorkersNamed, redis, queue, working,
            notices
<1>3. CASE Incr(k)
  <2>0. s \in Users /\ u \in Updates /\ call[k].at = "incr" /\ origin' = origin
    BY <1>0, <1>3 DEF Incr
  <2>1. rate' \in [Users -> Nat] /\ rate'[s] \in Nat
    BY <1>3, <2>0 DEF Incr, TypeInv, TypeOK
  <2>2. CallsTyped'
    <3>1. CASE GoOn(k, "add")
      BY <2>0, <3>1, GoOnTyped DEF CallSteps
    <3>2. ASSUME NEW step \in {"expire", "mute"}, UNCHANGED answered,
                 call' = [call EXCEPT ![k].at = step, ![k].count = rate'[s]]
          PROVE  CallsTyped'
      <4> DEFINE row == [call[k] EXCEPT !.at = step, !.count = rate'[s]]
      <4>1. call[k] \in CallRows /\ answered \subseteq Updates
        BY DEF TypeInv, TypeOK, CallRows
      <4>2. row \in CallRows /\ row.at = step /\ row.update = u
        BY <2>1, <4>1 DEF CallRows, CallSteps
      <4>3. call' = [call EXCEPT ![k] = row] /\ answered' \subseteq Updates
        BY <3>2, <4>1
      <4> HIDE DEF row
      <4> QED BY <2>0, <4>2, <4>3, CallTyped
    <3> QED BY <1>3, <3>1, <3>2 DEF Incr
  <2> QED BY <1>3, <2>1, <2>2
        DEF Incr, CallsTyped, CallRows, TypeInv, TypeOK, notices, WorkersNamed, queue, working
<1>4. CASE Expire(k)
  <2>0. s \in Users /\ u \in Updates
    BY <1>0, <1>4 DEF Expire
  <2>1. CallsTyped'
    <3>1. CASE GoOn(k, "add")
      BY <1>4, <3>1, GoOnTyped DEF Expire, CallSteps
    <3>2. CASE GoOn(k, "mute")
      BY <1>4, <2>0, <3>2, GoOnTyped DEF Expire, CallSteps
    <3> QED BY <1>4, <3>1, <3>2 DEF Expire
  <2> QED BY <1>4, <2>0, <2>1
        DEF Expire, CallsTyped, CallRows, TypeInv, TypeOK, notices, WorkersNamed, queue, working
<1>5. CASE Mute(k)
  <2>0. s \in Users /\ u \in Updates
    BY <1>0, <1>5 DEF Mute
  <2>2. muted' \subseteq Users /\ mutes' \in [Users -> Nat]
    BY <1>5, <2>0 DEF Mute, CountMute, TypeInv, TypeOK
  <2>1. CallsTyped'
    <3>1. CASE GoOn(k, "add")
      BY <1>5, <3>1, GoOnTyped DEF Mute, CallSteps
    <3>2. CASE Warn(k)
      BY <1>5, <2>0, <2>2, <3>2, WarnTyped DEF Mute
    <3>3. CASE Answer(k)
      BY <1>5, <3>3, AnswerTyped DEF Mute
    <3> QED BY <1>5, <3>1, <3>2, <3>3 DEF Mute
  <2> QED BY <1>5, <2>1, <2>2
        DEF Mute, CallsTyped, CallRows, TypeInv, TypeOK, WorkersNamed, queue, working
<1>6. CASE AddWarning(k)
  <2>1. CallsTyped'
    BY <1>6, AnswerTyped DEF AddWarning
  <2>2. told' \subseteq Users \X Nat
    BY <1>0, <1>6 DEF AddWarning, TypeInv, TypeOK
  <2> QED BY <1>6, <2>1, <2>2
        DEF AddWarning, CallsTyped, CallRows, TypeInv, TypeOK, WorkersNamed, redis, queue, working
<1>7. CASE AddJob(k)
  <2>1. CallsTyped'
    BY <1>7, AnswerTyped DEF AddJob
  <2>2. job' \in [Updates -> JobStates] /\ UNCHANGED <<holder, attempts, stalls>>
    BY <1>0, <1>7 DEF AddJob, JobStates, queue, TypeInv, TypeOK
  <2> QED BY <1>7, <2>1, <2>2
        DEF AddJob, CallsTyped, CallRows, TypeInv, TypeOK, notices, WorkersNamed, redis, working
<1>8. CASE CallFails(k)
  <2>1. CallsTyped'
    <3>1. IdleCall \in CallRows /\ IdleCall.at = "idle" /\ answered \subseteq Updates
      BY DEF IdleCall, CallRows, CallSteps, TypeInv, TypeOK
    <3> QED BY <1>8, <3>1, CallTyped DEF CallFails
  <2> QED BY <1>8, <2>1
        DEF CallFails, CallsTyped, CallRows, TypeInv, TypeOK, WorkersNamed, redis, queue, working,
            notices
<1> QED
  BY <1>1, <1>2, <1>3, <1>4, <1>5, <1>6, <1>7, <1>8 DEF HandleWebhook

LEMMA WorkType ==
  ASSUME TypeInv, NEW w \in Workers, Work(w) PROVE TypeInv'
<1> DEFINE u == worker[w].update
<1>0. /\ worker[w].at # "idle" => u \in Updates
      /\ log \in [Updates -> LogStates] /\ runs \in [Updates -> Nat]
  BY DEF TypeInv, TypeOK, WorkersNamed
<1>1. CASE CreateLog(w)
  <2>1. QueueTyped' /\ log' \in [Updates -> LogStates]
    <3>1. CASE log' = [log EXCEPT ![u] = "PROCESSING"] /\ Step(w, "handle")
      BY <1>0, <1>1, <3>1, StepTyped DEF CreateLog, LogStates
    <3>2. CASE Completed(w) /\ UNCHANGED log
      BY <1>0, <1>1, <3>2, CompletedTyped DEF CreateLog
    <3>3. CASE Threw(w) /\ UNCHANGED log
      BY <1>0, <1>1, <3>3, ThrewTyped DEF CreateLog
    <3> QED BY <1>1, <3>1, <3>2, <3>3 DEF CreateLog
  <2> QED BY <1>1, <2>1
        DEF CreateLog, QueueTyped, WorkerRows, TypeInv, TypeOK, notices, CallsNamed, webhook, redis
<1>2. CASE Handle(w)
  <2>1. QueueTyped' /\ runs' \in [Updates -> Nat]
    <3>1. CASE UNCHANGED runs /\ Step(w, "done")
      BY <1>0, <1>2, <3>1, StepTyped DEF Handle
    <3>2. ASSUME NEW step \in {"done", "fail"}, Step(w, step), runs' = [runs EXCEPT ![u] = @ + 1]
          PROVE  QueueTyped' /\ runs' \in [Updates -> Nat]
      BY <1>0, <1>2, <3>2, StepTyped DEF Handle
    <3> QED BY <1>2, <3>1, <3>2 DEF Handle
  <2> QED BY <1>2, <2>1
        DEF Handle, QueueTyped, WorkerRows, TypeInv, TypeOK, notices, CallsNamed, webhook, redis
<1>3. CASE WriteCompleted(w)
  <2>1. QueueTyped' /\ log' \in [Updates -> LogStates]
    <3>1. CASE log' = [log EXCEPT ![u] = "COMPLETED"] /\ Completed(w)
      BY <1>0, <1>3, <3>1, CompletedTyped DEF WriteCompleted, LogStates
    <3>2. CASE Step(w, "fail") /\ UNCHANGED log
      BY <1>0, <1>3, <3>2, StepTyped DEF WriteCompleted
    <3> QED BY <1>3, <3>1, <3>2 DEF WriteCompleted
  <2> QED BY <1>3, <2>1
        DEF WriteCompleted, QueueTyped, WorkerRows, TypeInv, TypeOK, CallsNamed, webhook, redis,
            notices
<1>4. CASE WriteFailed(w)
  <2>1. QueueTyped'
    BY <1>4, ThrewTyped DEF WriteFailed
  <2>2. log' \in [Updates -> LogStates]
    BY <1>0, <1>4 DEF WriteFailed, LogStates
  <2> QED BY <1>4, <2>1, <2>2
        DEF WriteFailed, QueueTyped, WorkerRows, TypeInv, TypeOK, CallsNamed, webhook, redis,
            notices
<1> QED
  BY <1>1, <1>2, <1>3, <1>4 DEF Work

LEMMA NextType == TypeInv /\ [Next]_vars => TypeInv'
<1> SUFFICES ASSUME TypeInv, [Next]_vars PROVE TypeInv'
  OBVIOUS
<1> USE DEF CallsNamed, WorkersNamed
<1>1. ASSUME NEW k \in Calls, HandleWebhook(k) PROVE TypeInv'
  BY <1>1, WebhookType
<1>2. ASSUME NEW k \in Calls, NEW u \in Updates, Deliver(k, u) PROVE TypeInv'
  <2> DEFINE row == [IdleCall EXCEPT !.at = "claim", !.update = u]
  <2>1. row \in CallRows /\ row.at = "claim" /\ row.update = u /\ answered \subseteq Updates
    BY DEF IdleCall, CallRows, CallSteps, TypeInv, TypeOK
  <2>2. call' = [call EXCEPT ![k] = row] /\ answered' = answered /\ origin' = origin
    BY <1>2 DEF Deliver
  <2> HIDE DEF row
  <2>3. CallsTyped'
    BY <2>1, <2>2, CallTyped
  <2> QED BY <1>2, <2>3
        DEF Deliver, CallsTyped, CallRows, TypeInv, TypeOK, notices, redis, queue, working
<1>3. ASSUME NEW s \in Users, OtherUpdate(s) \/ RateLapses(s) \/ MuteLapses(s) PROVE TypeInv'
  <2>1. CASE OtherUpdate(s)
    <3>1. rate' \in [Users -> Nat] /\ expiring' \subseteq Users
      BY <2>1 DEF OtherUpdate, TypeInv, TypeOK
    <3> QED BY <2>1, <3>1 DEF OtherUpdate, TypeInv, TypeOK, notices, queue, working
  <2>2. CASE RateLapses(s)
    BY <2>2 DEF RateLapses, TypeInv, TypeOK, notices, queue, working
  <2>3. CASE MuteLapses(s)
    BY <2>3 DEF MuteLapses, TypeInv, TypeOK, notices, queue, working
  <2> QED BY <1>3, <2>1, <2>2, <2>3
<1>4. ASSUME NEW w \in Workers, Work(w) PROVE TypeInv'
  BY <1>4, WorkType
<1>5. ASSUME NEW w \in Workers, Die(w) PROVE TypeInv'
  <2>1. worker' \in [Workers -> WorkerRows] /\ WorkersNamed'
    BY <1>5, IdleTyped DEF Die
  <2> QED BY <1>5, <2>1 DEF Die, WorkerRows, TypeInv, TypeOK, notices, queue, webhook, redis
<1>6. ASSUME NEW w \in Workers, NEW u \in Updates, PickUp(w, u) PROVE TypeInv'
  <2> DEFINE row == [at |-> "log", update |-> u]
  <2>1. row \in WorkerRows /\ row.update = u
    BY DEF WorkerRows
  <2>2. worker' \in [Workers -> WorkerRows] /\ WorkersNamed'
    BY <1>6, <2>1, WorkerTyped DEF PickUp
  <2> QED BY <1>6, <2>2 DEF PickUp, WorkerRows, TypeInv, TypeOK, notices, JobStates, webhook, redis
<1>7. ASSUME NEW u \in Updates,
             LoseClaim(u) \/ Stall(u) \/ RetryFailed(u) \/ Forget(u) \/ pruneTelegramUpdateLog(u)
      PROVE  TypeInv'
  <2>1. CASE LoseClaim(u)
    BY <2>1 DEF LoseClaim, TypeInv, TypeOK, notices, queue, working
  <2>2. CASE Stall(u)
    <3>0. /\ job \in [Updates -> JobStates] /\ stalls \in [Updates -> Nat]
          /\ holder \in [Updates -> Workers \cup {NoWorker}]
      BY DEF TypeInv, TypeOK, JobStates
    <3>1. \/ stalls' = [stalls EXCEPT ![u] = @ + 1] /\ job' = [job EXCEPT ![u] = "WAITING"]
          \/ stalls' = stalls /\ job' = [job EXCEPT ![u] = "FAILED"]
      BY <2>2 DEF Stall
    <3>2. {"WAITING", "FAILED"} \subseteq JobStates
      BY DEF JobStates
    <3>3. job' \in [Updates -> JobStates] /\ stalls' \in [Updates -> Nat]
      BY <3>0, <3>1, <3>2
    <3>4. holder' \in [Updates -> Workers \cup {NoWorker}]
      BY <2>2, <3>0 DEF Stall
    <3> QED BY <2>2, <3>3, <3>4
          DEF Stall, TypeInv, TypeOK, notices, JobStates, webhook, redis, working
  <2>3. CASE RetryFailed(u) \/ Forget(u)
    BY <2>3 DEF RetryFailed, Forget, TypeInv, TypeOK, notices, JobStates, webhook, redis, working
  <2>4. CASE pruneTelegramUpdateLog(u)
    BY <2>4 DEF pruneTelegramUpdateLog, TypeInv, TypeOK, notices, LogStates, webhook, redis, queue
  <2> QED BY <1>7, <2>1, <2>2, <2>3, <2>4
<1>8. CASE UNCHANGED vars
  BY <1>8 DEF vars, TypeInv, TypeOK, notices, redis, queue, history
<1> QED
  BY <1>1, <1>2, <1>3, <1>4, <1>5, <1>6, <1>7, <1>8 DEF Next

\* The types hold in every reachable state.
THEOREM TypeCorrect == Spec => []TypeOK
<1>1. TypeInv => TypeOK
  BY DEF TypeInv
<1> QED BY <1>1, InitType, NextType, PTL DEF Spec
-----------------------------------------------------------------------------
(* Handled at most once *)

\* Whoever may run the handler wrote the log row, alone, and nobody has run it yet.
Reserved ==
  \A w \in Workers : worker[w].at = "handle" =>
    /\ log[worker[w].update] # "NONE" /\ runs[worker[w].update] = 0
    /\ \A v \in Workers \ {w} :
         worker[v].at = "handle" => worker[v].update # worker[w].update

\* A handled update whose row is gone was over long before: nothing knows of it.
Forgotten == \A u \in Updates : log[u] = "NONE" /\ runs[u] > 0 => Idle(u)

OnceInv == Reserved /\ Forgotten /\ HandledAtMostOnce

\* Idle is for good: nothing brings an answered update back.
LEMMA IdleStays ==
  ASSUME TypeInv, NEW u \in Updates, Idle(u), [Next]_vars PROVE Idle(u)'
<1>0. u # NoUpdate /\ worker \in [Workers -> WorkerRows] /\ call \in [Calls -> CallRows]
  BY NothingAssumption DEF TypeInv, TypeOK, WorkerRows, CallRows
<1>1. ASSUME NEW k \in Calls, HandleWebhook(k) PROVE Idle(u)'
  <2>1. call[k].update # u
    BY DEF Idle
  <2>2. /\ call'[k].update \in {call[k].update, NoUpdate} /\ answered \subseteq answered'
        /\ \A i \in Calls \ {k} : call'[i] = call[i]
    <3>1. CASE GoOn(k, "add") \/ GoOn(k, "admit") \/ GoOn(k, "incr") \/ GoOn(k, "mute")
      BY <1>0, <3>1 DEF GoOn, CallRows
    <3>5. CASE Warn(k)
      BY <1>0, <3>5 DEF Warn, CallRows
    <3>2. CASE Answer(k)
      BY <1>0, <3>2 DEF Answer, IdleCall
    <3>3. CASE Incr(k)
      BY <1>0, <3>1, <3>3 DEF Incr, CallRows
    <3>4. CASE CallFails(k)
      BY <1>0, <3>4 DEF CallFails, IdleCall
    <3> QED BY <1>1, <3>1, <3>2, <3>3, <3>4, <3>5
          DEF HandleWebhook, Claim, Admit, Expire, Mute, AddWarning, AddJob
  <2>3. job'[u] = job[u] /\ worker' = worker
    <3>1. CASE AddJob(k)
      BY <2>1, <3>1 DEF AddJob, working, queue, TypeInv, TypeOK
    <3> QED BY <1>1, <3>1
          DEF HandleWebhook, Claim, Admit, Incr, Expire, Mute, AddWarning, CallFails, working, queue
  <2> QED BY <1>0, <2>1, <2>2, <2>3 DEF Idle
<1>2. ASSUME NEW k \in Calls, NEW v \in Updates, Deliver(k, v) PROVE Idle(u)'
  BY <1>0, <1>2 DEF Deliver, Idle, queue, working
<1>3. ASSUME NEW w \in Workers, Work(w) PROVE Idle(u)'
  <2>1. worker[w].update # u /\ worker[w].at # "idle" /\ UNCHANGED webhook
    BY <1>3 DEF Idle, Work, CreateLog, Handle, WriteCompleted, WriteFailed
  <2>2. /\ worker'[w].update \in {worker[w].update, NoUpdate} /\ job'[u] = job[u]
        /\ \A v \in Workers \ {w} : worker'[v] = worker[v]
    <3>1. CASE Completed(w)
      BY <1>0, <2>1, <3>1 DEF Completed, IdleWorker, TypeInv, TypeOK
    <3>2. CASE Threw(w)
      BY <1>0, <2>1, <3>2 DEF Threw, IdleWorker, TypeInv, TypeOK
    <3>3. CASE Step(w, "handle") \/ Step(w, "done") \/ Step(w, "fail")
      BY <1>0, <3>3 DEF Step, queue, WorkerRows
    <3> QED BY <1>3, <3>1, <3>2, <3>3 DEF Work, CreateLog, Handle, WriteCompleted, WriteFailed
  <2> QED BY <1>0, <2>1, <2>2 DEF Idle, webhook
<1>4. ASSUME NEW w \in Workers, Die(w) PROVE Idle(u)'
  BY <1>0, <1>4 DEF Die, Idle, IdleWorker, queue, webhook
<1>5. ASSUME NEW w \in Workers, NEW v \in Updates, PickUp(w, v) PROVE Idle(u)'
  <2>1. u # v
    BY <1>5 DEF PickUp, Idle
  <2> QED BY <1>0, <1>5, <2>1 DEF PickUp, Idle, webhook, TypeInv, TypeOK
<1>6. ASSUME NEW s \in Users, OtherUpdate(s) \/ RateLapses(s) \/ MuteLapses(s) PROVE Idle(u)'
  BY <1>6 DEF OtherUpdate, RateLapses, MuteLapses, Idle, queue, working
<1>7. ASSUME NEW v \in Updates,
             LoseClaim(v) \/ Stall(v) \/ RetryFailed(v) \/ Forget(v) \/ pruneTelegramUpdateLog(v)
      PROVE  Idle(u)'
  BY <1>7 DEF LoseClaim, Stall, RetryFailed, Forget, pruneTelegramUpdateLog, Idle, queue, working,
              webhook, TypeInv, TypeOK
<1>8. CASE UNCHANGED vars
  BY <1>8 DEF vars, queue, Idle
<1> QED
  BY <1>1, <1>2, <1>3, <1>4, <1>5, <1>6, <1>7, <1>8 DEF Next

\* Only the workers and the cleanup touch the log, the workers and the history.
LEMMA OthersLeaveWork ==
  ASSUME [Next]_vars
  PROVE  \/ \E w \in Workers : Work(w) \/ Die(w) \/ \E u \in Updates : PickUp(w, u)
         \/ \E u \in Updates : pruneTelegramUpdateLog(u)
         \/ UNCHANGED working
<1>1. ASSUME NEW k \in Calls, HandleWebhook(k) \/ \E u \in Updates : Deliver(k, u)
      PROVE  UNCHANGED working
  BY <1>1 DEF HandleWebhook, Deliver, Claim, Admit, Incr, Expire, Mute, AddWarning, AddJob,
              CallFails, working
<1>2. ASSUME NEW s \in Users, OtherUpdate(s) \/ RateLapses(s) \/ MuteLapses(s)
      PROVE  UNCHANGED working
  BY <1>2 DEF OtherUpdate, RateLapses, MuteLapses
<1>3. ASSUME NEW u \in Updates, LoseClaim(u) \/ Stall(u) \/ RetryFailed(u) \/ Forget(u)
      PROVE  UNCHANGED working
  BY <1>3 DEF LoseClaim, Stall, RetryFailed, Forget
<1> QED BY <1>1, <1>2, <1>3 DEF Next, vars, working, history

LEMMA NextOnce == TypeInv /\ OnceInv /\ [Next]_vars => OnceInv'
<1> SUFFICES ASSUME TypeInv, OnceInv, [Next]_vars PROVE OnceInv'
  OBVIOUS
<1>0. /\ worker \in [Workers -> WorkerRows] /\ log \in [Updates -> LogStates]
      /\ runs \in [Updates -> Nat] /\ WorkersNamed
  BY DEF TypeInv, TypeOK, WorkerRows
<1>1. \A u \in Updates : Idle(u) => Idle(u)'
  BY IdleStays
<1>2. ASSUME NEW w \in Workers, Work(w) PROVE OnceInv'
  <2> DEFINE u == worker[w].update
  <2>0. u \in Updates /\ ~Idle(u)
    BY <1>0, <1>2 DEF Work, CreateLog, Handle, WriteCompleted, WriteFailed, WorkersNamed, Idle
  <2>1. /\ \A v \in Workers \ {w} : worker'[v] = worker[v]
        /\ worker'[w].at # "handle" \/ Step(w, "handle")
        /\ worker'[w].at = "handle" => worker'[w].update = u
    <3>1. CASE Completed(w) \/ Threw(w)
      BY <1>0, <3>1 DEF Completed, Threw, IdleWorker
    <3>2. CASE Step(w, "handle") \/ Step(w, "done") \/ Step(w, "fail")
      BY <1>0, <3>2 DEF Step, WorkerRows
    <3> QED BY <1>2, <3>1, <3>2 DEF Work, CreateLog, Handle, WriteCompleted, WriteFailed
  <2>2. CASE /\ log[u] = "NONE" /\ log' = [log EXCEPT ![u] = "PROCESSING"]
             /\ Step(w, "handle") /\ CreateLog(w)
    <3>1. runs' = runs
      BY <2>2 DEF CreateLog
    <3>2. runs[u] = 0
      BY <1>0, <2>0, <2>2 DEF OnceInv, Forgotten
    <3>3. \A v \in Workers \ {w} : worker[v].at = "handle" => worker[v].update # u
      BY <2>2 DEF OnceInv, Reserved
    <3>4. Reserved'
      BY <1>0, <2>0, <2>1, <2>2, <3>1, <3>2, <3>3 DEF OnceInv, Reserved, WorkersNamed
    <3>5. Forgotten'
      BY <1>0, <1>1, <2>0, <2>2, <3>1 DEF OnceInv, Forgotten
    <3> QED BY <3>1, <3>4, <3>5 DEF OnceInv, HandledAtMostOnce
  <2>3. CASE /\ UNCHANGED runs /\ worker'[w].at # "handle"
             /\ log' = log \/ log' = [log EXCEPT ![u] = "COMPLETED"]
                \/ log' = [log EXCEPT ![u] = "FAILED"]
    <3>1. \A i \in Updates : log'[i] = "NONE" => log[i] = "NONE"
      BY <1>0, <2>0, <2>3
    <3>2. Reserved'
      BY <1>0, <2>1, <2>3, <3>1 DEF OnceInv, Reserved, WorkersNamed
    <3>3. Forgotten'
      BY <1>0, <1>1, <2>3, <3>1 DEF OnceInv, Forgotten
    <3> QED BY <2>3, <3>2, <3>3 DEF OnceInv, HandledAtMostOnce
  <2>4. CASE Handle(w) /\ runs' = [runs EXCEPT ![u] = @ + 1] /\ worker'[w].at # "handle"
    <3>1. log' = log /\ log[u] # "NONE" /\ runs[u] = 0
      BY <2>4 DEF Handle, OnceInv, Reserved
    <3>2. \A v \in Workers \ {w} : worker[v].at = "handle" => worker[v].update # u
      BY <2>4 DEF Handle, OnceInv, Reserved
    <3>3. Reserved'
      BY <1>0, <2>0, <2>1, <2>4, <3>1, <3>2 DEF OnceInv, Reserved, WorkersNamed
    <3>4. Forgotten'
      BY <1>0, <1>1, <2>0, <2>4, <3>1 DEF OnceInv, Forgotten
    <3> QED BY <1>0, <2>0, <2>4, <3>1, <3>3, <3>4 DEF OnceInv, HandledAtMostOnce
  <2>5. CASE CreateLog(w) /\ (Completed(w) \/ Threw(w)) /\ UNCHANGED log
    BY <1>0, <2>3, <2>5 DEF CreateLog, Completed, Threw, IdleWorker
  <2>6. CASE Handle(w)
    <3>1. worker'[w].at # "handle"
      BY <1>0, <2>6 DEF Handle, Step, WorkerRows
    <3> QED BY <2>3, <2>4, <2>6, <3>1 DEF Handle
  <2>7. CASE WriteCompleted(w) \/ WriteFailed(w)
    <3>1. worker'[w].at # "handle"
      BY <1>0, <2>7 DEF WriteCompleted, WriteFailed, Completed, Threw, Step, WorkerRows, IdleWorker
    <3> QED BY <2>3, <2>7, <3>1 DEF WriteCompleted, WriteFailed
  <2> QED BY <1>2, <2>2, <2>5, <2>6, <2>7 DEF Work, CreateLog
<1>3. ASSUME NEW w \in Workers, Die(w) \/ \E u \in Updates : PickUp(w, u) PROVE OnceInv'
  <2>1. /\ worker'[w].at # "handle" /\ \A v \in Workers \ {w} : worker'[v] = worker[v]
        /\ UNCHANGED <<log, runs>>
    BY <1>0, <1>3 DEF Die, PickUp, IdleWorker
  <2> QED BY <1>0, <1>1, <2>1 DEF OnceInv, Reserved, Forgotten, HandledAtMostOnce, WorkersNamed
<1>4. ASSUME NEW u \in Updates, pruneTelegramUpdateLog(u) PROVE OnceInv'
  <2>1. worker' = worker /\ runs' = runs /\ log' = [log EXCEPT ![u] = "NONE"] /\ Idle(u)
    BY <1>4 DEF pruneTelegramUpdateLog
  <2>2. Reserved'
    BY <1>0, <2>1 DEF OnceInv, Reserved, WorkersNamed, Idle
  <2>3. Forgotten'
    BY <1>0, <1>1, <2>1 DEF OnceInv, Forgotten
  <2> QED BY <2>1, <2>2, <2>3 DEF OnceInv, HandledAtMostOnce
<1>5. CASE UNCHANGED working
  BY <1>1, <1>5 DEF working, OnceInv, Reserved, Forgotten, HandledAtMostOnce
<1> QED
  BY <1>2, <1>3, <1>4, <1>5, OthersLeaveWork

\* However often an update is delivered, queued, retried or taken back from a worker,
\* and whatever Redis forgets, its handler runs at most once.
THEOREM AtMostOnce == Spec => []HandledAtMostOnce
<1>1. Init => OnceInv
  BY DEF Init, OnceInv, Reserved, Forgotten, HandledAtMostOnce, IdleWorker
<1>2. OnceInv => HandledAtMostOnce
  BY DEF OnceInv
<1> QED BY <1>1, <1>2, InitType, NextType, NextOnce, PTL DEF Spec
-----------------------------------------------------------------------------
(* What a retry cannot make good *)

\* An update nobody handled, whose log row is there although no worker is about to
\* handle it: the worker that wrote the row died, or the bot was not connected.  When
\* the row is pruned, everybody has done with it.
Lost(u) ==
  /\ runs[u] = 0
  /\ \/ log[u] # "NONE" /\ \A w \in Workers : worker[w].at = "handle" => worker[w].update # u
     \/ Idle(u)

LostForGood == [][\A u \in Updates : Lost(u) => Lost(u)']_vars

LEMMA NextLost ==
  ASSUME TypeInv, [Next]_vars, NEW u \in Updates, Lost(u) PROVE Lost(u)'
<1>0. /\ worker \in [Workers -> WorkerRows] /\ log \in [Updates -> LogStates]
      /\ runs \in [Updates -> Nat] /\ WorkersNamed
  BY DEF TypeInv, TypeOK, WorkerRows
<1>1. Idle(u) => Idle(u)'
  BY IdleStays
<1>2. ASSUME NEW w \in Workers, Work(w) PROVE Lost(u)'
  <2>0. worker[w].at # "idle" /\ worker[w].update \in Updates /\ (Idle(u) => worker[w].update # u)
    BY <1>0, <1>2 DEF Work, CreateLog, Handle, WriteCompleted, WriteFailed, WorkersNamed, Idle
  <2>1. /\ \A v \in Workers \ {w} : worker'[v] = worker[v]
        /\ worker'[w].at = "handle" => CreateLog(w) /\ worker'[w].update = worker[w].update
    <3>1. CASE Completed(w) \/ Threw(w)
      BY <1>0, <3>1 DEF Completed, Threw, IdleWorker
    <3>2. CASE Step(w, "done") \/ Step(w, "fail")
      BY <1>0, <3>2 DEF Step, WorkerRows
    <3>3. CASE CreateLog(w) /\ Step(w, "handle")
      BY <1>0, <3>3 DEF Step, WorkerRows
    <3> QED BY <1>2, <3>1, <3>2, <3>3 DEF Work, CreateLog, Handle, WriteCompleted, WriteFailed
  <2>2. worker'[w].at = "handle" => log[worker[w].update] = "NONE"
    <3>1. CASE Completed(w) \/ Threw(w)
      BY <1>0, <3>1 DEF Completed, Threw, IdleWorker
    <3> QED BY <2>1, <3>1 DEF CreateLog
  <2>3. log[u] # "NONE" => log'[u] # "NONE"
    BY <1>0, <1>2, <2>0 DEF Work, CreateLog, Handle, WriteCompleted, WriteFailed
  <2>4. runs'[u] = 0
    <3>1. CASE Handle(w)
      BY <1>0, <2>0, <3>1 DEF Handle, Lost
    <3> QED BY <1>2, <3>1 DEF Work, CreateLog, WriteCompleted, WriteFailed, Lost
  <2> QED BY <1>1, <2>0, <2>1, <2>2, <2>3, <2>4 DEF Lost
<1>3. ASSUME NEW w \in Workers, Die(w) \/ \E v \in Updates : PickUp(w, v) PROVE Lost(u)'
  <2>1. /\ worker'[w].at # "handle" /\ \A v \in Workers \ {w} : worker'[v] = worker[v]
        /\ UNCHANGED <<log, runs>>
    BY <1>0, <1>3 DEF Die, PickUp, IdleWorker
  <2> QED BY <1>1, <2>1 DEF Lost
<1>4. ASSUME NEW v \in Updates, pruneTelegramUpdateLog(v) PROVE Lost(u)'
  <2>1. /\ worker' = worker /\ runs' = runs /\ log' = [log EXCEPT ![v] = "NONE"]
        /\ u = v => Idle(u)
    BY <1>4 DEF pruneTelegramUpdateLog
  <2> QED BY <1>0, <1>1, <2>1 DEF Lost
<1>5. CASE UNCHANGED working
  BY <1>1, <1>5 DEF working, Lost
<1> QED
  BY <1>2, <1>3, <1>4, <1>5, OthersLeaveWork

\* The other side of handling at most once: an update that was logged and then not
\* handled is never handled any more, however often the queue or staff retry its job.
THEOREM RetriesDoNotRepair == Spec => LostForGood
<1>1. TypeInv /\ [Next]_vars => \A u \in Updates : Lost(u) => Lost(u)'
  BY NextLost
<1> QED BY <1>1, InitType, NextType, PTL DEF Spec, LostForGood
-----------------------------------------------------------------------------
(* One notice per mute *)

Warning(k) == call[k].at = "warn"
Whom(k) == origin[call[k].update]

\* No notice, queued or about to be, is of a mute that is yet to come.
Numbered ==
  /\ \A x \in told : x[2] <= mutes[x[1]]
  /\ \A k \in Calls : Warning(k) => call[k].mute <= mutes[Whom(k)]

NoticeInv == Numbered /\ OneNoticePerMute

\* Without a call that begins to warn there is nothing new to queue.
LEMMA NoNewWarning ==
  ASSUME TypeInv, NoticeInv, UNCHANGED origin, mutes' \in [Users -> Nat],
         \A s \in Users : mutes[s] <= mutes'[s],
         \A k \in Calls : Warning(k)' => Warning(k) /\ call'[k] = call[k],
         told' = told
  PROVE  NoticeInv'
<1>1. told \subseteq Users \X Nat /\ mutes \in [Users -> Nat] /\ call \in [Calls -> CallRows]
  BY DEF TypeInv, TypeOK, CallRows
<1>2. ASSUME NEW x \in told PROVE x[2] <= mutes'[x[1]]
  <2>1. x[1] \in Users /\ x[2] \in Nat /\ x[2] <= mutes[x[1]]
    BY <1>1, <1>2 DEF NoticeInv, Numbered
  <2>2. mutes[x[1]] <= mutes'[x[1]] /\ mutes[x[1]] \in Nat /\ mutes'[x[1]] \in Nat
    BY <1>1, <2>1
  <2> QED BY <2>1, <2>2
<1>3. ASSUME NEW k \in Calls, Warning(k)' PROVE call'[k].mute <= mutes'[Whom(k)']
  <2>1. Warning(k) /\ call'[k] = call[k] /\ Whom(k)' = Whom(k)
    BY <1>3 DEF Whom
  <2>2. Whom(k) \in Users /\ call[k].mute \in Nat
    BY <1>1, <2>1 DEF TypeInv, CallsNamed, Warning, Whom, CallRows
  <2>3. call[k].mute <= mutes[Whom(k)]
    BY <2>1 DEF NoticeInv, Numbered
  <2>4. mutes[Whom(k)] <= mutes'[Whom(k)]
        /\ mutes[Whom(k)] \in Nat /\ mutes'[Whom(k)] \in Nat
    BY <1>1, <2>2
  <2> QED BY <2>1, <2>2, <2>3, <2>4
<1>4. OneNoticePerMute'
  BY DEF NoticeInv, OneNoticePerMute, Warning
<1> QED BY <1>2, <1>3, <1>4 DEF NoticeInv, Numbered

\* The winner of SET NX has a number that nobody had before.
LEMMA WinnerWarns ==
  ASSUME TypeInv, NoticeInv, NEW k \in Calls, call[k].at = "mute", UNCHANGED <<origin, told>>,
         Whom(k) \notin muted, CountMute(Whom(k)), Warn(k)
  PROVE  NoticeInv'
<1> DEFINE s == Whom(k)
           n == mutes[s] + 1
<1>1. told \subseteq Users \X Nat /\ mutes \in [Users -> Nat] /\ call \in [Calls -> CallRows]
  BY DEF TypeInv, TypeOK, CallRows
<1>2. s \in Users
  BY DEF TypeInv, CallsNamed, Whom
<1>3. mutes' = [mutes EXCEPT ![s] = @ + 1] /\ mutes'[s] = n /\ mutes[s] \in Nat
  BY <1>1, <1>2 DEF CountMute
<1>4. /\ \A j \in Calls \ {k} : call'[j] = call[j]
      /\ call'[k].at = "warn" /\ call'[k].update = call[k].update /\ call'[k].mute = n
  BY <1>1, <1>3 DEF Warn, Whom, CallRows
<1>5. \A j \in Calls : Whom(j)' = Whom(j)
  BY <1>4 DEF Whom
<1> HIDE DEF s
<1>6. ASSUME NEW x \in told PROVE x[2] <= mutes'[x[1]] /\ x # <<s, n>>
  <2>1. x[1] \in Users /\ x[2] \in Nat /\ x[2] <= mutes[x[1]] /\ mutes[x[1]] \in Nat
    BY <1>1, <1>6 DEF NoticeInv, Numbered
  <2>2. mutes'[x[1]] = IF x[1] = s THEN n ELSE mutes[x[1]]
    BY <1>1, <1>3, <2>1
  <2>3. x[1] = s => x[2] <= mutes[s] /\ x[2] # n
    BY <1>3, <2>1
  <2> QED BY <2>1, <2>2, <2>3
<1>7. ASSUME NEW j \in Calls \ {k}, Warning(j)
      PROVE  call[j].mute <= mutes'[Whom(j)] /\ (Whom(j) = s => call[j].mute # n)
  <2>1. Whom(j) \in Users /\ call[j].mute \in Nat
    BY <1>1, <1>7 DEF TypeInv, CallsNamed, Warning, Whom, CallRows
  <2>2. call[j].mute <= mutes[Whom(j)] /\ mutes[Whom(j)] \in Nat
    BY <1>1, <1>7, <2>1 DEF NoticeInv, Numbered
  <2>3. mutes'[Whom(j)] = IF Whom(j) = s THEN n ELSE mutes[Whom(j)]
    BY <1>1, <1>3, <2>1
  <2>4. Whom(j) = s => call[j].mute <= mutes[s]
    BY <2>2
  <2> QED BY <1>3, <2>1, <2>2, <2>3, <2>4
<1>8. Numbered'
  <2>1. \A x \in told' : x[2] <= mutes'[x[1]]
    BY <1>6
  <2>2. ASSUME NEW j \in Calls, Warning(j)' PROVE call'[j].mute <= mutes'[Whom(j)']
    <3>1. CASE j = k
      BY <1>3, <1>4, <1>5, <3>1 DEF s
    <3>2. CASE j # k
      BY <1>4, <1>5, <1>7, <2>2, <3>2 DEF Warning
    <3> QED BY <3>1, <3>2
  <2> QED BY <2>1, <2>2 DEF Numbered
<1>9. OneNoticePerMute'
  <2> SUFFICES ASSUME NEW i \in Calls, Warning(i)'
               PROVE  /\ <<Whom(i)', call'[i].mute>> \notin told'
                      /\ \A j \in Calls \ {i} : Warning(j)' /\ Whom(j)' = Whom(i)' =>
                           call'[j].mute # call'[i].mute
    BY DEF OneNoticePerMute, Warning, Whom
  <2>1. CASE i = k
    <3>1. Whom(i)' = s /\ call'[i].mute = n
      BY <1>4, <1>5, <2>1 DEF s
    <3>2. \A j \in Calls \ {k} : Warning(j)' => Warning(j) /\ call'[j] = call[j]
      BY <1>4 DEF Warning
    <3> QED BY <1>5, <1>6, <1>7, <2>1, <3>1, <3>2
  <2>2. CASE i # k
    <3>1. Warning(i) /\ call'[i] = call[i] /\ Whom(i)' = Whom(i)
      BY <1>4, <1>5, <2>2 DEF Warning
    <3>2. <<Whom(i), call[i].mute>> \notin told
      BY <3>1 DEF NoticeInv, OneNoticePerMute, Warning, Whom
    <3>3. ASSUME NEW j \in Calls \ {i}, Warning(j)', Whom(j)' = Whom(i)'
          PROVE  call'[j].mute # call'[i].mute
      <4>1. CASE j = k
        BY <1>4, <1>5, <1>7, <2>2, <3>1, <3>3, <4>1 DEF s
      <4>2. CASE j # k
        <5>1. Warning(j) /\ call'[j] = call[j] /\ Whom(j) = Whom(i)
          BY <1>4, <1>5, <3>1, <3>3, <4>2 DEF Warning
        <5> QED BY <3>1, <3>3, <5>1 DEF NoticeInv, OneNoticePerMute, Warning, Whom
      <4> QED BY <4>1, <4>2
    <3> QED BY <3>1, <3>2, <3>3
  <2> QED BY <2>1, <2>2
<1> QED BY <1>8, <1>9 DEF NoticeInv

\* A notice that is queued is no longer about to be.
LEMMA NoticeQueued ==
  ASSUME TypeInv, NoticeInv, NEW k \in Calls, AddWarning(k) PROVE NoticeInv'
<1>1. call \in [Calls -> CallRows] /\ Warning(k)
  BY DEF TypeInv, TypeOK, CallRows, AddWarning, Warning
<1>2. /\ told' = told \cup {<<Whom(k), call[k].mute>>} /\ mutes' = mutes /\ origin' = origin
      /\ call' = [call EXCEPT ![k] = IdleCall]
  BY DEF AddWarning, Answer, Whom
<1>3. \A j \in Calls : Warning(j)' => j # k /\ Warning(j) /\ call'[j] = call[j]
  BY <1>1, <1>2 DEF Warning, IdleCall
<1>4. Numbered'
  BY <1>1, <1>2, <1>3 DEF NoticeInv, Numbered, Whom
<1>5. OneNoticePerMute'
  <2> SUFFICES ASSUME NEW i \in Calls, Warning(i)'
               PROVE  /\ <<Whom(i)', call'[i].mute>> \notin told'
                      /\ \A j \in Calls \ {i} : Warning(j)' /\ Whom(j)' = Whom(i)' =>
                           call'[j].mute # call'[i].mute
    BY DEF OneNoticePerMute, Warning, Whom
  <2>1. i # k /\ Warning(i) /\ call'[i] = call[i] /\ Whom(i)' = Whom(i)
    BY <1>2, <1>3 DEF Whom
  <2>2. <<Whom(i), call[i].mute>> \notin told
    BY <2>1 DEF NoticeInv, OneNoticePerMute, Warning, Whom
  <2>3. Whom(k) = Whom(i) => call[k].mute # call[i].mute
    BY <1>1, <2>1 DEF NoticeInv, OneNoticePerMute, Warning, Whom
  <2>4. ASSUME NEW j \in Calls \ {i}, Warning(j)', Whom(j)' = Whom(i)'
        PROVE  call'[j].mute # call'[i].mute
    <3>1. Warning(j) /\ call'[j] = call[j] /\ Whom(j) = Whom(i)
      BY <1>2, <1>3, <2>1, <2>4 DEF Whom
    <3> QED BY <2>1, <2>4, <3>1 DEF NoticeInv, OneNoticePerMute, Warning, Whom
  <2> QED BY <1>2, <2>1, <2>2, <2>3, <2>4
<1> QED BY <1>4, <1>5 DEF NoticeInv

LEMMA NextNotice == TypeInv /\ NoticeInv /\ [Next]_vars => NoticeInv'
<1> SUFFICES ASSUME TypeInv, NoticeInv, [Next]_vars PROVE NoticeInv'
  OBVIOUS
<1>0. call \in [Calls -> CallRows] /\ mutes \in [Users -> Nat]
  BY DEF TypeInv, TypeOK, CallRows
<1>1. ASSUME NEW k \in Calls, HandleWebhook(k) PROVE NoticeInv'
  <2> DEFINE Ends == /\ \A j \in Calls \ {k} : call'[j] = call[j]
                     /\ ~Warning(k)'
  <2>1. ASSUME NEW step \in CallSteps \ {"warn"}, GoOn(k, step) PROVE Ends
    BY <1>0, <2>1 DEF GoOn, CallRows, Warning
  <2>2. Answer(k) \/ CallFails(k) => Ends
    BY <1>0 DEF Answer, CallFails, IdleCall, Warning
  <2>3. Incr(k) => Ends
    BY <1>0, <2>1 DEF Incr, CallRows, CallSteps, Warning
  <2>4. ASSUME Ends, UNCHANGED <<origin, told>>,
               mutes' = mutes \/ (CountMute(Whom(k)) /\ Whom(k) \in Users)
        PROVE  NoticeInv'
    <3>1. mutes' \in [Users -> Nat] /\ \A s \in Users : mutes[s] <= mutes'[s]
      BY <1>0, <2>4 DEF CountMute
    <3>2. \A j \in Calls : Warning(j)' => Warning(j) /\ call'[j] = call[j]
      BY <2>4 DEF Warning
    <3> QED BY <2>4, <3>1, <3>2, NoNewWarning
  <2>5. CASE Claim(k) \/ Admit(k) \/ Incr(k) \/ Expire(k) \/ AddJob(k) \/ CallFails(k)
    <3>1. Ends
      BY <2>1, <2>2, <2>3, <2>5 DEF Claim, Admit, Expire, AddJob, CallSteps
    <3>2. UNCHANGED <<origin, notices>>
      BY <2>5 DEF Claim, Admit, Incr, Expire, AddJob, CallFails
    <3>3. UNCHANGED <<origin, told>> /\ mutes' = mutes
      BY <3>2 DEF notices
    <3> HIDE DEF Ends
    <3> QED BY <2>4, <3>1, <3>3
  <2>6. CASE AddWarning(k)
    BY <2>6, NoticeQueued
  <2>7. CASE Mute(k)
    <3>1. call[k].at = "mute" /\ UNCHANGED <<origin, told>> /\ Whom(k) \in Users
      BY <2>7 DEF Mute, TypeInv, CallsNamed, Whom
    <3>2. CASE Warn(k) /\ Whom(k) \notin muted /\ CountMute(Whom(k))
      BY <3>1, <3>2, WinnerWarns
    <3>3. CASE /\ GoOn(k, "add") \/ Answer(k)
               /\ mutes' = mutes \/ CountMute(Whom(k))
      <4>1. Ends
        BY <2>1, <2>2, <3>3 DEF CallSteps
      <4> HIDE DEF Ends
      <4> QED BY <2>4, <3>1, <3>3, <4>1
    <3> QED BY <2>7, <3>2, <3>3 DEF Mute, Whom
  <2> HIDE DEF Ends
  <2> QED BY <1>1, <2>5, <2>6, <2>7 DEF HandleWebhook
<1>2. ASSUME NEW k \in Calls, NEW u \in Updates, Deliver(k, u) PROVE NoticeInv'
  <2>1. \A j \in Calls : Warning(j)' => Warning(j) /\ call'[j] = call[j]
    BY <1>0, <1>2 DEF Deliver, Warning, IdleCall
  <2>2. UNCHANGED <<origin, notices>>
    BY <1>2 DEF Deliver
  <2> QED BY <1>0, <2>1, <2>2, NoNewWarning DEF notices
<1>3. CASE UNCHANGED <<origin, call, notices>>
  BY <1>3 DEF NoticeInv, Numbered, OneNoticePerMute, Warning, Whom, notices
<1>4. ASSUME NEW s \in Users, OtherUpdate(s) \/ RateLapses(s) \/ MuteLapses(s)
      PROVE  UNCHANGED <<origin, call, notices>>
  BY <1>4 DEF OtherUpdate, RateLapses, MuteLapses
<1>5. ASSUME NEW w \in Workers, Work(w) \/ Die(w) \/ \E u \in Updates : PickUp(w, u)
      PROVE  UNCHANGED <<origin, call, notices>>
  BY <1>5 DEF Work, CreateLog, Handle, WriteCompleted, WriteFailed, Die, PickUp, webhook
<1>6. ASSUME NEW u \in Updates,
             LoseClaim(u) \/ Stall(u) \/ RetryFailed(u) \/ Forget(u) \/ pruneTelegramUpdateLog(u)
      PROVE  UNCHANGED <<origin, call, notices>>
  BY <1>6 DEF LoseClaim, Stall, RetryFailed, Forget, pruneTelegramUpdateLog, webhook
<1>7. UNCHANGED vars => UNCHANGED <<origin, call, notices>>
  BY DEF vars, history
<1> QED
  BY <1>1, <1>2, <1>3, <1>4, <1>5, <1>6, <1>7 DEF Next

\* Of any number of updates that pass the counter at the same moment the one that sets
\* the key alone gets to queue the notice: it rests on SET NX, which gives every mute a
\* number that no other notice, queued or about to be, has.
THEOREM OneNoticeEach == Spec => []OneNoticePerMute
<1>1. Init => NoticeInv
  BY DEF Init, NoticeInv, Numbered, OneNoticePerMute, Warning, IdleCall
<1>2. NoticeInv => OneNoticePerMute
  BY DEF NoticeInv
<1> QED BY <1>1, <1>2, InitType, NextType, NextNotice, PTL DEF Spec
=============================================================================
