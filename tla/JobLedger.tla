----------------------------- MODULE JobLedger -----------------------------
(***************************************************************************)
(* The permanent job ledger (modules/jobs/services.py), the dispatch a web *)
(* process runs after commit, the Celery broker, and the workers running   *)
(* execute_job (modules/jobs/tasks.py).                                    *)
(*                                                                         *)
(* One action is one database transaction, or one unlocked read, or one    *)
(* exchange with the broker: these are the points between which the        *)
(* processes of GeoPortalX interleave, and the points at which one dies.   *)
(***************************************************************************)
EXTENDS Integers, Sequences

CONSTANTS
  Jobs,             \* rows the ledger may come to hold
  Workers,          \* Celery worker processes
  NoJob,            \* what a worker that runs no task holds
  RetryLimits,      \* values of max_retries a creator may choose
  Script,           \* progress values a handler reports, in order
  Top,              \* stands for 100 percent
  HandlerFaults,    \* exceptions a handler may raise by itself
  MaxWebCrashes,    \* bound: web processes lost between commit and publish
  MaxWorkerCrashes, \* bound: worker processes lost
  MaxTimeLimits,    \* bound: tasks killed by the hard time limit
  MaxPublishFaults, \* bound: publications to the broker that raise
  MaxRedeliveries   \* bound: unacknowledged messages delivered once more

ASSUME ConstantsAssumption ==
  /\ NoJob \notin Jobs
  /\ RetryLimits \subseteq 0..20
  /\ Top \in Nat /\ Top > 1
  /\ Script \in Seq(1..(Top - 1))
  /\ HandlerFaults \subseteq {"RetryableJobError", "Exception"}
  /\ MaxWebCrashes \in Nat /\ MaxWorkerCrashes \in Nat
  /\ MaxTimeLimits \in Nat /\ MaxPublishFaults \in Nat /\ MaxRedeliveries \in Nat

VARIABLES
  job,       \* the ledger: one row per job
  dispatch,  \* where the creating web process stands with a job
  queue,     \* copies of a job's message waiting at the broker
  pc,        \* where execute_job stands in a worker
  task,      \* the job a worker has a message of
  seen,      \* the progress that worker read before it locked the row
  step,      \* progress reports its handler has made
  exc,       \* error code of the exception being handled
  faults     \* failures of each kind so far

brokerVars == <<queue>>
workerVars == <<pc, task, seen, step, exc>>
vars == <<job, dispatch, queue, pc, task, seen, step, exc, faults>>

-----------------------------------------------------------------------------
(* The rows. "ABSENT" is a row not inserted yet.                           *)

Terminal == {"SUCCEEDED", "FAILED", "CANCELLED"}
Waiting  == {"PENDING", "QUEUED", "RETRYING"}
Status   == Terminal \union Waiting \union {"RUNNING", "ABSENT"}

(* Mutant: a running job may be started again. *)
AllowedTransitionsReentrant ==
  [s \in Status |->
     CASE s = "PENDING"  -> {"QUEUED", "CANCELLED"}
       [] s = "QUEUED"   -> {"RUNNING", "FAILED", "CANCELLED"}
       [] s = "RUNNING"  -> {"RUNNING", "RETRYING", "SUCCEEDED", "FAILED",
                             "CANCELLED"}
       [] s = "RETRYING" -> {"RUNNING", "FAILED", "CANCELLED"}
       [] OTHER          -> {}]

AllowedTransitions ==
  [s \in Status |->
     CASE s = "PENDING"  -> {"QUEUED", "CANCELLED"}
       [] s = "QUEUED"   -> {"RUNNING", "FAILED", "CANCELLED"}
       [] s = "RUNNING"  -> {"RETRYING", "SUCCEEDED", "FAILED", "CANCELLED"}
       [] s = "RETRYING" -> {"RUNNING", "FAILED", "CANCELLED"}
       [] OTHER          -> {}]

ErrorCode == {"NO_ERROR", "JOB_DISPATCH_FAILED",
              "JOB_RETRY_LIMIT_EXCEEDED",
              "RETRYABLE_ERROR", "VALUEERROR", "EXCEPTION"}

Row == [status     : Status,
        progress   : 0..Top,
        retryCount : 0..20,
        maxRetries : 0..20,
        cancel     : BOOLEAN,   \* cancellation_requested_at is set
        finished   : BOOLEAN,   \* finished_at is set
        taskId     : BOOLEAN,   \* celery_task_id is set
        error      : ErrorCode]

NoRow == [status |-> "ABSENT", progress |-> 0, retryCount |-> 0,
          maxRetries |-> 0, cancel |-> FALSE, finished |-> FALSE,
          taskId |-> FALSE, error |-> "NO_ERROR"]

(* The services that write a row, as functions of the locked row. Raising  *)
(* inside the transaction rolls it back, so it is returning the row as is. *)

CanEnter(row, target) == target \in AllowedTransitions[row.status]

(* Mutant: the transition table is not consulted.                          *)
TransitionedUnchecked(row, target, error) ==
  [row EXCEPT
     !.status   = target,
     !.finished = IF target \in Terminal THEN TRUE ELSE @,
     !.progress = IF target = "SUCCEEDED" THEN Top ELSE @,
     !.error    = IF target = "FAILED" THEN error ELSE "NO_ERROR"]

(* transition_job; only FAILED keeps an error code. *)
Transitioned(row, target, error) ==
  IF CanEnter(row, target)
    THEN [row EXCEPT
            !.status   = target,
            !.finished = IF target \in Terminal THEN TRUE ELSE @,
            !.progress = IF target = "SUCCEEDED" THEN Top ELSE @,
            !.error    = IF target = "FAILED" THEN error ELSE "NO_ERROR"]
    ELSE row

(* transition_job to RUNNING, with the progress it is told to write. *)
Started(row, progress) ==
  IF CanEnter(row, "RUNNING")
    THEN [row EXCEPT !.status = "RUNNING", !.progress = progress,
                     !.error = "NO_ERROR"]
    ELSE row

(* mark_job_queued *)
Queued(row) ==
  IF row.status = "PENDING"
    THEN [row EXCEPT !.status = "QUEUED", !.taskId = TRUE]
    ELSE row

(* Mutants: a cancelled job may report; a report may go back.              *)
CanReportCancelled(row, value) ==
  row.status = "RUNNING" /\ row.progress <= value

CanReportBackwards(row, value) ==
  row.status = "RUNNING" /\ ~row.cancel

(* report_job_progress accepts a report. *)
CanReport(row, value) ==
  row.status = "RUNNING" /\ ~row.cancel /\ row.progress <= value

Reported(row, value) ==
  IF CanReport(row, value) THEN [row EXCEPT !.progress = value] ELSE row

(* mark_job_retrying *)
CanRetry(row) ==
  row.status = "RUNNING" /\ ~row.cancel /\ row.retryCount < row.maxRetries

Retried(row) ==
  IF CanRetry(row)
    THEN [row EXCEPT !.status = "RETRYING", !.retryCount = @ + 1,
                     !.error = "RETRYABLE_ERROR"]
    ELSE row

(* Mutant: finished jobs are not left alone. *)
CancellationRequestedLate(row) ==
  IF row.status = "RUNNING" THEN [row EXCEPT !.cancel = TRUE]
    ELSE IF row.status = "ABSENT" THEN row
    ELSE [row EXCEPT !.cancel = TRUE, !.status = "CANCELLED",
                     !.finished = TRUE]

(* request_job_cancellation *)
CancellationRequested(row) ==
  IF row.status \in Waiting
    THEN [row EXCEPT !.cancel = TRUE, !.status = "CANCELLED",
                     !.finished = TRUE]
    ELSE IF row.status = "RUNNING" THEN [row EXCEPT !.cancel = TRUE]
    ELSE row

(* acknowledge_job_cancellation *)
CancellationAcknowledged(row) ==
  IF row.status \in {"RUNNING", "RETRYING"} /\ row.cancel
    THEN [row EXCEPT !.status = "CANCELLED", !.finished = TRUE]
    ELSE row

(* Job.objects.create with the retry limit the creator chose. *)
Created(limit) == [NoRow EXCEPT !.status = "PENDING", !.maxRetries = limit]

Write(j, row) == job' = [job EXCEPT ![j] = row]

FaultKind == {"web", "worker", "timelimit", "publish", "redelivery"}

Fault(kind) == faults' = [faults EXCEPT ![kind] = @ + 1]

Init ==
  /\ job      = [j \in Jobs |-> NoRow]
  /\ dispatch = [j \in Jobs |-> "none"]
  /\ queue    = [j \in Jobs |-> 0]
  /\ pc       = [w \in Workers |-> "idle"]
  /\ task     = [w \in Workers |-> NoJob]
  /\ seen     = [w \in Workers |-> 0]
  /\ step     = [w \in Workers |-> 0]
  /\ exc      = [w \in Workers |-> "NO_ERROR"]
  /\ faults   = [k \in FaultKind |-> 0]

-----------------------------------------------------------------------------
(* The web process: create_and_dispatch_job, then dispatch_job on commit.  *)

CreateJob(j) ==
  /\ job[j].status = "ABSENT"
  /\ \E limit \in RetryLimits : Write(j, Created(limit))
  /\ dispatch' = [dispatch EXCEPT ![j] = "committed"]
  /\ UNCHANGED <<brokerVars, workerVars, faults>>

(* mark_job_queued: a job cancelled meanwhile is not queued (ValueError).  *)
MarkQueued(j) ==
  /\ dispatch[j] = "committed"
  /\ Write(j, Queued(job[j]))
  /\ dispatch' = [dispatch EXCEPT ![j] =
                    IF job[j].status = "PENDING" THEN "queued" ELSE "done"]
  /\ UNCHANGED <<brokerVars, workerVars, faults>>

Publish(j) ==
  /\ dispatch[j] = "queued"
  /\ queue' = [queue EXCEPT ![j] = @ + 1]
  /\ dispatch' = [dispatch EXCEPT ![j] = "done"]
  /\ UNCHANGED <<job, workerVars, faults>>

(* apply_async raises: the broker may or may not have taken the message.   *)
PublishRaises(j) ==
  /\ dispatch[j] = "queued"
  /\ faults["publish"] < MaxPublishFaults
  /\ Fault("publish")
  /\ \E delivered \in 0..1 : queue' = [queue EXCEPT ![j] = @ + delivered]
  /\ dispatch' = [dispatch EXCEPT ![j] = "failing"]
  /\ UNCHANGED <<job, workerVars>>

RecordDispatchFailure(j) ==
  /\ dispatch[j] = "failing"
  /\ Write(j, Transitioned(job[j], "FAILED", "JOB_DISPATCH_FAILED"))
  /\ dispatch' = [dispatch EXCEPT ![j] = "done"]
  /\ UNCHANGED <<brokerVars, workerVars, faults>>

WebCrash(j) ==
  /\ dispatch[j] \in {"committed", "queued", "failing"}
  /\ faults["web"] < MaxWebCrashes
  /\ Fault("web")
  /\ dispatch' = [dispatch EXCEPT ![j] = "done"]
  /\ UNCHANGED <<job, brokerVars, workerVars>>

(* A user allowed to cancel the job does so, at any time and repeatedly.   *)
RequestCancellation(j) ==
  /\ job[j].status # "ABSENT"
  /\ Write(j, CancellationRequested(job[j]))
  /\ UNCHANGED <<dispatch, brokerVars, workerVars, faults>>

-----------------------------------------------------------------------------
(* Workers. "acking" is between the last commit of execute_job and the     *)
(* late acknowledgement of its message.                                    *)

Become(w, label) ==
  pc' = [pc EXCEPT ![w] = label]

(* A message is taken and the row read without a lock. A job that is       *)
(* finished, already running or not queued is acknowledged at once.        *)
Deliver(w, j) ==
  /\ pc[w] = "idle" /\ queue[j] > 0
  /\ queue' = [queue EXCEPT ![j] = @ - 1]
  /\ IF job[j].status \in {"QUEUED", "RETRYING"}
       THEN /\ Become(w, IF job[j].cancel THEN "cancelling" ELSE "starting")
            /\ task' = [task EXCEPT ![w] = j]
            /\ seen' = [seen EXCEPT ![w] = job[j].progress]
       ELSE UNCHANGED <<pc, task, seen>>
  /\ UNCHANGED <<job, dispatch, step, exc, faults>>

(* A worker that holds the revocation of the task drops the message. The   *)
(* command is sent for a job cancelled after it was given its task id.     *)
DiscardRevoked(w, j) ==
  /\ pc[w] = "idle" /\ queue[j] > 0
  /\ job[j].cancel /\ job[j].taskId
  /\ queue' = [queue EXCEPT ![j] = @ - 1]
  /\ UNCHANGED <<job, dispatch, workerVars, faults>>

(* transition_job to RUNNING, outside the try block; the progress written  *)
(* is computed from the row read before the lock.                          *)
Start(w) ==
  /\ pc[w] = "starting"
  /\ Write(task[w], Started(job[task[w]], IF seen[w] > 1 THEN seen[w] ELSE 1))
  /\ Become(w, IF CanEnter(job[task[w]], "RUNNING")
                 THEN "handler" ELSE "acking")
  /\ seen' = [seen EXCEPT ![w] = 0]
  /\ UNCHANGED <<dispatch, brokerVars, task, step, exc, faults>>

(* report_job_progress, called by the handler: it writes the progress, or  *)
(* raises JobCancellationRequested, or ValueError.                         *)
ReportProgress(w) ==
  LET row   == job[task[w]]
      value == Script[step[w] + 1]
      cancelled == row.status = "RUNNING" /\ row.cancel
  IN  /\ pc[w] = "handler" /\ step[w] < Len(Script)
      /\ Write(task[w], Reported(row, value))
      /\ IF CanReport(row, value)
           THEN /\ step' = [step EXCEPT ![w] = @ + 1]
                /\ UNCHANGED <<pc, exc>>
           ELSE /\ step' = [step EXCEPT ![w] = 0]
                /\ Become(w, IF cancelled THEN "cancelling" ELSE "failing")
                /\ exc' = [exc EXCEPT ![w] = IF cancelled THEN @
                                             ELSE "VALUEERROR"]
      /\ UNCHANGED <<dispatch, brokerVars, task, seen, faults>>

(* The handler raises by itself, or its own ensure_not_cancelled does.     *)
HandlerRaises(w) ==
  /\ pc[w] = "handler"
  /\ \/ /\ "RetryableJobError" \in HandlerFaults
        /\ Become(w, "retryable")
        /\ UNCHANGED exc
     \/ /\ "Exception" \in HandlerFaults
        /\ Become(w, "failing")
        /\ exc' = [exc EXCEPT ![w] = "EXCEPTION"]
     \/ /\ job[task[w]].cancel
        /\ Become(w, "cancelling")
        /\ UNCHANGED exc
  /\ step' = [step EXCEPT ![w] = 0]
  /\ UNCHANGED <<job, dispatch, brokerVars, task, seen, faults>>

(* The handler returns and execute_job calls ensure_not_cancelled.         *)
HandlerReturns(w) ==
  /\ pc[w] = "handler" /\ step[w] = Len(Script)
  /\ Become(w, IF job[task[w]].cancel THEN "cancelling" ELSE "completing")
  /\ step' = [step EXCEPT ![w] = 0]
  /\ UNCHANGED <<job, dispatch, brokerVars, task, seen, exc, faults>>

Complete(w) ==
  /\ pc[w] = "completing"
  /\ Write(task[w], Transitioned(job[task[w]], "SUCCEEDED", "NO_ERROR"))
  /\ Become(w, "acking")
  /\ UNCHANGED <<dispatch, brokerVars, task, seen, step, exc, faults>>

RecordFailure(w) ==
  /\ pc[w] = "failing"
  /\ Write(task[w], Transitioned(job[task[w]], "FAILED", exc[w]))
  /\ Become(w, "acking")
  /\ exc' = [exc EXCEPT ![w] = "NO_ERROR"]
  /\ UNCHANGED <<dispatch, brokerVars, task, seen, step, faults>>

AcknowledgeCancellation(w) ==
  /\ pc[w] = "cancelling"
  /\ Write(task[w], CancellationAcknowledged(job[task[w]]))
  /\ Become(w, "acking")
  /\ UNCHANGED <<dispatch, brokerVars, task, seen, step, exc, faults>>

(* Mutants: the last retry is not granted; one retry too many is tried.    *)
CheckRetryBudgetEarly(w) ==
  /\ pc[w] = "retryable"
  /\ Become(w, IF job[task[w]].retryCount + 1 >= job[task[w]].maxRetries
                 THEN "exhausted" ELSE "retrying")
  /\ UNCHANGED <<job, dispatch, brokerVars, task, seen, step, exc, faults>>

CheckRetryBudgetLate(w) ==
  /\ pc[w] = "retryable"
  /\ Become(w, IF job[task[w]].retryCount > job[task[w]].maxRetries
                 THEN "exhausted" ELSE "retrying")
  /\ UNCHANGED <<job, dispatch, brokerVars, task, seen, step, exc, faults>>

(* RetryableJobError is caught: the row is read again without a lock.      *)
CheckRetryBudget(w) ==
  /\ pc[w] = "retryable"
  /\ Become(w, IF job[task[w]].retryCount >= job[task[w]].maxRetries
                 THEN "exhausted" ELSE "retrying")
  /\ UNCHANGED <<job, dispatch, brokerVars, task, seen, step, exc, faults>>

RecordExhaustion(w) ==
  /\ pc[w] = "exhausted"
  /\ Write(task[w], Transitioned(job[task[w]], "FAILED",
                                 "JOB_RETRY_LIMIT_EXCEEDED"))
  /\ Become(w, "acking")
  /\ UNCHANGED <<dispatch, brokerVars, task, seen, step, exc, faults>>

(* What mark_job_retrying raises inside the except block is caught by no   *)
(* other except of execute_job: the task fails and is acknowledged.        *)
MarkRetrying(w) ==
  /\ pc[w] = "retrying"
  /\ Write(task[w], Retried(job[task[w]]))
  /\ Become(w, IF CanRetry(job[task[w]]) THEN "republishing" ELSE "acking")
  /\ UNCHANGED <<dispatch, brokerVars, task, seen, step, exc, faults>>

(* self.retry publishes the message again; when it cannot, Celery rejects  *)
(* the delivery without requeueing it.                                     *)
Republish(w) ==
  /\ pc[w] = "republishing"
  /\ \/ /\ queue' = [queue EXCEPT ![task[w]] = @ + 1]
        /\ UNCHANGED faults
     \/ /\ faults["publish"] < MaxPublishFaults
        /\ Fault("publish")
        /\ UNCHANGED queue
  /\ Become(w, "acking")
  /\ UNCHANGED <<job, dispatch, task, seen, step, exc>>

Release(w) ==
  /\ Become(w, "idle")
  /\ task' = [task EXCEPT ![w] = NoJob]
  /\ seen' = [seen EXCEPT ![w] = 0]
  /\ step' = [step EXCEPT ![w] = 0]
  /\ exc'  = [exc EXCEPT ![w] = "NO_ERROR"]

Acknowledge(w) ==
  /\ pc[w] = "acking"
  /\ Release(w)
  /\ UNCHANGED <<job, dispatch, brokerVars, faults>>

(* Mutant: messages are acknowledged on receipt. *)
WorkerCrashAcksEarly(w) ==
  /\ pc[w] # "idle"
  /\ faults["worker"] < MaxWorkerCrashes
  /\ Fault("worker")
  /\ Release(w)
  /\ UNCHANGED <<job, dispatch, queue>>

(* reject_on_worker_lost: the message of a lost worker is requeued. *)
WorkerCrash(w) ==
  /\ pc[w] # "idle"
  /\ faults["worker"] < MaxWorkerCrashes
  /\ Fault("worker")
  /\ queue' = [queue EXCEPT ![task[w]] = @ + 1]
  /\ Release(w)
  /\ UNCHANGED <<job, dispatch>>

(* CELERY_TASK_TIME_LIMIT: the process is killed, the message is dropped.  *)
TimeLimit(w) ==
  /\ pc[w] = "handler"
  /\ faults["timelimit"] < MaxTimeLimits
  /\ Fault("timelimit")
  /\ Release(w)
  /\ UNCHANGED <<job, dispatch, brokerVars>>

(* The broker delivers an unacknowledged message a second time while the   *)
(* first delivery is still running.                                        *)
Redeliver(w) ==
  /\ pc[w] # "idle"
  /\ faults["redelivery"] < MaxRedeliveries
  /\ Fault("redelivery")
  /\ queue' = [queue EXCEPT ![task[w]] = @ + 1]
  /\ UNCHANGED <<job, dispatch, workerVars>>

-----------------------------------------------------------------------------
DispatchStep(j) ==
  MarkQueued(j) \/ Publish(j) \/ PublishRaises(j) \/ RecordDispatchFailure(j)

WorkerStep(w) ==
  \/ Start(w) \/ ReportProgress(w) \/ HandlerRaises(w) \/ HandlerReturns(w)
  \/ Complete(w) \/ RecordFailure(w) \/ AcknowledgeCancellation(w)
  \/ CheckRetryBudget(w) \/ RecordExhaustion(w) \/ MarkRetrying(w)
  \/ Republish(w) \/ Acknowledge(w)

Receive(j) == \E w \in Workers : Deliver(w, j) \/ DiscardRevoked(w, j)

Next ==
  \/ \E j \in Jobs : \/ CreateJob(j) \/ DispatchStep(j) \/ Receive(j)
                     \/ RequestCancellation(j) \/ WebCrash(j)
  \/ \E w \in Workers : \/ WorkerStep(w)
                        \/ WorkerCrash(w) \/ TimeLimit(w) \/ Redeliver(w)

Spec == Init /\ [][Next]_vars

(* Web processes and workers that are alive take their next step, and a    *)
(* waiting message is eventually taken by some idle worker. Nothing is     *)
(* assumed of users, crashes or the broker's faults.                       *)
Fairness == /\ \A j \in Jobs : WF_vars(DispatchStep(j)) /\ WF_vars(Receive(j))
            /\ \A w \in Workers : WF_vars(WorkerStep(w))

FairSpec == Spec /\ Fairness

-----------------------------------------------------------------------------
(* Properties.                                                             *)

Labels == {"idle", "starting", "handler", "completing", "failing",
           "cancelling", "retryable", "exhausted", "retrying",
           "republishing", "acking"}

(* Every variable has its type; a busy worker holds the message of a job.  *)
TypeOK ==
  /\ job \in [Jobs -> Row]
  /\ dispatch \in [Jobs -> {"none", "committed", "queued", "failing", "done"}]
  /\ queue \in [Jobs -> Nat]
  /\ pc \in [Workers -> Labels]
  /\ task \in [Workers -> Jobs \union {NoJob}]
  /\ seen \in [Workers -> 0..(Top - 1)]
  /\ step \in [Workers -> 0..Len(Script)]
  /\ exc \in [Workers -> {"NO_ERROR", "VALUEERROR", "EXCEPTION"}]
  /\ faults \in [FaultKind -> Nat]
  /\ \A w \in Workers : pc[w] # "idle" => task[w] \in Jobs

(* A worker is past its RUNNING transition and has not yet settled or      *)
(* handed back the job.                                                    *)
Executing(w) == pc[w] \in {"handler", "completing", "failing", "cancelling",
                           "retryable", "exhausted", "retrying"}

(* However often the broker delivers a message and whatever workers die,   *)
(* two workers are never inside the handler code of the same job.          *)
SingleExecutor ==
  \A v, w \in Workers :
    Executing(v) /\ Executing(w) /\ task[v] = task[w] => v = w

(* A job still waiting to run carries no cancellation request: no retry,   *)
(* redelivery or late dispatch can bring a cancelled job back to a queue.  *)
WaitingNotCancelled ==
  \A j \in Jobs : job[j].status \in Waiting => ~job[j].cancel

(* finished_at is set exactly on terminal rows, 100 percent exactly on     *)
(* successful ones, on every path that ends a job.                         *)
LedgerConsistent ==
  \A j \in Jobs :
    /\ job[j].finished <=> job[j].status \in Terminal
    /\ job[j].progress = Top <=> job[j].status = "SUCCEEDED"

(* The retry counter stays within the creator's limit, and a job fails for *)
(* exhaustion only when the budget really is spent.                        *)
RetryBudget ==
  \A j \in Jobs :
    /\ job[j].retryCount <= job[j].maxRetries
    /\ job[j].error = "JOB_RETRY_LIMIT_EXCEEDED"
         => job[j].retryCount = job[j].maxRetries

(* A terminal row is never written again by any of the racing processes:   *)
(* not its status, its progress, its error nor its cancellation time.      *)
TerminalFrozen ==
  [][\A j \in Jobs : job[j].status \in Terminal => job'[j] = job[j]]_vars

(* After a cancellation request a job makes no more progress and starts no *)
(* retry: its row only moves to a terminal status.                         *)
CancelledOnlySettles ==
  [][\A j \in Jobs : job[j].cancel /\ job'[j] # job[j]
       => job'[j].status \in Terminal]_vars

(* Progress never moves backwards, over all attempts of a job, unless its  *)
(* message was delivered twice: by the broker, or for a lost worker.       *)
ProgressMonotonic ==
  [][faults["redelivery"] = 0 /\ faults["worker"] = 0 =>
       \A j \in Jobs : job'[j].progress >= job[j].progress]_vars

(* A committed job nobody cancels reaches a terminal status.               *)
UncancelledFinishes ==
  \A j \in Jobs :
    job[j].status = "PENDING" ~> job[j].status \in Terminal \/ job[j].cancel

(* Only a lost process, a killed task or a failed publication can leave    *)
(* such a job unfinished: retries, redeliveries and races cannot.          *)
FinishesUnlessLost ==
  \A j \in Jobs :
    job[j].status = "PENDING" ~>
      \/ job[j].status \in Terminal \/ job[j].cancel
      \/ \E kind \in {"web", "worker", "timelimit", "publish"} :
           faults[kind] > 0

(* Late acknowledgement: a job that waits for a worker is picked up or     *)
(* ended, even when workers die holding its message. A new one can be left *)
(* behind only by its web process, when that is lost before the message is *)
(* out, and one that retries only by the publication of its message.       *)
WaitingIsTaken ==
  \A j \in Jobs :
    /\ job[j].status \in {"PENDING", "QUEUED"} ~>
         job[j].status \in Terminal \union {"RUNNING"} \/ faults["web"] > 0
    /\ job[j].status = "RETRYING" ~>
         job[j].status \in Terminal \union {"RUNNING"} \/ faults["publish"] > 0

-----------------------------------------------------------------------------
(* The inductive invariant behind the safety properties: what holds of one *)
(* row, and what a worker inside the handler code may rely on.             *)

Idle(r) == r.status \in Waiting \union {"ABSENT"}

RowInv(r) ==
  /\ Idle(r) => ~r.cancel
  /\ r.finished <=> r.status \in Terminal
  /\ r.progress = Top <=> r.status = "SUCCEEDED"
  /\ r.retryCount <= r.maxRetries
  /\ r.error = "JOB_RETRY_LIMIT_EXCEEDED" => r.retryCount = r.maxRetries

ExecutingStarted ==
  \A w \in Workers : Executing(w) => ~Idle(job[task[w]])

ExhaustedSpent ==
  \A w \in Workers : pc[w] = "exhausted" =>
    job[task[w]].retryCount >= job[task[w]].maxRetries

(* The conjunction that every action preserves. *)
IInv ==
  /\ TypeOK
  /\ \A j \in Jobs : RowInv(job[j])
  /\ SingleExecutor
  /\ ExecutingStarted
  /\ ExhaustedSpent

(* Behind ProgressMonotonic: as long as no message has been doubled, a job *)
(* has one message, which waits for its dispatch, at the broker or in one  *)
(* worker; so the progress that worker read without a lock is still that   *)
(* of the row when it starts the job.                                      *)
Undisturbed == faults["redelivery"] = 0 /\ faults["worker"] = 0

Holds(w, j) == task[w] = j /\ pc[w] \notin {"idle", "acking"}

AbsentIsFresh ==
  \A j \in Jobs : job[j].status = "ABSENT" =>
    job[j].progress = 0 /\ dispatch[j] = "none"

OneMessage(j) ==
  /\ queue[j] <= 1
  /\ queue[j] = 1 => /\ dispatch[j] \in {"failing", "done"}
                     /\ \A w \in Workers : ~Holds(w, j)
  /\ \A w \in Workers : Holds(w, j) => dispatch[j] \in {"failing", "done"}
  /\ \A v, w \in Workers : Holds(v, j) /\ Holds(w, j) => v = w

SeenIsCurrent ==
  \A w \in Workers : pc[w] = "starting" => seen[w] = job[task[w]].progress

MessageInv ==
  /\ AbsentIsFresh
  /\ Undisturbed => (\A j \in Jobs : OneMessage(j)) /\ SeenIsCurrent
=============================================================================
